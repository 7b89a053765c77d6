-------------------------- MODULE PreparationSlot --------------------------
(***************************************************************************)
(* What the preparation queue promises a workspace, without processes,     *)
(* leases, rows or retries: there is one slot; an attempt takes it at most *)
(* once, produces output only while it holds it, and gets one outcome, for *)
(* good, when it gives it up.  JobQueue implements this.                   *)
(***************************************************************************)
CONSTANTS
  Attempt,      \* attempts
  Outcome,      \* how an attempt can end
  Output,       \* what an attempt can leave behind
  NONE          \* no attempt, no outcome

VARIABLES
  owner,        \* the attempt in the slot, or NONE
  outcome,      \* the outcome of each attempt, NONE before it ends
  output        \* what each attempt has left behind

slotVars == <<owner, outcome, output>>

Init ==
  /\ owner = NONE
  /\ outcome = [a \in Attempt |-> NONE]
  /\ output = [a \in Attempt |-> {}]

Untried(a) == outcome[a] = NONE /\ output[a] = {} /\ owner # a

\* The free slot is taken.
Acquire(a) ==
  /\ owner = NONE
  /\ Untried(a)
  /\ owner' = a
  /\ UNCHANGED <<outcome, output>>

\* The owner ends; the slot is free, or passes to another attempt at once.
Release(o, next) ==
  /\ owner # NONE
  /\ outcome' = [outcome EXCEPT ![owner] = o]
  /\ next = NONE \/ Untried(next)
  /\ owner' = next
  /\ UNCHANGED output

Produce(x) ==
  /\ owner # NONE
  /\ output' = [output EXCEPT ![owner] = @ \cup {x}]
  /\ UNCHANGED <<owner, outcome>>

Next ==
  \/ \E a \in Attempt : Acquire(a)
  \/ \E o \in Outcome, next \in Attempt \cup {NONE} : Release(o, next)
  \/ \E x \in Output : Produce(x)

Spec == Init /\ [][Next]_slotVars
=============================================================================
