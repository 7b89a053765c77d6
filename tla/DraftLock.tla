----------------------------- MODULE DraftLock -----------------------------
(***************************************************************************)
(* withDraftFileLock of packages/cli/src/tailoring/drafts/locks.ts: the    *)
(* lock every draft, journal and artifact write is made under.  The lock   *)
(* is a directory of generations; generation n is the file n.owner, hard-  *)
(* linked from the complete temporary file of the call that takes it, and  *)
(* n.owner.done, linked from the same file when that call is over.         *)
(*                                                                         *)
(* Each call that changes or lists the directory is one step: calls of     *)
(* other processes may act between any two of them, and a process may die  *)
(* between any two of them.  The reads of one probe are one step.          *)
(***************************************************************************)
EXTENDS Naturals, FiniteSets

CONSTANTS
  Call,         \* calls of withDraftFileLock on one file (their nonces)
  Process,      \* process identifiers
  MaxTries,     \* how often a call tries to link a generation (64 in the code)
  MaxGen,       \* bound: generations on disk
  Reused,       \* process identifiers the system may give out again
  NONE          \* no file

ASSUME LockAssumption ==
  /\ NONE \notin Call
  /\ MaxTries \in Nat \ {0}
  /\ MaxGen \in Nat
  /\ Reused \subseteq Process

VARIABLES
  owner,        \* the call each n.owner names
  done,         \* the call each n.owner.done names
  alive,        \* the processes that are running
  pc,           \* where each call is
  pid,          \* the process of each call
  current,      \* the highest generation the call has read
  tries,        \* how many generations the call has tried to link
  old           \* files of older generations the call has left to unlink

vars == <<owner, done, alive, pc, pid, current, tries, old>>

Gen == 1..MaxGen

\* A call scans for the highest generation, reads how that one ended, links the
\* next, confirms that it is still the highest, lists and removes the older ones,
\* runs its action and publishes its end.
Holding == {"list", "clean", "act", "release"}
Running == {"scan", "probe", "link", "confirm", "withdraw"} \cup Holding
Over == {"finished", "refused", "crashed"}

TypeOK ==
  /\ owner \in [Gen -> Call \cup {NONE}]
  /\ done \in [Gen -> Call \cup {NONE}]
  /\ alive \subseteq Process
  /\ pc \in [Call -> {"new"} \cup Running \cup Over]
  /\ pid \in [Call -> Process]
  /\ current \in [Call -> 0..MaxGen]
  /\ tries \in [Call -> 0..MaxTries]
  /\ old \in [Call -> SUBSET (Gen \X {"owner", "done"})]

-----------------------------------------------------------------------------
(* The directory *)

Present(g) == owner[g] # NONE
\* highest(): the newest generation, 0 in an empty directory.
IsHighest(g) ==
  /\ g = 0 \/ (g \in Gen /\ Present(g))
  /\ \A h \in Gen : h > g => ~Present(h)

\* The owner of generation g published its end.
Released(g) == Present(g) /\ done[g] = owner[g]
\* dead(): the operating system reports the process of g's owner gone.
Dead(g) == Present(g) /\ pid[owner[g]] \notin alive

-----------------------------------------------------------------------------
Init ==
  /\ owner = [g \in Gen |-> NONE]
  /\ done = [g \in Gen |-> NONE]
  /\ alive = Process
  /\ pc = [c \in Call |-> "new"]
  /\ pid \in [Call -> Process]
  /\ current = [c \in Call |-> 0]
  /\ tries = [c \in Call |-> 0]
  /\ old = [c \in Call |-> {}]

\* A process runs one call at a time: withDraftFileLock is synchronous.
Begin(c) ==
  /\ pc[c] = "new"
  /\ pid[c] \in alive
  /\ \A d \in Call : pid[d] = pid[c] => pc[d] \notin Running
  /\ pc' = [pc EXCEPT ![c] = "scan"]
  /\ UNCHANGED <<owner, done, alive, pid, current, tries, old>>

MayTry(c) == tries[c] < MaxTries

\* The head of the loop; after MaxTries the call gives up.
Scan(c) ==
  /\ pc[c] = "scan"
  /\ \/ /\ ~MayTry(c)
        /\ pc' = [pc EXCEPT ![c] = "refused"]
        /\ UNCHANGED <<current, tries>>
     \/ /\ MayTry(c)
        /\ \E g \in 0..MaxGen :
             /\ IsHighest(g)
             /\ current' = [current EXCEPT ![c] = g]
             /\ pc' = [pc EXCEPT ![c] = IF g = 0 THEN "link" ELSE "probe"]
        /\ tries' = [tries EXCEPT ![c] = @ + 1]
  /\ UNCHANGED <<owner, done, alive, pid, old>>

\* Only a released generation, or one whose owner died, may be succeeded.
Probe(c) ==
  /\ pc[c] = "probe"
  /\ pc' = [pc EXCEPT ![c] =
       IF Released(current[c]) \/ Dead(current[c]) THEN "link" ELSE "refused"]
  /\ UNCHANGED <<owner, done, alive, pid, current, tries, old>>

\* linkSync of the complete temporary file: it fails where a file exists.
Link(c) ==
  /\ pc[c] = "link"
  /\ current[c] < MaxGen
  /\ IF Present(current[c] + 1)
     THEN pc' = [pc EXCEPT ![c] = "scan"] /\ UNCHANGED owner
     ELSE /\ owner' = [owner EXCEPT ![current[c] + 1] = c]
          /\ pc' = [pc EXCEPT ![c] = "confirm"]
  /\ UNCHANGED <<done, alive, pid, current, tries, old>>

\* Fault: no second look at the directory.
StillThere(c) == owner[current[c] + 1] = c
StillHighest(c) == IsHighest(current[c] + 1)

\* Fault: the last try gives up before it has seen whether its file is the newest.
ConfirmUnlessLast(c) ==
  /\ pc[c] = "confirm"
  /\ pc' = [pc EXCEPT ![c] =
       IF ~MayTry(c) THEN "refused" ELSE IF StillHighest(c) THEN "list" ELSE "withdraw"]
  /\ UNCHANGED <<owner, done, alive, pid, current, tries, old>>

\* A stale contender may have linked a generation that was already deleted.
Confirm(c) ==
  /\ pc[c] = "confirm"
  /\ IF StillHighest(c)
     THEN pc' = [pc EXCEPT ![c] = "list"]
     ELSE pc' = [pc EXCEPT ![c] = "withdraw"]
  /\ UNCHANGED <<owner, done, alive, pid, current, tries, old>>

Withdraw(c) ==
  /\ pc[c] = "withdraw"
  /\ owner' = [owner EXCEPT ![current[c] + 1] = NONE]
  /\ pc' = [pc EXCEPT ![c] = "scan"]
  /\ UNCHANGED <<done, alive, pid, current, tries, old>>

Older(c) ==
  {f \in Gen \X {"owner", "done"} : f[1] < current[c] + 1 /\ Present(f[1])}

\* List the generations before the one that is held.
List(c) ==
  /\ pc[c] = "list"
  /\ pc' = [pc EXCEPT ![c] = "clean"]
  /\ old' = [old EXCEPT ![c] = Older(c)]
  /\ UNCHANGED <<owner, done, alive, pid, current, tries>>

\* Unlink the older generations one file at a time, each owner before its done.
Unlink(c) ==
  /\ pc[c] = "clean"
  /\ \E f \in old[c] :
       /\ f[2] = "done" => <<f[1], "owner">> \notin old[c]
       /\ old' = [old EXCEPT ![c] = @ \ {f}]
       /\ IF f[2] = "owner"
          THEN owner' = [owner EXCEPT ![f[1]] = NONE] /\ UNCHANGED done
          ELSE done' = [done EXCEPT ![f[1]] = NONE] /\ UNCHANGED owner
  /\ UNCHANGED <<alive, pc, pid, current, tries>>

Enter(c) ==
  /\ pc[c] = "clean" /\ old[c] = {}
  /\ pc' = [pc EXCEPT ![c] = "act"]
  /\ UNCHANGED <<owner, done, alive, pid, current, tries, old>>

\* The action returns or throws.
Act(c) ==
  /\ pc[c] = "act"
  /\ pc' = [pc EXCEPT ![c] = "release"]
  /\ UNCHANGED <<owner, done, alive, pid, current, tries, old>>

GenerationHeld(c) == current[c] + 1

\* Publish the end; the temporary file is unlinked.
Release(c) ==
  /\ pc[c] = "release"
  /\ done' = [done EXCEPT ![GenerationHeld(c)] = c]
  /\ pc' = [pc EXCEPT ![c] = "finished"]
  /\ UNCHANGED <<owner, alive, pid, current, tries, old>>

\* A process dies: its call never returns.
Die(p) ==
  /\ p \in alive
  /\ alive' = alive \ {p}
  /\ pc' = [c \in Call |-> IF pid[c] = p /\ pc[c] \in Running THEN "crashed" ELSE pc[c]]
  /\ UNCHANGED <<owner, done, pid, current, tries, old>>

\* The system gives the identifier to another process.
Reuse(p) ==
  /\ p \in Reused \ alive
  /\ alive' = alive \cup {p}
  /\ UNCHANGED <<owner, done, pc, pid, current, tries, old>>

Step(c) ==
  \/ Begin(c) \/ Scan(c) \/ Probe(c) \/ Link(c) \/ Confirm(c) \/ Withdraw(c)
  \/ List(c) \/ Unlink(c) \/ Enter(c) \/ Act(c) \/ Release(c)

Next ==
  \/ \E c \in Call : Step(c)
  \/ \E p \in Process : Die(p) \/ Reuse(p)

Spec == Init /\ [][Next]_vars

-----------------------------------------------------------------------------
(* Safety *)

\* Two calls never run their actions at once, whatever stale contenders link,
\* whoever dies between two system calls, and whichever identifiers are reused.
MutualExclusion ==
  \A c, d \in Call : pc[c] \in Holding /\ pc[d] \in Holding => c = d

\* When no call is running, the next one gets the lock: nothing a dead process
\* left behind keeps it, unless the identifier of the last owner was reused.
QuietIsFree ==
  (\A c \in Call : pc[c] \notin Running) =>
    \A g \in Gen : IsHighest(g) /\ pid[owner[g]] \notin Reused => Released(g) \/ Dead(g)

\* A call that is refused, by a holder or after its last try, has left no file
\* that names it, whichever of its tries linked one: its process may live on, and
\* what it left would pass for held.
RefusedOwnsNothing ==
  \A c \in Call : pc[c] = "refused" => \A g \in Gen : owner[g] # c

\* The newest generation stays: a cleanup or a withdrawal that removed it would
\* let a later call begin again at a generation somebody still holds.
NewestStays ==
  [][\A g \in Gen : IsHighest(g) => owner'[g] = owner[g]]_vars
=============================================================================
