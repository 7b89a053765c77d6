----------------------------- MODULE DraftStore -----------------------------
(***************************************************************************)
(* What the drafts of a workspace promise: the history of a draft grows by *)
(* one mutation at a time, an operation changes the draft and its run      *)
(* files together, and once promised nothing else happens to the draft     *)
(* until the operation has.                                                *)
(***************************************************************************)
EXTENDS Sequences

CONSTANTS Op, Edit, Draft, File, NONE

VARIABLES
  history,      \* the mutations of each draft, oldest first
  files,        \* the run files that belong to each draft
  promise       \* the operation each draft is bound to

storeVars == <<history, files, promise>>

Applied(d) == {history[d][i] : i \in DOMAIN history[d]}

Init ==
  /\ history \in [Draft -> {<<>>, <<"created">>}]
  /\ files \in [Draft -> [File -> {"absent", "initial"}]]
  /\ promise = [d \in Draft |-> NONE]

\* An operation binds one draft, once and for all.
Promise(d, o) ==
  /\ promise[d] = NONE
  /\ \A e \in Draft : promise[e] # o /\ o \notin Applied(e)
  /\ promise' = [promise EXCEPT ![d] = o]
  /\ UNCHANGED <<history, files>>

\* The operation happens: all its outputs appear with its place in the history.
Settle(d) ==
  /\ promise[d] # NONE
  /\ history' = [history EXCEPT ![d] = Append(@, promise[d])]
  /\ \E outs \in SUBSET File :
       files' = [files EXCEPT ![d] = [f \in File |-> IF f \in outs THEN promise[d] ELSE @[f]]]
  /\ promise' = [promise EXCEPT ![d] = NONE]

Change(d, m) ==
  /\ promise[d] = NONE
  /\ m \notin Applied(d)
  /\ history' = [history EXCEPT ![d] = Append(@, m)]
  /\ UNCHANGED <<files, promise>>

Save(d) ==
  /\ promise[d] = NONE
  /\ \E f \in File : files' = [files EXCEPT ![d][f] = "saved"]
  /\ UNCHANGED <<history, promise>>

\* Somebody changes a file without the program; while an operation is promised such a
\* change can be lost under it.
Outside(d) ==
  /\ \E f \in File : files' = [files EXCEPT ![d][f] = "outside"]
  /\ UNCHANGED <<history, promise>>
LoseOutside(d) ==
  /\ promise[d] # NONE
  /\ \E f \in File : /\ files[d][f] = "outside"
                     /\ \E v \in {"absent", "initial", "saved"} \cup Op :
                          files' = [files EXCEPT ![d][f] = v]
  /\ UNCHANGED <<history, promise>>

Next ==
  \E d \in Draft :
    \/ \E o \in Op : Promise(d, o)
    \/ Settle(d)
    \/ \E m \in Edit : Change(d, m)
    \/ Save(d)
    \/ Outside(d) \/ LoseOutside(d)

Spec == Init /\ [][Next]_storeVars
=============================================================================
