---------------------------- MODULE DraftJournal ----------------------------
(***************************************************************************)
(* The journal of packages/cli/src/tailoring/drafts: operations.ts, the    *)
(* part of repository.ts that commits, the callers of service.ts that      *)
(* build operations, and the guarded writes of run files (store.ts and the *)
(* guard in orchestrator.ts).                                              *)
(*                                                                         *)
(* execute() is synchronous in its process, but every file it reads or     *)
(* writes is shared with other processes, and its process may die between  *)
(* any two of them: each lock it takes, each file it replaces and each     *)
(* phase it marks is a step.  A lock is whoever holds it: it refuses at    *)
(* once while its holder lives and is free when the holder died, as        *)
(* DraftLock shows of the directory it is made of.                         *)
(***************************************************************************)
EXTENDS Naturals, Sequences, FiniteSets

CONSTANTS
  Process,      \* processes that serve the workspace
  Draft,        \* draft identifiers
  Managed,      \* drafts that have a record at the start
  Legacy,       \* runs that have files and no draft yet, under the identifier they will get
  Op,           \* identifiers of journalled operations
  AdoptOp,      \* the operation identifier derived from a legacy run
  Edit,         \* mutation identifiers of the browser's saves
  MaxReceipts,  \* receipts a draft keeps (32 in the code)
  Touchable,    \* bound: the files somebody changes without the program, once each
  Mortal,       \* bound: processes that may die (one death needs only one of them)
  MaxCrashes, MaxSaves,   \* bounds
  NONE

File == {"artifact", "manifest"}
Command == {"apply", "complete", "adopt", "continue"}

ASSUME JournalAssumption ==
  /\ Managed \subseteq Draft
  /\ Legacy \subseteq Draft \ Managed
  /\ AdoptOp \in [Legacy -> Op]
  /\ \A d, e \in Legacy : AdoptOp[d] = AdoptOp[e] => d = e
  /\ Op \cap Edit = {}
  /\ {"absent", "initial", "saved", "outside", "created"} \cap (Op \cup Edit) = {}
  /\ NONE \notin Op
  /\ MaxReceipts \in Nat \ {0}
  /\ Touchable \subseteq Draft \X File
  /\ MaxCrashes \in Nat /\ MaxSaves \in Nat

VARIABLES
  log,          \* the mutations of each draft; its revision is their number
  token,        \* the artifact each draft's record says is on disk
  file,         \* the run files of each draft
  linked,       \* whether the manifest on disk names its draft
  phase,        \* phase[d][o]: the journal file of o under d
  intent,       \* intent[d][o]: the operation in that file
  sent,         \* the revision each browser save was made from
  proc,         \* what each process is doing
  edited,       \* files somebody changed without the program
  crashes, saves

vars == <<log, token, file, linked, phase, intent, sent, proc, edited, crashes, saves>>
disk == <<log, token, file, linked, phase, intent>>
bounds == <<crashes, saves>>

-----------------------------------------------------------------------------
(* An operation as execute() is given it *)

Content == [command : Command, expected : Nat, base : [File -> Op \cup {"absent", "initial", "saved", "outside"}]]

\* writes and sources of publishStep, complete, adoptRun and continue.
Outputs(content) == IF content.command \in {"apply", "continue"} THEN File ELSE {"manifest"}
Sources(content) == File \ Outputs(content)

Idle == [at |-> "idle", op |-> NONE, draft |-> NONE, content |-> NONE, held |-> {}, left |-> {},
         assoc |-> FALSE, carries |-> FALSE, todo |-> {}]

Acting == {"identity", "locking", "prepare", "check", "replace", "mark", "commit", "finish"}
Identified == Acting \ {"identity"}
Saving == {"open", "validate", "write"}

-----------------------------------------------------------------------------
(* What is on disk *)

Exists(d) == log[d] # <<>>
Mutations(d) == {log[d][i] : i \in DOMAIN log[d]}
Receipts(d) == {log[d][i] : i \in {j \in DOMAIN log[d] : j + MaxReceipts > Len(log[d])}}
Completed(d) ==
  \E o \in Op : /\ o \in Mutations(d)
                /\ phase[d][o] # "none"
                /\ intent[d][o].command = "complete"

Unresolved(d, o) == phase[d][o] \in {"prepared", "written"}

\* pending(): an unresolved journal under the draft, other than the caller's own.
PendingBut(d, allowed) == \E o \in Op : o # allowed /\ Unresolved(d, o)
Pending(d) == PendingBut(d, NONE)

Editable(d) == ~Completed(d)

-----------------------------------------------------------------------------
(* Locks *)

HoldsDraft(p, d) ==
  /\ proc[p].draft = d
  /\ \/ proc[p].at \in Acting
     \/ proc[p].at \in Saving /\ proc[p].assoc
DraftFree(d) == \A p \in Process : ~HoldsDraft(p, d)

HoldsIdentity(p, o) == proc[p].at \in Identified /\ proc[p].op = o
\* Fault: the lock of the operation's identity is not taken.
IdentityIgnored(o) == TRUE
IdentityFree(o) == \A p \in Process : ~HoldsIdentity(p, o)

PathFree(d, f) == \A p \in Process : ~(proc[p].draft = d /\ f \in proc[p].held)

-----------------------------------------------------------------------------
Init ==
  /\ log = [d \in Draft |-> IF d \in Managed THEN <<"created">> ELSE <<>>]
  /\ token = [d \in Draft |-> IF d \in Managed THEN "initial" ELSE "absent"]
  /\ file = [d \in Draft |-> [f \in File |-> IF d \in Managed \cup Legacy THEN "initial" ELSE "absent"]]
  /\ linked = [d \in Draft |-> d \in Managed]
  /\ phase = [d \in Draft |-> [o \in Op |-> "none"]]
  /\ intent = [d \in Draft |-> [o \in Op |-> NONE]]
  /\ sent = [m \in Edit |-> NONE]
  /\ proc = [p \in Process |-> Idle]
  /\ edited = {}
  /\ crashes = 0 /\ saves = 0

Free(p) == proc[p].at = "idle" /\ proc[p].todo = {}

Goto(p, where) == proc' = [proc EXCEPT ![p].at = where]
\* The call returns or throws: every lock is released.
Leave(p) == proc' = [proc EXCEPT ![p] = [Idle EXCEPT !.todo = proc[p].todo]]
Execute(p, d, o, content) ==
  proc' = [proc EXCEPT ![p].at = "enter", ![p].op = o, ![p].draft = d, ![p].content = content]

-----------------------------------------------------------------------------
(* service.ts and orchestrator.ts: building an operation *)

\* A client repeats a request: the operation in the journal is executed again.
Repeat(p, d, o) ==
  /\ Free(p)
  /\ Unresolved(d, o)
  /\ \A e \in Draft \ {d} : phase[e][o] = "none"
  /\ Execute(p, d, o, intent[d][o])
  /\ UNCHANGED <<disk, sent, edited, bounds>>

ClientOp(o) == \A d \in Legacy : AdoptOp[d] # o

\* assertArtifactTokens: the artifact is the one the draft's record names.
Trusted(d) == file[d]["artifact"] = token[d]

MayBuild(command, d, o) ==
  CASE command \in {"apply", "complete"} ->
         ClientOp(o) /\ Exists(d) /\ ~Completed(d) /\ Trusted(d)
    [] command = "adopt" ->
         /\ d \in Legacy /\ AdoptOp[d] = o
         /\ ~Exists(d) /\ ~linked[d] /\ ~Pending(d)
    [] command = "continue" ->
         \* the identifier is random: nothing uses it
         /\ ClientOp(o) /\ d \notin Managed \cup Legacy
         /\ \A q \in Process : proc[q].draft # d
         /\ \A u \in Op : phase[d][u] = "none"

\* lookup() finds no journal: the operation is built from what is on disk now.
Build(p, d, o) ==
  /\ Free(p)
  /\ \A e \in Draft : phase[e][o] = "none"
  /\ \E command \in Command :
       /\ MayBuild(command, d, o)
       /\ Execute(p, d, o, [command |-> command, expected |-> Len(log[d]), base |-> file[d]])
  /\ UNCHANGED <<disk, sent, edited, bounds>>

-----------------------------------------------------------------------------
(* execute() under trustedOperation() *)

Acknowledged(p) == proc[p].op \in Receipts(proc[p].draft)

\* Fault: a draft may be entered although another operation is unresolved.
NothingPendingIgnored(d, o) == TRUE
\* Fault: the journal of the operation itself keeps it out.
NothingPendingAtAll(d, o) == ~Pending(d)
NothingPending(d, o) == ~PendingBut(d, o)

\* check(): the token the operation expects is the record's; null expects no record.
Current(d, content) == content.expected = Len(log[d])

\* read(): an operation of this identifier that is not this operation, anywhere.
Conflicts(p) ==
  LET d == proc[p].draft  o == proc[p].op IN
  \/ \E e \in Draft \ {d} : phase[e][o] # "none"
  \/ phase[d][o] # "none" /\ intent[d][o] # proc[p].content

MayEnter(p) ==
  LET d == proc[p].draft  o == proc[p].op IN
  /\ ~Conflicts(p) /\ phase[d][o] # "committed"
  /\ DraftFree(d)
  /\ NothingPending(d, o)
  /\ Acknowledged(p) \/ (Current(d, proc[p].content) /\ Editable(d))

\* The draft's lock is taken and the record is checked under it.
Enter(p) ==
  /\ proc[p].at = "enter"
  /\ IF MayEnter(p) THEN Goto(p, "identity") ELSE Leave(p)
  /\ UNCHANGED <<disk, sent, edited, bounds>>

\* The identity's lock is taken and the journal is read again under it: another
\* process may have prepared the same operation, even under another draft.
Identify(p) ==
  LET d == proc[p].draft  o == proc[p].op IN
  /\ proc[p].at = "identity"
  /\ IF ~IdentityFree(o) \/ Conflicts(p) \/ phase[d][o] = "committed" THEN Leave(p)
     ELSE Goto(p, IF Acknowledged(p) THEN "finish" ELSE "locking")
  /\ UNCHANGED <<disk, sent, edited, bounds>>

\* The paths are locked in their order: "artifact" sorts before "manifest".
LockPath(p) ==
  LET d == proc[p].draft
      f == IF proc[p].held = {} THEN "artifact" ELSE "manifest"
  IN
  /\ proc[p].at = "locking"
  /\ IF ~PathFree(d, f) THEN Leave(p)
     ELSE proc' = [proc EXCEPT ![p].held = @ \cup {f},
            ![p].left = Outputs(proc[p].content),
            ![p].at = IF f = "artifact" THEN "locking"
                      ELSE IF phase[d][proc[p].op] = "none" THEN "prepare" ELSE "check"]
  /\ UNCHANGED <<disk, sent, edited, bounds>>

\* The journal file is linked exclusively, from a complete temporary file.
Prepare(p) ==
  LET d == proc[p].draft  o == proc[p].op IN
  /\ proc[p].at = "prepare"
  /\ IF phase[d][o] # "none" THEN Leave(p) /\ UNCHANGED <<phase, intent>>
     ELSE /\ phase' = [phase EXCEPT ![d][o] = "prepared"]
          /\ intent' = [intent EXCEPT ![d][o] = proc[p].content]
          /\ Goto(p, "check")
  /\ UNCHANGED <<log, token, file, linked, sent, edited, bounds>>

\* sources() and outputs(): every source is as it was read, every output is as it
\* was read or already new.
SourcesUnchanged(d, content) == \A f \in Sources(content) : file[d][f] = content.base[f]
\* Fault: an output that is neither is replaced all the same.
OutputsIgnored(d, o, content) == TRUE
OutputsExpected(d, o, content) ==
  \A f \in Outputs(content) : file[d][f] \in {o, content.base[f]}
OutputsNew(d, o, content) == \A f \in Outputs(content) : file[d][f] = o

Check(p) ==
  LET d == proc[p].draft  o == proc[p].op  content == proc[p].content
      todo == {f \in proc[p].left : file[d][f] # o}
  IN
  /\ proc[p].at = "check"
  /\ IF ~(SourcesUnchanged(d, content) /\ OutputsExpected(d, o, content)) THEN Leave(p)
     ELSE proc' = [proc EXCEPT ![p].left = todo,
                               ![p].at = IF todo = {} THEN "mark" ELSE "replace"]
  /\ UNCHANGED <<disk, sent, edited, bounds>>

\* One output is renamed into place; somebody who takes no lock may have changed it
\* since it was checked.
Replace(p) ==
  LET d == proc[p].draft  o == proc[p].op IN
  /\ proc[p].at = "replace"
  /\ \E f \in proc[p].left :
       /\ file' = [file EXCEPT ![d][f] = o]
       /\ linked' = [linked EXCEPT ![d] = @ \/ f = "manifest"]
       /\ proc' = [proc EXCEPT ![p].left = @ \ {f}, ![p].at = "check"]
  /\ UNCHANGED <<log, token, phase, intent, sent, edited, bounds>>

MarkWritten(p) ==
  /\ proc[p].at = "mark"
  /\ phase' = [phase EXCEPT ![proc[p].draft][proc[p].op] = "written"]
  /\ Goto(p, "commit")
  /\ UNCHANGED <<log, token, file, linked, intent, sent, edited, bounds>>

\* What the record says of the artifact once the operation is in it.
NewToken(d, o, content) ==
  CASE "artifact" \in Outputs(content) -> o
    [] content.command = "adopt" -> content.base["artifact"]
    [] OTHER -> token[d]

\* Files are checked a last time and the draft is replaced, receipt included.
Commit(p) ==
  LET d == proc[p].draft  o == proc[p].op  content == proc[p].content IN
  /\ proc[p].at = "commit"
  /\ IF ~(SourcesUnchanged(d, content) /\ OutputsNew(d, o, content))
     THEN Leave(p) /\ UNCHANGED <<log, token>>
     ELSE /\ log' = [log EXCEPT ![d] = Append(@, o)]
          /\ token' = [token EXCEPT ![d] = NewToken(d, o, content)]
          /\ Goto(p, "finish")
  /\ UNCHANGED <<file, linked, phase, intent, sent, edited, bounds>>

\* finishReceipt(): the journal is committed and the call returns.
Finish(p) ==
  /\ proc[p].at = "finish"
  /\ phase' = [phase EXCEPT ![proc[p].draft][proc[p].op] = "committed"]
  /\ Leave(p)
  /\ UNCHANGED <<log, token, file, linked, intent, sent, edited, bounds>>

-----------------------------------------------------------------------------
(* recover() *)

\* A process that starts lists the journals, then executes each that is not
\* committed; one that fails is reported and left as it is.
Recover(p) ==
  /\ proc[p].at = "idle"
  /\ \E j \in proc[p].todo :
       LET rest == [proc EXCEPT ![p].todo = @ \ {j}] IN
       proc' = IF Unresolved(j[1], j[2])
               THEN [rest EXCEPT ![p].at = "enter", ![p].draft = j[1], ![p].op = j[2],
                                 ![p].content = intent[j[1]][j[2]]]
               ELSE rest
  /\ UNCHANGED <<disk, sent, edited, bounds>>

Restart(p) ==
  /\ proc[p].at = "down"
  /\ proc' = [proc EXCEPT ![p] = [Idle EXCEPT !.todo =
       {j \in Draft \X Op : Unresolved(j[1], j[2])}]]
  /\ UNCHANGED <<disk, sent, edited, bounds>>

Crash(p) ==
  /\ p \in Mortal
  /\ proc[p].at # "down"
  /\ crashes < MaxCrashes
  /\ crashes' = crashes + 1
  /\ proc' = [proc EXCEPT ![p] = [Idle EXCEPT !.at = "down"]]
  /\ UNCHANGED <<disk, sent, edited, saves>>

-----------------------------------------------------------------------------
(* The browser's saves: update() and trustedTransition() through mutate() *)

\* The browser sends a save made from the revision it has; the request may arrive
\* late, and more than once.
Send(m, d) ==
  /\ sent[m] = NONE /\ Exists(d)
  /\ sent' = [sent EXCEPT ![m] = [draft |-> d, expected |-> Len(log[d])]]
  /\ UNCHANGED <<disk, proc, edited, bounds>>

\* Fault: a save does not look at the journals.
SettledIgnored(d) == TRUE
Settled(d) == ~Pending(d)

\* Fault: the revision the save was made from is not compared.
SaveAtAnyRevision(d, expected) == TRUE
SaveIsCurrent(d, expected) == Len(log[d]) = expected

Update(p, m) ==
  /\ Free(p) /\ sent[m] # NONE
  /\ LET d == sent[m].draft IN
       /\ DraftFree(d) /\ Settled(d)
       /\ m \notin Receipts(d)
       /\ SaveIsCurrent(d, sent[m].expected) /\ Editable(d)
       /\ log' = [log EXCEPT ![d] = Append(@, m)]
  /\ UNCHANGED <<token, file, linked, phase, intent, sent, proc, edited, bounds>>

-----------------------------------------------------------------------------
(* Guarded writes of the manifest: RunStore.writeManifest *)

\* The caller reads the manifest it is going to change.
SaveRead(p, d) ==
  /\ Free(p) /\ saves < MaxSaves /\ file[d]["manifest"] # "absent"
  /\ saves' = saves + 1
  /\ proc' = [proc EXCEPT ![p].at = "guard", ![p].draft = d, ![p].carries = linked[d]]
  /\ UNCHANGED <<disk, sent, edited, crashes>>

\* mutationGuard: the run must not be reserved; a run with a draft is written under
\* the draft's lock (withRunMutation).
SaveGuard(p) ==
  LET d == proc[p].draft IN
  /\ proc[p].at = "guard"
  /\ IF Pending(d) \/ (linked[d] /\ (~DraftFree(d) \/ ~Exists(d) \/ Completed(d))) THEN Leave(p)
     ELSE proc' = [proc EXCEPT ![p].at = "open", ![p].assoc = linked[d]]
  /\ UNCHANGED <<disk, sent, edited, bounds>>

SaveOpen(p) ==
  LET d == proc[p].draft IN
  /\ proc[p].at = "open"
  /\ IF ~PathFree(d, "manifest") THEN Leave(p)
     ELSE proc' = [proc EXCEPT ![p].held = {"manifest"}, ![p].at = "validate"]
  /\ UNCHANGED <<disk, sent, edited, bounds>>

\* Fault: the manifest is not read again before it is replaced.
AssociationIgnored(p) == TRUE
\* The association is the one the guard saw, and is not lost by what is written.
AssociationKept(p) ==
  LET d == proc[p].draft IN
  /\ linked[d] = proc[p].assoc
  /\ linked[d] => proc[p].carries
Reserved(d) == Pending(d)

SaveValidate(p) ==
  /\ proc[p].at = "validate"
  /\ IF Reserved(proc[p].draft) \/ ~AssociationKept(p) THEN Leave(p) ELSE Goto(p, "write")
  /\ UNCHANGED <<disk, sent, edited, bounds>>

SaveWrite(p) ==
  LET d == proc[p].draft IN
  /\ proc[p].at = "write"
  /\ file' = [file EXCEPT ![d]["manifest"] = "saved"]
  /\ linked' = [linked EXCEPT ![d] = proc[p].carries]
  /\ Leave(p)
  /\ UNCHANGED <<log, token, phase, intent, sent, edited, bounds>>

\* A person, or another program, changes a run file.
Outside(d, f) ==
  /\ <<d, f>> \in Touchable \ edited
  /\ file[d][f] # "absent"
  /\ file' = [file EXCEPT ![d][f] = "outside"]
  /\ edited' = edited \cup {<<d, f>>}
  /\ UNCHANGED <<log, token, linked, phase, intent, sent, proc, crashes, saves>>

-----------------------------------------------------------------------------
\* The next step of a call that has begun.
Step(p) ==
  \/ Enter(p) \/ Identify(p) \/ LockPath(p) \/ Prepare(p)
  \/ Check(p) \/ Replace(p) \/ MarkWritten(p) \/ Commit(p) \/ Finish(p)
  \/ SaveGuard(p) \/ SaveOpen(p) \/ SaveValidate(p) \/ SaveWrite(p)

Call(p) ==
  \/ \E d \in Draft : \/ SaveRead(p, d)
                      \/ \E o \in Op : Repeat(p, d, o) \/ Build(p, d, o)
  \/ \E m \in Edit : Update(p, m)

Next ==
  \/ \E p \in Process : Step(p) \/ Call(p) \/ Recover(p) \/ Restart(p) \/ Crash(p)
  \/ \E d \in Draft : \/ \E m \in Edit : Send(m, d)
                      \/ \E f \in File : Outside(d, f)

Spec == Init /\ [][Next]_vars

\* A call that has begun goes on, a process that died is started again and recovers,
\* and the client of an unresolved operation repeats its request until it is served.
Fairness ==
  /\ \A p \in Process : WF_vars(Step(p)) /\ WF_vars(Recover(p)) /\ WF_vars(Restart(p))
  /\ \A o \in Op : SF_vars(\E p \in Process, d \in Draft : Repeat(p, d, o))
FairSpec == Spec /\ Fairness

-----------------------------------------------------------------------------
(* Properties *)

Value == Op \cup {"absent", "initial", "saved", "outside"}

TypeOK ==
  /\ log \in [Draft -> Seq(Op \cup Edit \cup {"created"})]
  /\ token \in [Draft -> Value]
  /\ file \in [Draft -> [File -> Value]]
  /\ linked \in [Draft -> BOOLEAN]
  /\ phase \in [Draft -> [Op -> {"none", "prepared", "written", "committed"}]]
  /\ \A d \in Draft, o \in Op :
       IF phase[d][o] = "none" THEN intent[d][o] = NONE ELSE intent[d][o] \in Content
  /\ sent \in [Edit -> [draft : Draft, expected : Nat] \cup {NONE}]
  /\ \A p \in Process :
       /\ proc[p].held \subseteq File /\ proc[p].left \subseteq File
       /\ proc[p].todo \subseteq Draft \X Op
       /\ proc[p].at \in Acting \cup {"enter"} =>
            proc[p].op \in Op /\ proc[p].draft \in Draft /\ proc[p].content \in Content
       /\ proc[p].at \in Saving \cup {"guard"} => proc[p].draft \in Draft
  /\ edited \subseteq Touchable
  /\ crashes \in 0..MaxCrashes /\ saves \in 0..MaxSaves

\* Whatever processes retry it at once, an operation belongs to one draft: continue and
\* fork draw a new draft at each call, and only one of them may keep it.
OneDraftPerOperation ==
  \A o \in Op : \A d, e \in Draft :
    phase[d][o] # "none" /\ phase[e][o] # "none" => d = e

\* An operation that is not resolved is the only one of its draft and can still be: the
\* draft is at the revision it expects, or its receipt is the newest, so that no number
\* of later changes can have dropped it.
PendingIsCurrent ==
  \A d \in Draft, o \in Op : Unresolved(d, o) =>
    /\ ~PendingBut(d, o)
    /\ IF o \in Mutations(d) THEN log[d][Len(log[d])] = o
       ELSE Len(log[d]) = intent[d][o].expected

\* No save, and no operation, is applied twice, even when its receipt is gone: neither
\* a repeated request nor a recovery after a crash repeats it.
AppliedOnce ==
  \A d \in Draft : \A i, j \in DOMAIN log[d] : log[d][i] = log[d][j] => i = j

\* The record and the files change together: unless an operation is unresolved, the
\* run of a draft names it and its artifact is the one the draft's record means, or was
\* changed without the program.
RecordMatchesFiles ==
  \A d \in Draft : Exists(d) /\ ~Pending(d) =>
    /\ linked[d]
    /\ <<d, "artifact">> \notin edited => file[d]["artifact"] = token[d]

\* An operation never overwrites what the program wrote after the operation was built:
\* it replaces what it read, or what somebody changed without a lock.
NoUnseenOverwrite ==
  [][\A p \in Process : proc[p].at = "replace" /\ proc'[p].at = "check" =>
       \A f \in File : LET d == proc[p].draft IN
         file'[d][f] # file[d][f] => file[d][f] \in {proc[p].content.base[f], "outside"}]_vars

\* The detailed journal keeps the store's promise.
Promised(d, o) == Unresolved(d, o) /\ o \notin Mutations(d)
Promise(d) ==
  IF \E o \in Op : Promised(d, o) THEN CHOOSE o \in Op : Promised(d, o) ELSE NONE
\* An output of a promised operation does not count before the operation has happened.
Visible(d) ==
  [f \in File |->
     IF Promise(d) # NONE /\ file[d][f] = Promise(d)
     THEN intent[d][Promise(d)].base[f] ELSE file[d][f]]
Store == INSTANCE DraftStore WITH
  history <- log,
  files <- [d \in Draft |-> Visible(d)],
  promise <- [d \in Draft |-> Promise(d)]
ImplementsStore == Store!Spec

\* While processes are restarted and clients repeat their requests, an operation that
\* was prepared is committed, unless one of its files is not what it was built from.
Overtaken(d, o) ==
  IF phase[d][o] = "none" THEN FALSE
  ELSE ~(SourcesUnchanged(d, intent[d][o]) /\ OutputsExpected(d, o, intent[d][o]))
OperationsSettle ==
  \A o \in Op :
    (\E d \in Draft : Unresolved(d, o)) ~>
      (\E d \in Draft : phase[d][o] = "committed" \/ Overtaken(d, o))
=============================================================================
