------------------------- MODULE DraftJournalProofs -------------------------
(***************************************************************************)
(* Proofs about DraftJournal: what the runs check of its safety, for any   *)
(* number of processes, drafts, operations, saves and crashes, and that it *)
(* implements DraftStore.                                                  *)
(*                                                                         *)
(* The argument: three locks (Exclusive) decide who may write what.  The   *)
(* holder of an operation's identity alone prepares it; the holder of a    *)
(* draft alone moves its revision, so that what Enter checked of the       *)
(* record stays true until Commit (Acts); whoever is between LockPath and  *)
(* Commit holds both paths, so that no guarded save of the manifest is     *)
(* between its own check and its write (Writes).  What a crash leaves on   *)
(* disk is enough for the next process (Journalled, Matched).              *)
(***************************************************************************)
EXTENDS DraftJournal, TLAPS

At == Acting \cup Saving \cup {"idle", "enter", "guard", "down"}

\* What a process is doing, and what it has when it is doing it.
ProcState ==
  [at : At, op : Op \cup {NONE}, draft : Draft \cup {NONE}, content : Content \cup {NONE},
   held : SUBSET File, left : SUBSET File, assoc : BOOLEAN, carries : BOOLEAN,
   todo : SUBSET (Draft \X Op)]
Bound(r) ==
  /\ r.at \in Acting \cup {"enter"} => r.op \in Op /\ r.draft \in Draft /\ r.content \in Content
  /\ r.at \in Saving \cup {"guard"} => r.draft \in Draft

Disk ==
  /\ log \in [Draft -> Seq(Op \cup Edit \cup {"created"})]
  /\ token \in [Draft -> Value]
  /\ file \in [Draft -> [File -> Value]]
  /\ linked \in [Draft -> BOOLEAN]
  /\ phase \in [Draft -> [Op -> {"none", "prepared", "written", "committed"}]]
Intents ==
  /\ intent \in [Draft -> [Op -> Content \cup {NONE}]]
  /\ \A d \in Draft, o \in Op :
       IF phase[d][o] = "none" THEN intent[d][o] = NONE ELSE intent[d][o] \in Content
Others ==
  /\ sent \in [Edit -> [draft : Draft, expected : Nat] \cup {NONE}]
  /\ edited \subseteq Touchable
  /\ crashes \in 0..MaxCrashes /\ saves \in 0..MaxSaves
Procs ==
  /\ proc \in [Process -> ProcState]
  /\ \A p \in Process : Bound(proc[p])

Types == Disk /\ Intents /\ Others /\ Procs

\* A lock has one holder.
Exclusive ==
  /\ \A p, q \in Process, d \in Draft : HoldsDraft(p, d) /\ HoldsDraft(q, d) => p = q
  /\ \A p, q \in Process, o \in Op : HoldsIdentity(p, o) /\ HoldsIdentity(q, o) => p = q
  /\ \A p, q \in Process :
       proc[p].draft = proc[q].draft /\ proc[p].held \cap proc[q].held # {} => p = q

-----------------------------------------------------------------------------
(* What a process knows *)

Writing == {"check", "replace", "mark", "commit"}

\* The content was built at this revision or an earlier one, and an operation that
\* leaves the artifact alone was built on the artifact the record named then.
Known(d, content) ==
  /\ content.expected <= Len(log[d])
  /\ content.command = "complete" /\ content.expected = Len(log[d])
       => content.base["artifact"] = token[d]

\* The operation a process executes, once its draft is locked.
Acts(p) == LET d == proc[p].draft  o == proc[p].op  content == proc[p].content IN
  /\ ~PendingBut(d, o)
  /\ phase[d][o] # "committed"
  /\ phase[d][o] # "none" => intent[d][o] = content
  /\ o \notin Mutations(d) => content.expected = Len(log[d])
  /\ proc[p].at \in Identified => \A e \in Draft \ {d} : phase[e][o] = "none"
  /\ proc[p].at \in Identified => (o \in Mutations(d) <=> proc[p].at = "finish")
  /\ proc[p].at \in Writing \cup {"finish"} => phase[d][o] # "none"
  /\ proc[p].at \in {"prepare", "check", "replace"} => proc[p].left \subseteq Outputs(content)
  /\ proc[p].at = "replace" =>
       \A f \in proc[p].left : file[d][f] \in {content.base[f], "outside"}

Holds(p) ==
  /\ proc[p].at \in {"idle", "down", "enter", "identity", "guard", "open"} => proc[p].held = {}
  /\ proc[p].at = "locking" => proc[p].held \subseteq {"artifact"}
  /\ proc[p].at \in Writing \cup {"prepare"} => proc[p].held = File
  /\ proc[p].at \in {"validate", "write"} => proc[p].held = {"manifest"}

\* A guarded save between its last check and its write.
Writes(p) == LET d == proc[p].draft IN
  /\ ~Pending(d)
  /\ linked[d] = proc[p].assoc
  /\ linked[d] => proc[p].carries

Fits(p) ==
  /\ proc[p].at \in Acting \cup {"enter"} => Known(proc[p].draft, proc[p].content)
  /\ proc[p].at \in Acting => Acts(p)
  /\ Holds(p)
  /\ proc[p].at = "write" => Writes(p)
Processes == \A p \in Process : Fits(p)

-----------------------------------------------------------------------------
(* What is on disk *)

\* Whatever a draft's history or files say of an operation, its journal is there, and
\* holds what Known says.
Journalled ==
  /\ \A d \in Draft, o \in Op : o \in Mutations(d) => phase[d][o] # "none"
  /\ \A d \in Draft, f \in File : file[d][f] \in Op => phase[d][file[d][f]] # "none"
  /\ \A d \in Draft, o \in Op : phase[d][o] # "none" => Known(d, intent[d][o])

\* A save is in the history at the place it was made for.
Placed ==
  /\ \A d \in Draft, m \in Edit : \A i \in DOMAIN log[d] :
       log[d][i] = m => sent[m] # NONE /\ sent[m].draft = d /\ i = sent[m].expected + 1
  /\ \A m \in Edit : sent[m] # NONE => Exists(sent[m].draft)

\* Record and files agree from the moment an operation is in the record, before its
\* journal says that it is committed.
Matched == \A d \in Draft :
  /\ file[d]["manifest"] \in Op => linked[d]
  /\ Exists(d) /\ (\A o \in Op : ~Promised(d, o)) =>
       /\ linked[d]
       /\ <<d, "artifact">> \notin edited => file[d]["artifact"] = token[d]

JournalInv ==
  /\ Types /\ Exclusive /\ Processes
  /\ OneDraftPerOperation /\ PendingIsCurrent /\ AppliedOnce
  /\ Journalled /\ Placed /\ Matched

-----------------------------------------------------------------------------
(* Types *)

LEMMA TypesAreOK == Types => TypeOK
<1> SUFFICES ASSUME Types PROVE TypeOK
  OBVIOUS
<1>1. ASSUME NEW p \in Process
      PROVE  /\ proc[p].held \subseteq File /\ proc[p].left \subseteq File
             /\ proc[p].todo \subseteq Draft \X Op
             /\ Bound(proc[p])
  BY DEF Types, Procs, ProcState
<1> QED BY <1>1 DEF Types, Disk, Intents, Others, Bound, TypeOK

\* What a running operation works on.
LEMMA Working ==
  ASSUME Types, NEW p \in Process, proc[p].at \in Acting \cup {"enter"}
  PROVE  /\ proc[p].op \in Op /\ proc[p].draft \in Draft /\ proc[p].content \in Content
         /\ proc[p].content.expected \in Nat
         /\ proc[p].content.command \in Command
         /\ proc[p].content.base \in [File -> Op \cup {"absent", "initial", "saved", "outside"}]
<1>1. proc[p].op \in Op /\ proc[p].draft \in Draft /\ proc[p].content \in Content
  BY DEF Types, Procs, Bound
<1> QED BY <1>1 DEF Content

LEMMA InitTypes == Init => Types
<1> SUFFICES ASSUME Init PROVE Types
  OBVIOUS
<1>1. <<>> \in Seq(Op \cup Edit \cup {"created"}) /\ <<"created">> \in Seq(Op \cup Edit \cup {"created"})
  OBVIOUS
<1>2. Disk
  <2>1. log \in [Draft -> Seq(Op \cup Edit \cup {"created"})]
    BY <1>1 DEF Init
  <2>2. token \in [Draft -> Value] /\ file \in [Draft -> [File -> Value]]
    BY DEF Init, Value
  <2>3. linked \in [Draft -> BOOLEAN]
    BY DEF Init
  <2>4. phase \in [Draft -> [Op -> {"none", "prepared", "written", "committed"}]]
    BY DEF Init
  <2> QED BY <2>1, <2>2, <2>3, <2>4 DEF Disk
<1>3. Intents
  BY DEF Init, Intents
<1>4. Others
  BY JournalAssumption DEF Init, Others
<1>5. Idle \in ProcState /\ Bound(Idle)
  BY DEF Idle, ProcState, Bound, At, Acting, Saving
<1>6. Procs
  BY <1>5 DEF Init, Procs
<1> QED BY <1>2, <1>3, <1>4, <1>6 DEF Types

\* One process moves on.
LEMMA Moves ==
  ASSUME Procs, NEW p \in Process, NEW r \in ProcState, Bound(r),
         proc' = [proc EXCEPT ![p] = r]
  PROVE  Procs' /\ proc'[p] = r /\ \A q \in Process \ {p} : proc'[q] = proc[q]
BY DEF Procs, Bound

LEMMA Leaves ==
  ASSUME Procs, NEW p \in Process, Leave(p)
  PROVE  Procs' /\ proc'[p] = [Idle EXCEPT !.todo = proc[p].todo]
         /\ \A q \in Process \ {p} : proc'[q] = proc[q]
<1>1. proc[p].todo \subseteq Draft \X Op
  BY DEF Procs, ProcState
<1>2. [Idle EXCEPT !.todo = proc[p].todo] \in ProcState /\ Bound([Idle EXCEPT !.todo = proc[p].todo])
  BY <1>1 DEF Idle, ProcState, Bound, At, Acting, Saving
<1> QED BY <1>2, Moves DEF Leave

LEMMA Goes ==
  ASSUME Procs, NEW p \in Process, NEW where \in At, Goto(p, where),
         Bound([proc[p] EXCEPT !.at = where])
  PROVE  Procs' /\ proc'[p] = [proc[p] EXCEPT !.at = where]
         /\ \A q \in Process \ {p} : proc'[q] = proc[q]
<1>1. [proc[p] EXCEPT !.at = where] \in ProcState
  BY DEF Procs, ProcState
<1>2. proc' = [proc EXCEPT ![p] = [proc[p] EXCEPT !.at = where]]
  BY DEF Goto
<1> QED BY <1>1, <1>2, Moves

-----------------------------------------------------------------------------
(* What steps leave alone *)

OthersStay(p) == \A q \in Process \ {p} : proc'[q] = proc[q]
DraftSame(d) ==
  /\ log'[d] = log[d] /\ token'[d] = token[d] /\ file'[d] = file[d] /\ linked'[d] = linked[d]
  /\ phase'[d] = phase[d] /\ intent'[d] = intent[d]

\* A step that changes nothing but what one process does.
Private == UNCHANGED <<log, token, file, linked, phase, intent, sent, edited>>

LEMMA OneLocation ==
  ASSUME Exclusive, Procs, Procs', NEW p \in Process, OthersStay(p),
         \A d \in Draft : HoldsDraft(p, d)' => HoldsDraft(p, d) \/ DraftFree(d),
         \A o \in Op : HoldsIdentity(p, o)' => HoldsIdentity(p, o) \/ IdentityFree(o),
         \A f \in proc'[p].held :
           \/ f \in proc[p].held /\ proc'[p].draft = proc[p].draft
           \/ PathFree(proc'[p].draft, f)
  PROVE  Exclusive'
<1>1. ASSUME NEW q \in Process, NEW r \in Process, NEW d \in Draft,
             HoldsDraft(q, d)', HoldsDraft(r, d)'
      PROVE  q = r
  <2>1. \A s \in Process \ {p} : HoldsDraft(s, d)' <=> HoldsDraft(s, d)
    BY DEF OthersStay, HoldsDraft
  <2> QED BY <1>1, <2>1 DEF Exclusive, DraftFree
<1>2. ASSUME NEW q \in Process, NEW r \in Process, NEW o \in Op,
             HoldsIdentity(q, o)', HoldsIdentity(r, o)'
      PROVE  q = r
  <2>1. \A s \in Process \ {p} : HoldsIdentity(s, o)' <=> HoldsIdentity(s, o)
    BY DEF OthersStay, HoldsIdentity
  <2> QED BY <1>2, <2>1 DEF Exclusive, IdentityFree
<1>3. ASSUME NEW q \in Process, NEW r \in Process,
             proc'[q].draft = proc'[r].draft, proc'[q].held \cap proc'[r].held # {}, q # r
      PROVE  FALSE
  <2>1. PICK f : f \in proc'[q].held /\ f \in proc'[r].held
    BY <1>3
  <2>2. ASSUME NEW s \in Process, s # p, proc'[s].draft = proc'[p].draft,
               f \in proc'[s].held, f \in proc'[p].held
        PROVE  FALSE
    <3>1. proc[s].draft = proc'[p].draft /\ f \in proc[s].held
      BY <2>2 DEF OthersStay
    <3>2. ~PathFree(proc'[p].draft, f)
      BY <3>1 DEF PathFree
    <3>3. f \in proc[p].held /\ proc'[p].draft = proc[p].draft
      BY <2>2, <3>2
    <3> QED BY <2>2, <3>1, <3>3 DEF Exclusive
  <2>3. CASE q # p /\ r # p
    BY <1>3, <2>1, <2>3 DEF OthersStay, Exclusive
  <2> QED BY <1>3, <2>1, <2>2, <2>3
<1> QED BY <1>1, <1>2, <1>3 DEF Exclusive

LEMMA SameDraft ==
  ASSUME NEW d \in Draft, DraftSame(d)
  PROVE  /\ Mutations(d)' = Mutations(d) /\ Receipts(d)' = Receipts(d)
         /\ Exists(d)' <=> Exists(d)
         /\ \A o \in Op : Unresolved(d, o)' <=> Unresolved(d, o)
         /\ \A o \in Op : Promised(d, o)' <=> Promised(d, o)
         /\ \A o : PendingBut(d, o)' <=> PendingBut(d, o)
         /\ Pending(d)' <=> Pending(d)
         /\ \A content : Known(d, content)' <=> Known(d, content)
<1>1. Mutations(d)' = Mutations(d) /\ Receipts(d)' = Receipts(d)
  BY DEF DraftSame, Mutations, Receipts
<1>2. \A o \in Op : Unresolved(d, o)' <=> Unresolved(d, o)
  BY DEF DraftSame, Unresolved
<1>3. \A o : PendingBut(d, o)' <=> PendingBut(d, o)
  BY <1>2 DEF PendingBut
<1>4. \A content : Known(d, content)' <=> Known(d, content)
  BY DEF DraftSame, Known
<1> QED BY <1>1, <1>2, <1>3, <1>4 DEF DraftSame, Exists, Promised, Pending

\* Another process, on a draft the step leaves alone.
LEMMA FitStays ==
  ASSUME Types, NEW q \in Process, Fits(q), proc'[q] = proc[q],
         proc[q].draft \in Draft => DraftSame(proc[q].draft),
         proc[q].at \in Identified =>
           \A e \in Draft : phase'[e][proc[q].op] = phase[e][proc[q].op]
  PROVE  Fits(q)'
<1>1. CASE proc[q].at \in Acting \cup {"enter"}
  <2>1. proc[q].draft \in Draft /\ proc[q].op \in Op
    BY <1>1, Working
  <2>2. DraftSame(proc[q].draft)
    BY <2>1
  <2>3. Known(proc[q].draft, proc[q].content)'
    BY <1>1, <2>1, <2>2, SameDraft DEF Fits
  <2>4. proc[q].at \in Acting => Acts(q)'
    BY <2>1, <2>2, SameDraft DEF Fits, Acts, DraftSame, Identified
  <2>5. Holds(q)'
    BY DEF Fits, Holds
  <2> QED BY <1>1, <2>3, <2>4, <2>5 DEF Fits, Acting
<1>2. CASE proc[q].at \notin Acting \cup {"enter"}
  <2>1. proc[q].at = "write" => proc[q].draft \in Draft
    BY DEF Types, Procs, Bound, Saving
  <2>2. Holds(q)'
    BY DEF Fits, Holds
  <2>3. proc[q].at = "write" => Writes(q)'
    BY <2>1, SameDraft DEF Fits, Writes, DraftSame
  <2> QED BY <1>2, <2>2, <2>3 DEF Fits
<1> QED BY <1>1, <1>2

\* The locks a step of p may take: those that are free.
TakesFree(p) ==
  /\ \A d \in Draft : HoldsDraft(p, d)' => HoldsDraft(p, d) \/ DraftFree(d)
  /\ \A o \in Op : HoldsIdentity(p, o)' => HoldsIdentity(p, o) \/ IdentityFree(o)
  /\ \A f \in proc'[p].held :
       \/ f \in proc[p].held /\ proc'[p].draft = proc[p].draft
       \/ PathFree(proc'[p].draft, f)

LEMMA PrivateKeeps ==
  ASSUME JournalInv, Private, NEW p \in Process, OthersStay(p), Procs',
         crashes' \in 0..MaxCrashes, saves' \in 0..MaxSaves, TakesFree(p), Fits(p)'
  PROVE  JournalInv'
<1>1. \A d \in Draft : DraftSame(d)
  BY DEF Private, DraftSame
<1>2. Types'
  BY DEF JournalInv, Types, Disk, Intents, Others, Private
<1>3. Exclusive'
  BY OneLocation DEF JournalInv, Types, TakesFree
<1>4. ASSUME NEW q \in Process, q # p PROVE Fits(q)'
  BY <1>1, <1>4, FitStays DEF JournalInv, Processes, OthersStay, Private
<1>5. Processes'
  BY <1>4 DEF Processes
<1>6. OneDraftPerOperation' /\ AppliedOnce'
  BY DEF JournalInv, OneDraftPerOperation, AppliedOnce, Private
<1>7. PendingIsCurrent'
  BY <1>1, SameDraft DEF JournalInv, PendingIsCurrent, Private
<1>8. Journalled'
  BY <1>1, SameDraft DEF JournalInv, Journalled, Private
<1>9. Placed'
  BY <1>1, SameDraft DEF JournalInv, Placed, Private, Exists
<1>10. Matched'
  BY <1>1, SameDraft DEF JournalInv, Matched, Private
<1> QED BY <1>2, <1>3, <1>5, <1>6, <1>7, <1>8, <1>9, <1>10 DEF JournalInv

LEMMA WithoutLocks ==
  ASSUME NEW p \in Process, proc'[p].at \in {"idle", "down", "enter"}, proc'[p].held = {}
  PROVE  /\ TakesFree(p) /\ Holds(p)'
         /\ proc'[p].at \notin Acting /\ proc'[p].at # "write"
<1>1. proc'[p].at \notin Acting /\ proc'[p].at \notin Saving /\ proc'[p].at \notin Identified
  BY DEF Acting, Saving, Identified
<1>2. proc'[p].at # "write" /\ proc'[p].at \notin Writing \cup {"prepare"}
  BY DEF Writing
<1>3. Holds(p)'
  BY <1>2 DEF Holds
<1>4. TakesFree(p)
  BY <1>1 DEF TakesFree, HoldsDraft, HoldsIdentity
<1> QED BY <1>1, <1>2, <1>3, <1>4

\* A call that ends, whatever it was doing.
LEMMA LeavingKeeps ==
  ASSUME JournalInv, Private, NEW p \in Process, Leave(p), UNCHANGED bounds
  PROVE  JournalInv'
<1>1. Procs' /\ proc'[p] = [Idle EXCEPT !.todo = proc[p].todo] /\ OthersStay(p)
  BY Leaves DEF JournalInv, Types, OthersStay
<1>2. proc'[p].at = "idle" /\ proc'[p].held = {}
  BY <1>1 DEF Idle
<1>3. Fits(p)' /\ TakesFree(p)
  BY <1>2, WithoutLocks DEF Fits
<1> QED BY <1>1, <1>3, PrivateKeeps DEF JournalInv, Types, Others, bounds

-----------------------------------------------------------------------------
(* Calls, recovery and death *)

LEMMA CrashKeeps == JournalInv /\ (\E p \in Process : Crash(p)) => JournalInv'
<1> SUFFICES ASSUME JournalInv, NEW p \in Process, Crash(p) PROVE JournalInv'
  OBVIOUS
<1>1. [Idle EXCEPT !.at = "down"] \in ProcState /\ Bound([Idle EXCEPT !.at = "down"])
  BY DEF Idle, ProcState, Bound, At, Acting, Saving
<1>2. Procs' /\ proc'[p] = [Idle EXCEPT !.at = "down"] /\ OthersStay(p)
  BY <1>1, Moves DEF JournalInv, Types, Crash, OthersStay
<1>3. proc'[p].at = "down" /\ proc'[p].held = {}
  BY <1>2 DEF Idle
<1>4. Fits(p)' /\ TakesFree(p)
  BY <1>3, WithoutLocks DEF Fits
<1>5. crashes' \in 0..MaxCrashes /\ saves' \in 0..MaxSaves
  BY JournalAssumption DEF JournalInv, Types, Others, Crash
<1>6. Private
  BY DEF Crash, Private, disk
<1> QED BY <1>2, <1>4, <1>5, <1>6, PrivateKeeps

LEMMA RestartKeeps == JournalInv /\ (\E p \in Process : Restart(p)) => JournalInv'
<1> SUFFICES ASSUME JournalInv, NEW p \in Process, Restart(p) PROVE JournalInv'
  OBVIOUS
<1> DEFINE list == {j \in Draft \X Op : Unresolved(j[1], j[2])}
           new == [Idle EXCEPT !.todo = list]
<1>1. new \in ProcState /\ Bound(new)
  BY DEF Idle, ProcState, Bound, At, Acting, Saving
<1>2. proc' = [proc EXCEPT ![p] = new]
  BY DEF Restart
<1>3. new.at = "idle" /\ new.held = {}
  BY DEF Idle
<1> HIDE DEF new
<1>4. Procs' /\ proc'[p] = new /\ OthersStay(p)
  BY <1>1, <1>2, Moves DEF JournalInv, Types, OthersStay
<1>5. Fits(p)' /\ TakesFree(p)
  BY <1>3, <1>4, WithoutLocks DEF Fits
<1>6. Private /\ UNCHANGED bounds
  BY DEF Restart, Private, disk
<1> QED BY <1>4, <1>5, <1>6, PrivateKeeps DEF JournalInv, Types, Others, bounds

\* A process begins to execute an operation.
LEMMA EnteringKeeps ==
  ASSUME JournalInv, Private, UNCHANGED bounds, NEW p \in Process, proc[p].at = "idle",
         NEW d \in Draft, NEW o \in Op, NEW content \in Content, Known(d, content),
         OthersStay(p), proc \in [Process -> ProcState], proc' \in [Process -> ProcState],
         proc'[p].at = "enter", proc'[p].op = o, proc'[p].draft = d,
         proc'[p].content = content, proc'[p].held = proc[p].held
  PROVE  JournalInv'
<1>1. Procs'
  BY DEF JournalInv, Types, Procs, OthersStay, Bound, Acting, Saving
<1>2. proc'[p].held = {}
  BY DEF JournalInv, Processes, Fits, Holds
<1>3. DraftSame(d)
  BY DEF Private, DraftSame
<1>4. Known(d, content)'
  BY <1>3, SameDraft
<1>5. Fits(p)' /\ TakesFree(p)
  BY <1>2, <1>4, WithoutLocks DEF Fits
<1> QED BY <1>1, <1>5, PrivateKeeps DEF JournalInv, Types, Others, bounds

\* The fields Execute sets, in the process it runs in.
LEMMA Executes ==
  ASSUME proc \in [Process -> ProcState], NEW p \in Process, NEW d \in Draft, NEW o \in Op,
         NEW content \in Content, Execute(p, d, o, content)
  PROVE  /\ OthersStay(p) /\ proc' \in [Process -> ProcState]
         /\ proc'[p].at = "enter" /\ proc'[p].op = o /\ proc'[p].draft = d
         /\ proc'[p].content = content /\ proc'[p].held = proc[p].held
<1> DEFINE new == [proc[p] EXCEPT !.at = "enter", !.op = o, !.draft = d, !.content = content]
<1>1. proc' = [proc EXCEPT ![p] = new]
  BY DEF Execute
<1>2. new \in ProcState
  BY DEF ProcState, At
<1>3. new.at = "enter" /\ new.op = o /\ new.draft = d /\ new.content = content /\ new.held = proc[p].held
  BY DEF ProcState
<1> QED BY <1>1, <1>2, <1>3 DEF OthersStay

LEMMA RepeatKeeps ==
  JournalInv /\ (\E p \in Process, d \in Draft, o \in Op : Repeat(p, d, o)) => JournalInv'
<1> SUFFICES ASSUME JournalInv, NEW p \in Process, NEW d \in Draft, NEW o \in Op, Repeat(p, d, o)
             PROVE  JournalInv'
  OBVIOUS
<1>1. intent[d][o] \in Content /\ Known(d, intent[d][o])
  BY DEF JournalInv, Types, Intents, Journalled, Repeat, Unresolved
<1>2. Private /\ UNCHANGED bounds /\ proc[p].at = "idle"
  BY DEF Repeat, Private, disk, Free
<1> QED BY <1>1, <1>2, Executes, EnteringKeeps DEF Repeat, JournalInv, Types, Procs

LEMMA BuildKeeps ==
  JournalInv /\ (\E p \in Process, d \in Draft, o \in Op : Build(p, d, o)) => JournalInv'
<1> SUFFICES ASSUME JournalInv, NEW p \in Process, NEW d \in Draft, NEW o \in Op, Build(p, d, o)
             PROVE  JournalInv'
  OBVIOUS
<1>1. PICK command \in Command :
        /\ MayBuild(command, d, o)
        /\ Execute(p, d, o, [command |-> command, expected |-> Len(log[d]), base |-> file[d]])
  BY DEF Build
<1> DEFINE content == [command |-> command, expected |-> Len(log[d]), base |-> file[d]]
<1>2. log[d] \in Seq(Op \cup Edit \cup {"created"}) /\ file[d] \in [File -> Value]
  BY DEF JournalInv, Types, Disk
<1>3. content \in Content
  BY <1>2 DEF Content, Value
<1>4. command = "complete" => file[d]["artifact"] = token[d]
  BY <1>1 DEF MayBuild, Trusted
<1>5. Known(d, content)
  BY <1>2, <1>4 DEF Known
<1>6. Private /\ UNCHANGED bounds /\ proc[p].at = "idle" /\ Execute(p, d, o, content)
  BY <1>1 DEF Build, Private, disk, Free
<1> HIDE DEF content
<1> QED BY <1>3, <1>5, <1>6, Executes, EnteringKeeps DEF JournalInv, Types, Procs

LEMMA RecoverKeeps == JournalInv /\ (\E p \in Process : Recover(p)) => JournalInv'
<1> SUFFICES ASSUME JournalInv, NEW p \in Process, Recover(p) PROVE JournalInv'
  OBVIOUS
<1> DEFINE rest(j) == [proc[p] EXCEPT !.todo = @ \ {j}]
           new(j) == [rest(j) EXCEPT !.at = "enter", !.draft = j[1], !.op = j[2],
                                     !.content = intent[j[1]][j[2]]]
<1>1. proc \in [Process -> ProcState] /\ proc[p] \in ProcState
  BY DEF JournalInv, Types, Procs
<1>2. PICK j \in proc[p].todo :
        proc' = [proc EXCEPT ![p] = IF Unresolved(j[1], j[2]) THEN new(j) ELSE rest(j)]
  BY <1>1 DEF Recover
<1>3. j \in Draft \X Op /\ j[1] \in Draft /\ j[2] \in Op
  BY <1>1 DEF ProcState
<1>4. rest(j) \in ProcState /\ rest(j).at = "idle" /\ rest(j).held = proc[p].held
  BY <1>1 DEF Recover, ProcState
<1>5. Private /\ UNCHANGED bounds /\ proc[p].at = "idle"
  BY DEF Recover, Private, disk
<1>6. CASE ~Unresolved(j[1], j[2])
  <2>1. Bound(rest(j))
    BY <1>4 DEF Bound, Acting, Saving
  <2>2. Procs' /\ proc'[p] = rest(j) /\ OthersStay(p)
    BY <1>2, <1>4, <1>6, <2>1, Moves DEF JournalInv, Types, OthersStay
  <2>3. proc'[p].at = "idle" /\ proc'[p].held = {}
    BY <1>4, <1>5, <2>2 DEF JournalInv, Processes, Fits, Holds
  <2>4. Fits(p)' /\ TakesFree(p)
    BY <2>3, WithoutLocks DEF Fits
  <2> QED BY <1>5, <2>2, <2>4, PrivateKeeps DEF JournalInv, Types, Others, bounds
<1>7. CASE Unresolved(j[1], j[2])
  <2>1. intent[j[1]][j[2]] \in Content /\ Known(j[1], intent[j[1]][j[2]])
    BY <1>3, <1>7 DEF JournalInv, Types, Intents, Journalled, Unresolved
  <2>2. new(j) \in ProcState
    BY <1>3, <1>4, <2>1 DEF ProcState, At
  <2>3. /\ new(j).at = "enter" /\ new(j).draft = j[1] /\ new(j).op = j[2]
        /\ new(j).content = intent[j[1]][j[2]] /\ new(j).held = proc[p].held
        /\ new(j).todo \in SUBSET (Draft \X Op)
    BY <1>1, <1>3, <1>4, <2>1 DEF ProcState
  <2> HIDE DEF new
  <2>4. proc' \in [Process -> ProcState] /\ proc'[p] = new(j) /\ OthersStay(p)
    BY <1>1, <1>2, <1>7, <2>2 DEF OthersStay
  <2> QED BY <1>1, <1>3, <1>5, <2>1, <2>3, <2>4, EnteringKeeps
<1> QED BY <1>6, <1>7

LEMMA SaveReadKeeps ==
  JournalInv /\ (\E p \in Process, d \in Draft : SaveRead(p, d)) => JournalInv'
<1> SUFFICES ASSUME JournalInv, NEW p \in Process, NEW d \in Draft, SaveRead(p, d)
             PROVE  JournalInv'
  OBVIOUS
<1> DEFINE new == [proc[p] EXCEPT !.at = "guard", !.draft = d, !.carries = linked[d]]
<1>1. proc \in [Process -> ProcState] /\ proc[p] \in ProcState /\ linked[d] \in BOOLEAN
  BY DEF JournalInv, Types, Procs, Disk
<1>2. proc' = [proc EXCEPT ![p] = new] /\ proc[p].at = "idle"
  BY DEF SaveRead, Free
<1>3. new \in ProcState /\ new.at = "guard" /\ new.draft = d /\ new.held = proc[p].held
  BY <1>1 DEF ProcState, At
<1>4. Bound(new)
  BY <1>3 DEF Bound, Acting
<1> HIDE DEF new
<1>5. Procs' /\ proc'[p] = new /\ OthersStay(p)
  BY <1>2, <1>3, <1>4, Moves DEF JournalInv, Types, OthersStay
<1>6. proc'[p].at = "guard" /\ proc'[p].held = {}
  BY <1>2, <1>3, <1>5 DEF JournalInv, Processes, Fits, Holds
<1>7. Fits(p)'
  BY <1>6 DEF Fits, Holds, Acting, Writing
<1>8. TakesFree(p)
  BY <1>6 DEF TakesFree, HoldsDraft, HoldsIdentity, Acting, Saving, Identified
<1>9. Private /\ crashes' \in 0..MaxCrashes /\ saves' \in 0..MaxSaves
  BY JournalAssumption DEF SaveRead, Private, disk, JournalInv, Types, Others
<1> QED BY <1>5, <1>7, <1>8, <1>9, PrivateKeeps

-----------------------------------------------------------------------------
(* Locking and checking *)

LEMMA Applied ==
  ASSUME JournalInv, NEW d \in Draft, NEW o \in Op
  PROVE  /\ o \in Receipts(d) => o \in Mutations(d)
         /\ o \in Mutations(d) => phase[d][o] # "none"
         /\ o \in Mutations(d) /\ phase[d][o] # "committed" => o \in Receipts(d)
<1>1. log[d] \in Seq(Op \cup Edit \cup {"created"})
  BY DEF JournalInv, Types, Disk
<1>2. o \in Receipts(d) => o \in Mutations(d)
  BY DEF Receipts, Mutations
<1>3. o \in Mutations(d) => phase[d][o] # "none"
  BY DEF JournalInv, Journalled
<1>4. ASSUME o \in Mutations(d), phase[d][o] # "committed" PROVE o \in Receipts(d)
  <2>1. phase[d][o] \in {"none", "prepared", "written", "committed"}
    BY DEF JournalInv, Types, Disk
  <2>2. Unresolved(d, o)
    BY <1>3, <1>4, <2>1 DEF Unresolved
  <2>3. log[d][Len(log[d])] = o
    BY <1>4, <2>2 DEF JournalInv, PendingIsCurrent
  <2>4. Len(log[d]) \in DOMAIN log[d]
    BY <1>1, <1>4 DEF Mutations
  <2>5. Len(log[d]) + MaxReceipts > Len(log[d])
    BY <1>1, JournalAssumption
  <2> QED BY <2>3, <2>4, <2>5 DEF Receipts
<1> QED BY <1>2, <1>3, <1>4

\* The fields of a process that only goes elsewhere.
SameBut(p) ==
  /\ proc'[p].op = proc[p].op /\ proc'[p].draft = proc[p].draft
  /\ proc'[p].content = proc[p].content
  /\ proc'[p].assoc = proc[p].assoc /\ proc'[p].carries = proc[p].carries

LEMMA GoesOn ==
  ASSUME JournalInv, NEW p \in Process, NEW where \in At, Goto(p, where),
         where \in Acting => proc[p].at \in Acting \cup {"enter"},
         where \in Saving => proc[p].at \in Saving,
         where \notin {"enter", "guard"}
  PROVE  /\ Procs' /\ OthersStay(p) /\ SameBut(p)
         /\ proc'[p].at = where /\ proc'[p].held = proc[p].held /\ proc'[p].left = proc[p].left
<1> DEFINE new == [proc[p] EXCEPT !.at = where]
<1>1. proc \in [Process -> ProcState] /\ proc[p] \in ProcState /\ Bound(proc[p])
  BY DEF JournalInv, Types, Procs
<1>2. /\ new.op = proc[p].op /\ new.draft = proc[p].draft /\ new.content = proc[p].content
      /\ new.assoc = proc[p].assoc /\ new.carries = proc[p].carries
      /\ new.at = where /\ new.held = proc[p].held /\ new.left = proc[p].left
  BY <1>1 DEF ProcState
<1>3. Bound(new)
  BY <1>1, <1>2 DEF Bound
<1> HIDE DEF new
<1>4. proc'[p] = new /\ Procs' /\ OthersStay(p)
  BY <1>3, Goes DEF JournalInv, Types, new, OthersStay
<1> QED BY <1>2, <1>4 DEF SameBut

LEMMA PrivateSame == Private => \A d \in Draft : DraftSame(d)
BY DEF Private, DraftSame

LEMMA EnterKeeps == JournalInv /\ (\E p \in Process : Enter(p)) => JournalInv'
<1> SUFFICES ASSUME JournalInv, NEW p \in Process, Enter(p) PROVE JournalInv'
  OBVIOUS
<1>1. Private /\ UNCHANGED bounds /\ proc[p].at = "enter"
  BY DEF Enter, Private, disk
<1>2. CASE ~MayEnter(p)
  BY <1>1, <1>2, LeavingKeeps DEF Enter
<1>3. CASE MayEnter(p)
  <2> DEFINE d == proc[p].draft  o == proc[p].op
  <2>1. Goto(p, "identity")
    BY <1>3 DEF Enter
  <2>2. /\ Procs' /\ OthersStay(p) /\ SameBut(p)
        /\ proc'[p].at = "identity" /\ proc'[p].held = proc[p].held
    BY <1>1, <2>1, GoesOn DEF At, Acting, Saving
  <2>3. d \in Draft /\ o \in Op
    BY <1>1, Working DEF JournalInv
  <2>4. /\ Known(d, proc[p].content) /\ proc[p].held = {}
    BY <1>1 DEF JournalInv, Processes, Fits, Holds
  <2>5. /\ ~PendingBut(d, o) /\ phase[d][o] # "committed"
        /\ phase[d][o] # "none" => intent[d][o] = proc[p].content
        /\ o \notin Mutations(d) => proc[p].content.expected = Len(log[d])
        /\ DraftFree(d)
    BY <1>3, <2>3, Applied
    DEF MayEnter, Conflicts, NothingPending, Acknowledged, Current
  <2>6. DraftSame(d)
    BY <1>1, <2>3, PrivateSame
  <2>7. Acts(p)'
    BY <2>2, <2>3, <2>5, <2>6, SameDraft
    DEF Acts, SameBut, DraftSame, Identified, Acting, Writing
  <2>8. Known(proc[p].draft, proc[p].content)'
    BY <2>2, <2>3, <2>4, <2>6, SameDraft DEF SameBut
  <2>9. Fits(p)'
    BY <2>2, <2>4, <2>7, <2>8 DEF Fits, Holds, Writing
  <2>10. TakesFree(p)
    BY <2>2, <2>4, <2>5 DEF TakesFree, HoldsDraft, HoldsIdentity, SameBut, Identified, Saving
  <2> QED BY <1>1, <2>2, <2>9, <2>10, PrivateKeeps DEF JournalInv, Types, Others, bounds
<1> QED BY <1>2, <1>3

LEMMA IdentifyKeeps == JournalInv /\ (\E p \in Process : Identify(p)) => JournalInv'
<1> SUFFICES ASSUME JournalInv, NEW p \in Process, Identify(p) PROVE JournalInv'
  OBVIOUS
<1> DEFINE d == proc[p].draft  o == proc[p].op
<1>1. Private /\ UNCHANGED bounds /\ proc[p].at = "identity" /\ proc[p].at \in Acting
  BY DEF Identify, Private, disk, Acting
<1>2. CASE ~IdentityFree(o) \/ Conflicts(p) \/ phase[d][o] = "committed"
  BY <1>1, <1>2, LeavingKeeps DEF Identify
<1>3. CASE ~(~IdentityFree(o) \/ Conflicts(p) \/ phase[d][o] = "committed")
  <2> DEFINE where == IF Acknowledged(p) THEN "finish" ELSE "locking"
  <2>1. Goto(p, where)
    BY <1>3 DEF Identify
  <2>2. where \in At /\ where \in Identified /\ where \notin Saving /\ where \notin {"enter", "guard"}
    BY DEF At, Acting, Identified, Saving
  <2>3. /\ Procs' /\ OthersStay(p) /\ SameBut(p)
        /\ proc'[p].at = where /\ proc'[p].held = proc[p].held
    BY <1>1, <2>1, <2>2, GoesOn
  <2>4. d \in Draft /\ o \in Op
    BY <1>1, Working DEF JournalInv
  <2>5. Known(d, proc[p].content) /\ proc[p].held = {} /\ Acts(p)
    BY <1>1 DEF JournalInv, Processes, Fits, Holds
  <2>6. /\ \A e \in Draft \ {d} : phase[e][o] = "none"
        /\ IdentityFree(o)
        /\ Acknowledged(p) <=> o \in Mutations(d)
        /\ o \in Mutations(d) => phase[d][o] # "none"
    BY <1>3, <2>4, Applied DEF Conflicts, Acknowledged
  <2>7. \A e \in Draft : DraftSame(e)
    BY <1>1, PrivateSame
  <2>8. Acts(p)'
    BY <2>3, <2>4, <2>5, <2>6, <2>7, SameDraft
    DEF Acts, SameBut, DraftSame, Writing
  <2>9. Known(proc[p].draft, proc[p].content)'
    BY <2>3, <2>4, <2>5, <2>7, SameDraft DEF SameBut
  <2>10. Fits(p)'
    BY <2>3, <2>5, <2>8, <2>9 DEF Fits, Holds, Writing
  <2>11. TakesFree(p)
    BY <1>1, <2>2, <2>3, <2>5, <2>6 DEF TakesFree, HoldsDraft, HoldsIdentity, SameBut, Saving
  <2> QED BY <1>1, <2>3, <2>10, <2>11, PrivateKeeps DEF JournalInv, Types, Others, bounds
<1> QED BY <1>2, <1>3

LEMMA LockPathKeeps == JournalInv /\ (\E p \in Process : LockPath(p)) => JournalInv'
<1> SUFFICES ASSUME JournalInv, NEW p \in Process, LockPath(p) PROVE JournalInv'
  OBVIOUS
<1> DEFINE d == proc[p].draft  o == proc[p].op
           f == IF proc[p].held = {} THEN "artifact" ELSE "manifest"
           where == IF f = "artifact" THEN "locking"
                    ELSE IF phase[d][o] = "none" THEN "prepare" ELSE "check"
           new == [proc[p] EXCEPT !.held = @ \cup {f}, !.left = Outputs(proc[p].content),
                                  !.at = where]
<1>1. Private /\ UNCHANGED bounds /\ proc[p].at = "locking" /\ proc[p].at \in Acting
  BY DEF LockPath, Private, disk, Acting
<1>2. CASE ~PathFree(d, f)
  BY <1>1, <1>2, LeavingKeeps DEF LockPath
<1>3. CASE PathFree(d, f)
  <2>1. /\ proc \in [Process -> ProcState] /\ proc[p] \in ProcState /\ Bound(proc[p])
        /\ d \in Draft /\ o \in Op /\ proc[p].content \in Content
    BY <1>1, Working DEF JournalInv, Types, Procs
  <2>2. proc' = [proc EXCEPT ![p] = new]
    BY <1>1, <1>3, <2>1 DEF LockPath
  <2>3. /\ where \in {"locking", "prepare", "check"}
        /\ where = "check" => phase[d][o] # "none"
    OBVIOUS
  <2>4. Outputs(proc[p].content) \in SUBSET File /\ f \in File
    BY DEF Outputs, File
  <2>5. /\ new \in ProcState
        /\ new.at = where /\ new.held = proc[p].held \cup {f}
        /\ new.left = Outputs(proc[p].content)
        /\ new.draft = d /\ new.op = o /\ new.content = proc[p].content
    BY <2>1, <2>3, <2>4 DEF ProcState, At, Acting
  <2>6. Bound(new)
    BY <2>1, <2>3, <2>5 DEF Bound, Saving
  <2>7. proc[p].held \subseteq {"artifact"} /\ Known(d, proc[p].content) /\ Acts(p)
    BY <1>1 DEF JournalInv, Processes, Fits, Holds
  <2>8. new.held = IF where = "locking" THEN {"artifact"} ELSE File
    BY <2>5, <2>7 DEF File
  <2> HIDE DEF new, where
  <2>9. Procs' /\ proc'[p] = new /\ OthersStay(p)
    BY <2>2, <2>5, <2>6, Moves DEF JournalInv, Types, OthersStay
  <2>10. DraftSame(d) /\ \A e \in Draft : DraftSame(e)
    BY <1>1, <2>1, PrivateSame
  <2>11. where \in Identified /\ proc[p].at \in Identified /\ where # "replace" /\ where # "finish"
    BY <1>1, <2>3 DEF Identified, Acting
  <2>12. ~PendingBut(d, o)' /\ Mutations(d)' = Mutations(d)
    BY <2>1, <2>5, <2>7, <2>9, <2>10, SameDraft DEF Acts
  <2>13. phase' = phase /\ intent' = intent /\ log' = log
    BY <1>1 DEF Private
  <2>14. Acts(p)'
    BY <1>1, <2>1, <2>3, <2>5, <2>7, <2>9, <2>11, <2>12, <2>13 DEF Acts, Writing
  <2>15. Known(d, proc[p].content)'
    BY <2>1, <2>5, <2>7, <2>9, <2>10, SameDraft
  <2>16. Fits(p)'
    BY <2>3, <2>5, <2>8, <2>9, <2>14, <2>15 DEF Fits, Holds, Writing
  <2>17. TakesFree(p)
    BY <1>1, <1>3, <2>3, <2>5, <2>9, <2>11
    DEF TakesFree, HoldsDraft, HoldsIdentity, Saving
  <2> QED BY <1>1, <2>9, <2>16, <2>17, PrivateKeeps DEF JournalInv, Types, Others, bounds
<1> QED BY <1>2, <1>3

LEMMA CheckKeeps == JournalInv /\ (\E p \in Process : Check(p)) => JournalInv'
<1> SUFFICES ASSUME JournalInv, NEW p \in Process, Check(p) PROVE JournalInv'
  OBVIOUS
<1> DEFINE d == proc[p].draft  o == proc[p].op  content == proc[p].content
           ok == SourcesUnchanged(d, content) /\ OutputsExpected(d, o, content)
           todo == {f \in proc[p].left : file[d][f] # o}
           where == IF todo = {} THEN "mark" ELSE "replace"
           new == [proc[p] EXCEPT !.left = todo, !.at = where]
<1>1. Private /\ UNCHANGED bounds /\ proc[p].at = "check" /\ proc[p].at \in Acting
  BY DEF Check, Private, disk, Acting
<1>2. CASE ~ok
  BY <1>1, <1>2, LeavingKeeps DEF Check
<1>3. CASE ok
  <2>1. /\ proc \in [Process -> ProcState] /\ proc[p] \in ProcState /\ Bound(proc[p])
        /\ d \in Draft /\ o \in Op /\ content \in Content
    BY <1>1, Working DEF JournalInv, Types, Procs
  <2>2. proc' = [proc EXCEPT ![p] = new]
    BY <1>1, <1>3, <2>1 DEF Check
  <2>3. where \in {"mark", "replace"}
    OBVIOUS
  <2>4. todo \in SUBSET File
    BY <2>1 DEF ProcState
  <2>5. /\ new \in ProcState
        /\ new.at = where /\ new.held = proc[p].held /\ new.left = todo
        /\ new.draft = d /\ new.op = o /\ new.content = content
    BY <2>1, <2>3, <2>4 DEF ProcState, At, Acting
  <2>6. Bound(new)
    BY <2>1, <2>3, <2>5 DEF Bound, Saving
  <2>7. /\ proc[p].held = File /\ Known(d, content) /\ Acts(p)
        /\ proc[p].left \subseteq Outputs(content)
    BY <1>1 DEF JournalInv, Processes, Fits, Holds, Acts, Writing
  <2>8. todo \subseteq Outputs(content) /\ \A f \in todo : file[d][f] = content.base[f]
    BY <1>3, <2>7 DEF OutputsExpected
  <2> HIDE DEF new, where, todo
  <2>9. Procs' /\ proc'[p] = new /\ OthersStay(p)
    BY <2>2, <2>5, <2>6, Moves DEF JournalInv, Types, OthersStay
  <2>10. DraftSame(d) /\ \A e \in Draft : DraftSame(e)
    BY <1>1, <2>1, PrivateSame
  <2>11. /\ where \in Identified /\ proc[p].at \in Identified
         /\ where \in Writing /\ proc[p].at \in Writing
    BY <1>1, <2>3 DEF Identified, Acting, Writing
  <2>12. ~PendingBut(d, o)' /\ Mutations(d)' = Mutations(d)
    BY <2>1, <2>5, <2>7, <2>9, <2>10, SameDraft DEF Acts
  <2>13. phase' = phase /\ intent' = intent /\ log' = log /\ file' = file
    BY <1>1 DEF Private
  <2>14. Acts(p)'
    BY <1>1, <2>1, <2>3, <2>5, <2>7, <2>8, <2>9, <2>11, <2>12, <2>13 DEF Acts
  <2>15. Known(d, content)'
    BY <2>1, <2>5, <2>7, <2>9, <2>10, SameDraft
  <2>16. Fits(p)'
    BY <2>3, <2>5, <2>7, <2>9, <2>14, <2>15 DEF Fits, Holds, Writing
  <2>17. TakesFree(p)
    BY <1>1, <1>3, <2>3, <2>5, <2>9, <2>11
    DEF TakesFree, HoldsDraft, HoldsIdentity, Saving
  <2> QED BY <1>1, <2>9, <2>16, <2>17, PrivateKeeps DEF JournalInv, Types, Others, bounds
<1> QED BY <1>2, <1>3

-----------------------------------------------------------------------------
(* Guarded saves of the manifest *)

LEMMA SaveGuardKeeps == JournalInv /\ (\E p \in Process : SaveGuard(p)) => JournalInv'
<1> SUFFICES ASSUME JournalInv, NEW p \in Process, SaveGuard(p) PROVE JournalInv'
  OBVIOUS
<1> DEFINE d == proc[p].draft
           refused == Pending(d) \/ (linked[d] /\ (~DraftFree(d) \/ ~Exists(d) \/ Completed(d)))
           new == [proc[p] EXCEPT !.at = "open", !.assoc = linked[d]]
<1>1. Private /\ UNCHANGED bounds /\ proc[p].at = "guard"
  BY DEF SaveGuard, Private, disk
<1>2. CASE refused
  BY <1>1, <1>2, LeavingKeeps DEF SaveGuard
<1>3. CASE ~refused
  <2>1. /\ proc \in [Process -> ProcState] /\ proc[p] \in ProcState
        /\ d \in Draft /\ linked[d] \in BOOLEAN
    BY <1>1 DEF JournalInv, Types, Procs, Bound, Disk
  <2>2. proc' = [proc EXCEPT ![p] = new]
    BY <1>3 DEF SaveGuard
  <2>3. /\ new \in ProcState
        /\ new.at = "open" /\ new.held = proc[p].held /\ new.draft = d /\ new.assoc = linked[d]
    BY <2>1 DEF ProcState, At, Saving
  <2>4. Bound(new)
    BY <2>1, <2>3 DEF Bound, Acting
  <2> HIDE DEF new
  <2>5. Procs' /\ proc'[p] = new /\ OthersStay(p)
    BY <2>2, <2>3, <2>4, Moves DEF JournalInv, Types, OthersStay
  <2>6. proc[p].held = {}
    BY <1>1 DEF JournalInv, Processes, Fits, Holds
  <2>7. Fits(p)'
    BY <2>3, <2>5, <2>6 DEF Fits, Holds, Acting, Writing
  <2>8. TakesFree(p)
    BY <1>3, <2>3, <2>5, <2>6 DEF TakesFree, HoldsDraft, HoldsIdentity, Acting, Identified
  <2> QED BY <1>1, <2>5, <2>7, <2>8, PrivateKeeps DEF JournalInv, Types, Others, bounds
<1> QED BY <1>2, <1>3

LEMMA SaveOpenKeeps == JournalInv /\ (\E p \in Process : SaveOpen(p)) => JournalInv'
<1> SUFFICES ASSUME JournalInv, NEW p \in Process, SaveOpen(p) PROVE JournalInv'
  OBVIOUS
<1> DEFINE d == proc[p].draft
           new == [proc[p] EXCEPT !.held = {"manifest"}, !.at = "validate"]
<1>1. Private /\ UNCHANGED bounds /\ proc[p].at = "open"
  BY DEF SaveOpen, Private, disk
<1>2. CASE ~PathFree(d, "manifest")
  BY <1>1, <1>2, LeavingKeeps DEF SaveOpen
<1>3. CASE PathFree(d, "manifest")
  <2>1. proc \in [Process -> ProcState] /\ proc[p] \in ProcState /\ d \in Draft
    BY <1>1 DEF JournalInv, Types, Procs, Bound, Saving
  <2>2. proc' = [proc EXCEPT ![p] = new]
    BY <1>3, <2>1 DEF SaveOpen
  <2>3. /\ new \in ProcState
        /\ new.at = "validate" /\ new.held = {"manifest"} /\ new.draft = d
        /\ new.assoc = proc[p].assoc
    BY <2>1 DEF ProcState, At, Saving, File
  <2>4. Bound(new)
    BY <2>1, <2>3 DEF Bound, Acting
  <2> HIDE DEF new
  <2>5. Procs' /\ proc'[p] = new /\ OthersStay(p)
    BY <2>2, <2>3, <2>4, Moves DEF JournalInv, Types, OthersStay
  <2>6. Fits(p)'
    BY <2>3, <2>5 DEF Fits, Holds, Acting, Writing
  <2>7. TakesFree(p)
    BY <1>1, <1>3, <2>3, <2>5 DEF TakesFree, HoldsDraft, HoldsIdentity, Acting, Identified, Saving
  <2> QED BY <1>1, <2>5, <2>6, <2>7, PrivateKeeps DEF JournalInv, Types, Others, bounds
<1> QED BY <1>2, <1>3

LEMMA SaveValidateKeeps == JournalInv /\ (\E p \in Process : SaveValidate(p)) => JournalInv'
<1> SUFFICES ASSUME JournalInv, NEW p \in Process, SaveValidate(p) PROVE JournalInv'
  OBVIOUS
<1> DEFINE d == proc[p].draft
<1>1. Private /\ UNCHANGED bounds /\ proc[p].at = "validate" /\ proc[p].at \in Saving
  BY DEF SaveValidate, Private, disk, Saving
<1>2. CASE Reserved(d) \/ ~AssociationKept(p)
  BY <1>1, <1>2, LeavingKeeps DEF SaveValidate
<1>3. CASE ~(Reserved(d) \/ ~AssociationKept(p))
  <2>1. Goto(p, "write") /\ d \in Draft
    BY <1>1, <1>3 DEF SaveValidate, JournalInv, Types, Procs, Bound
  <2>2. /\ Procs' /\ OthersStay(p) /\ SameBut(p)
        /\ proc'[p].at = "write" /\ proc'[p].held = proc[p].held
    BY <1>1, <2>1, GoesOn DEF At, Acting, Saving
  <2>3. proc[p].held = {"manifest"}
    BY <1>1 DEF JournalInv, Processes, Fits, Holds
  <2>4. DraftSame(d)
    BY <1>1, <2>1, PrivateSame
  <2>5. Writes(p)'
    BY <1>3, <2>1, <2>2, <2>4, SameDraft DEF Writes, SameBut, Reserved, AssociationKept, DraftSame
  <2>6. Fits(p)'
    BY <2>2, <2>3, <2>5 DEF Fits, Holds, Acting, Writing
  <2>7. TakesFree(p)
    BY <1>1, <2>2, <2>3 DEF TakesFree, HoldsDraft, HoldsIdentity, SameBut, Acting, Identified
  <2> QED BY <1>1, <2>2, <2>6, <2>7, PrivateKeeps DEF JournalInv, Types, Others, bounds
<1> QED BY <1>2, <1>3

-----------------------------------------------------------------------------
(* Steps that change what is on disk *)

\* The holder of the draft d and of the identity of o changes nothing but the draft d,
\* where it changes no other operation.
Within(d, o) ==
  /\ \A e \in Draft \ {d} : DraftSame(e)
  /\ \A u \in Op \ {o} : phase'[d][u] = phase[d][u] /\ intent'[d][u] = intent[d][u]

\* The history of d only grows, and a new token comes with a new entry.
Grows(d) ==
  /\ log[d] \in Seq(Op \cup Edit \cup {"created"})
  /\ log'[d] \in Seq(Op \cup Edit \cup {"created"})
  /\ Len(log[d]) <= Len(log'[d])
  /\ token'[d] = token[d] \/ Len(log[d]) < Len(log'[d])

LEMMA StillKnown ==
  ASSUME NEW d \in Draft, Grows(d), NEW content \in Content, Known(d, content)
  PROVE  Known(d, content)'
<1>1. content.expected \in Nat
  BY DEF Content
<1>2. Len(log[d]) \in Nat /\ Len(log'[d]) \in Nat
  BY DEF Grows
<1> QED BY <1>1, <1>2 DEF Known, Grows

\* p executes o on d, and holds the locks of both.
Works(p, d, o) ==
  /\ proc[p].at \in Identified
  /\ proc[p].draft = d /\ proc[p].op = o

LEMMA OthersFit ==
  ASSUME JournalInv, NEW p \in Process, NEW d \in Draft, NEW o \in Op, Works(p, d, o),
         OthersStay(p), Within(d, o), Grows(d),
         \/ proc[p].held = File
         \/ linked'[d] = linked[d] /\ phase'[d][o] \in {"committed", phase[d][o]}
  PROVE  \A q \in Process \ {p} : Fits(q)'
<1> SUFFICES ASSUME NEW q \in Process, q # p PROVE Fits(q)'
  OBVIOUS
<1>1. proc[p].at \in Acting
  BY DEF Identified, Works
<1>2. proc'[q] = proc[q] /\ Fits(q)
  BY DEF OthersStay, JournalInv, Processes
<1>3. HoldsDraft(p, d) /\ HoldsIdentity(p, o)
  BY <1>1 DEF HoldsDraft, HoldsIdentity, Works
<1>4. CASE proc[q].at \in Acting
  <2>1. proc[q].draft \in Draft /\ proc[q].op \in Op
    BY <1>4, Working DEF JournalInv
  <2>2. proc[q].draft # d
    BY <1>3, <1>4 DEF JournalInv, Exclusive, HoldsDraft
  <2>3. proc[q].at \in Identified => proc[q].op # o
    BY <1>3 DEF JournalInv, Exclusive, HoldsIdentity
  <2>4. DraftSame(proc[q].draft)
    BY <2>1, <2>2 DEF Within
  <2>5. proc[q].at \in Identified => \A e \in Draft : phase'[e][proc[q].op] = phase[e][proc[q].op]
    BY <2>1, <2>3 DEF Within, DraftSame
  <2> QED BY <1>2, <2>4, <2>5, FitStays DEF JournalInv
<1>5. CASE proc[q].at \notin Acting /\ proc[q].draft # d
  <2>1. proc[q].draft \in Draft => DraftSame(proc[q].draft)
    BY <1>5 DEF Within
  <2> QED BY <1>2, <1>5, <2>1, FitStays DEF JournalInv, Identified
<1>6. CASE proc[q].at \notin Acting /\ proc[q].draft = d
  <2>1. ASSUME proc[q].at = "enter" PROVE Known(d, proc[q].content)'
    <3>1. PICK content \in Content : content = proc[q].content
      BY <2>1, Working DEF JournalInv
    <3>2. Known(d, content)'
      BY <1>2, <1>6, <2>1, <3>1, StillKnown DEF Fits
    <3> QED BY <1>2, <3>1, <3>2
  <2>2. ASSUME proc[q].at = "write" PROVE Writes(q)'
    <3>1. proc[q].held = {"manifest"} /\ Writes(q)
      BY <1>2, <2>2 DEF Fits, Holds
    <3>2. proc[p].held # File
      BY <1>6, <3>1 DEF JournalInv, Exclusive, File, Works
    <3>3. linked'[d] = linked[d] /\ phase'[d][o] \in {"committed", phase[d][o]}
      BY <3>2
    <3>4. \A u \in Op : Unresolved(d, u)' => Unresolved(d, u)
      BY <3>3 DEF Unresolved, Within
    <3>5. Pending(d)' => Pending(d)
      BY <3>4 DEF Pending, PendingBut
    <3> QED BY <1>2, <1>6, <3>1, <3>3, <3>5 DEF Writes
  <2>3. Holds(q)'
    BY <1>2 DEF Fits, Holds
  <2> QED BY <1>2, <1>6, <2>1, <2>2, <2>3 DEF Fits
<1> QED BY <1>4, <1>5, <1>6

\* What p knows while it holds both locks.
LEMMA WorkerKnows ==
  ASSUME JournalInv, NEW p \in Process, NEW d \in Draft, NEW o \in Op, Works(p, d, o)
  PROVE  /\ Fits(p) /\ Acts(p) /\ Known(d, proc[p].content) /\ proc[p].content \in Content
         /\ \A u \in Op \ {o} : ~Unresolved(d, u)
         /\ \A e \in Draft \ {d} : phase[e][o] = "none"
         /\ phase[d][o] \in {"none", "prepared", "written"}
         /\ phase[d][o] # "none" => intent[d][o] = proc[p].content
         /\ o \in Mutations(d) <=> proc[p].at = "finish"
         /\ o \notin Mutations(d) => proc[p].content.expected = Len(log[d])
         /\ proc[p].at \in Writing \cup {"finish"} => Unresolved(d, o)
         /\ proc[p].at \in Writing \cup {"prepare"} => proc[p].held = File
<1>1. proc[p].at \in Acting
  BY DEF Works, Identified
<1>2. Fits(p) /\ Acts(p) /\ Holds(p) /\ Known(d, proc[p].content) /\ proc[p].content \in Content
  BY <1>1, Working DEF JournalInv, Processes, Fits, Works
<1>3. phase[d][o] \in {"none", "prepared", "written", "committed"}
  BY DEF JournalInv, Types, Disk
<1>4. phase[d][o] \in {"none", "prepared", "written"}
  BY <1>2, <1>3 DEF Acts, Works
<1>5. \A u \in Op \ {o} : ~Unresolved(d, u)
  BY <1>2 DEF Acts, Works, PendingBut
<1>6. proc[p].at \in Writing \cup {"finish"} => Unresolved(d, o)
  BY <1>2, <1>4 DEF Acts, Works, Unresolved
<1> QED BY <1>2, <1>4, <1>5, <1>6 DEF Acts, Works, Holds

\* p keeps its locks.
LEMMA WorkerStays ==
  ASSUME JournalInv, NEW p \in Process, NEW d \in Draft, NEW o \in Op, Works(p, d, o),
         proc'[p].draft = d, proc'[p].op = o, proc'[p].held = proc[p].held, Procs', OthersStay(p)
  PROVE  Exclusive'
<1>1. HoldsDraft(p, d) /\ HoldsIdentity(p, o)
  BY DEF Works, HoldsDraft, HoldsIdentity, Identified
<1>2. TakesFree(p)
  BY <1>1 DEF TakesFree, HoldsDraft, HoldsIdentity, Works
<1> QED BY <1>2, OneLocation DEF TakesFree, JournalInv, Types

\* The invariant of what is on disk, for one draft.
DraftInv(d) ==
  /\ \A o \in Op : Unresolved(d, o) =>
       /\ \A u \in Op \ {o} : ~Unresolved(d, u)
       /\ IF o \in Mutations(d) THEN log[d][Len(log[d])] = o
          ELSE Len(log[d]) = intent[d][o].expected
  /\ \A i, j \in DOMAIN log[d] : log[d][i] = log[d][j] => i = j
  /\ \A o \in Op : o \in Mutations(d) => phase[d][o] # "none"
  /\ \A f \in File : file[d][f] \in Op => phase[d][file[d][f]] # "none"
  /\ \A o \in Op : phase[d][o] # "none" => Known(d, intent[d][o])
  /\ \A m \in Edit : \A i \in DOMAIN log[d] :
       log[d][i] = m => sent[m] # NONE /\ sent[m].draft = d /\ i = sent[m].expected + 1
  /\ file[d]["manifest"] \in Op => linked[d]
  /\ Exists(d) /\ (\A o \in Op : ~Promised(d, o)) =>
       /\ linked[d]
       /\ <<d, "artifact">> \notin edited => file[d]["artifact"] = token[d]

DiskInv == PendingIsCurrent /\ AppliedOnce /\ Journalled /\ Placed /\ Matched

LEMMA DraftByDraft ==
  /\ DiskInv => \A d \in Draft : DraftInv(d)
  /\ (\A d \in Draft : DraftInv(d)) /\ (\A m \in Edit : sent[m] # NONE => Exists(sent[m].draft))
       => DiskInv
BY DEF DiskInv, DraftInv, PendingIsCurrent, PendingBut, AppliedOnce, Journalled, Placed, Matched

LEMMA DraftByDraftNext ==
  /\ \A d \in Draft : DraftInv(d)'
  /\ \A m \in Edit : sent'[m] # NONE => Exists(sent[m].draft)'
  => DiskInv'
BY DEF DiskInv, DraftInv, PendingIsCurrent, PendingBut, AppliedOnce, Journalled, Placed, Matched

LEMMA SameDraftInv ==
  ASSUME NEW d \in Draft, DraftInv(d), DraftSame(d), UNCHANGED <<sent, edited>>
  PROVE  DraftInv(d)'
BY SameDraft DEF DraftInv, DraftSame

LEMMA WorkerKeeps ==
  ASSUME JournalInv, NEW p \in Process, NEW d \in Draft, NEW o \in Op, Works(p, d, o),
         OthersStay(p), Within(d, o), Grows(d), UNCHANGED <<sent, edited>>,
         \/ proc[p].held = File
         \/ linked'[d] = linked[d] /\ phase'[d][o] \in {"committed", phase[d][o]},
         Types', Exclusive', Fits(p)', DraftInv(d)'
  PROVE  JournalInv'
<1>1. \A q \in Process : Fits(q)'
  BY OthersFit
<1>2. ASSUME NEW e \in Draft PROVE DraftInv(e)'
  <2>1. e # d => DraftSame(e)
    BY DEF Within
  <2>2. DraftInv(e)
    BY DraftByDraft DEF JournalInv, DiskInv
  <2> QED BY <2>1, <2>2, SameDraftInv
<1>3. ASSUME NEW m \in Edit, sent'[m] # NONE PROVE Exists(sent[m].draft)'
  <2>1. sent'[m] = sent[m] /\ sent[m].draft \in Draft /\ Exists(sent[m].draft)
    BY <1>3 DEF JournalInv, Placed, Types, Others
  <2>2. Exists(d) => Exists(d)'
    BY DEF Exists, Grows
  <2> QED BY <2>1, <2>2 DEF Within, DraftSame, Exists
<1>4. DiskInv'
  BY <1>2, <1>3, DraftByDraftNext
<1>5. OneDraftPerOperation'
  <2>1. \A e \in Draft \ {d} : phase[e][o] = "none"
    BY WorkerKnows
  <2> QED BY <2>1 DEF JournalInv, OneDraftPerOperation, Within, DraftSame
<1> QED BY <1>1, <1>4, <1>5 DEF JournalInv, DiskInv, Processes

LEMMA PrepareKeeps == JournalInv /\ (\E p \in Process : Prepare(p)) => JournalInv'
<1> SUFFICES ASSUME JournalInv, NEW p \in Process, Prepare(p) PROVE JournalInv'
  OBVIOUS
<1>1. proc[p].at = "prepare" /\ proc[p].at \in Acting
  BY DEF Prepare, Acting
<1>2. PICK d \in Draft, o \in Op, content \in Content :
        d = proc[p].draft /\ o = proc[p].op /\ content = proc[p].content
  BY <1>1, Working DEF JournalInv
<1>3. UNCHANGED <<log, token, file, linked, sent, edited, bounds>>
  BY DEF Prepare
<1>4. CASE phase[d][o] # "none"
  BY <1>2, <1>3, <1>4, LeavingKeeps DEF Prepare, Private
<1>5. CASE phase[d][o] = "none"
  <2>1. /\ phase' = [phase EXCEPT ![d][o] = "prepared"]
        /\ intent' = [intent EXCEPT ![d][o] = content]
        /\ Goto(p, "check")
    BY <1>2, <1>5 DEF Prepare
  <2>2. /\ Procs' /\ OthersStay(p) /\ SameBut(p)
        /\ proc'[p].at = "check" /\ proc'[p].held = proc[p].held /\ proc'[p].left = proc[p].left
    BY <1>1, <2>1, GoesOn DEF At, Acting, Saving
  <2>3. Works(p, d, o)
    BY <1>1, <1>2 DEF Works, Identified
  <2>4. /\ Acts(p) /\ Known(d, content)
        /\ \A u \in Op \ {o} : ~Unresolved(d, u)
        /\ \A e \in Draft \ {d} : phase[e][o] = "none"
        /\ o \notin Mutations(d) /\ content.expected = Len(log[d])
        /\ proc[p].held = File
    BY <1>1, <1>2, <2>3, WorkerKnows
  <2>5. Types'
    BY <1>3, <2>1, <2>2 DEF JournalInv, Types, Disk, Intents, Others, bounds
  <2>6. /\ phase'[d][o] = "prepared" /\ intent'[d][o] = content
        /\ Within(d, o)
    BY <1>3, <2>1 DEF JournalInv, Types, Disk, Intents, Within, DraftSame
  <2>7. Grows(d)
    BY <1>3 DEF Grows, JournalInv, Types, Disk
  <2>8. Unresolved(d, o)' /\ \A u \in Op \ {o} : ~Unresolved(d, u)'
    BY <2>4, <2>6 DEF Unresolved, Within
  <2>9. Mutations(d)' = Mutations(d)
    BY <1>3 DEF Mutations
  <2>10. \A c \in Content : Known(d, c)' <=> Known(d, c)
    BY <1>3 DEF Known
  <2>11. Acts(p)'
    <3>1. ~PendingBut(d, o)'
      BY <2>8 DEF PendingBut
    <3>2. proc[p].left \subseteq Outputs(content)
      BY <1>1, <1>2, <2>4 DEF Acts
    <3>3. \A e \in Draft \ {d} : phase'[e][o] = "none"
      BY <2>4, <2>6 DEF Within, DraftSame
    <3> QED BY <1>2, <1>3, <2>2, <2>4, <2>6, <2>9, <3>1, <3>2, <3>3 DEF Acts, SameBut
  <2>12. Fits(p)'
    BY <1>1, <1>2, <2>2, <2>4, <2>10, <2>11 DEF Fits, Holds, SameBut, Writing
  <2>13. Exclusive'
    BY <1>2, <2>2, <2>3, WorkerStays DEF SameBut
  <2>14. DraftInv(d)'
    <3>1. DraftInv(d)
      BY DraftByDraft DEF JournalInv, DiskInv
    <3>2. Promised(d, o)'
      BY <2>4, <2>8, <2>9 DEF Promised
    <3>3. \A u \in Op : phase[d][u] # "none" => phase'[d][u] # "none"
      BY <2>6 DEF Within
    <3>4. ASSUME NEW u \in Op, phase'[d][u] # "none" PROVE Known(d, intent[d][u])'
      BY <1>3, <2>4, <2>6, <3>1, <3>4 DEF Known, Within, DraftInv
    <3> QED BY <1>3, <2>4, <2>6, <2>8, <2>9, <3>1, <3>2, <3>3, <3>4 DEF DraftInv
  <2> QED BY <1>3, <2>2, <2>3, <2>4, <2>5, <2>6, <2>7, <2>12, <2>13, <2>14, WorkerKeeps
<1> QED BY <1>4, <1>5

LEMMA ReplaceKeeps == JournalInv /\ (\E p \in Process : Replace(p)) => JournalInv'
<1> SUFFICES ASSUME JournalInv, NEW p \in Process, Replace(p) PROVE JournalInv'
  OBVIOUS
<1>1. proc[p].at = "replace" /\ proc[p].at \in Acting
  BY DEF Replace, Acting
<1>2. PICK d \in Draft, o \in Op, content \in Content :
        d = proc[p].draft /\ o = proc[p].op /\ content = proc[p].content
  BY <1>1, Working DEF JournalInv
<1>3. UNCHANGED <<log, token, phase, intent, sent, edited, bounds>>
  BY DEF Replace
<1> DEFINE new(f) == [proc[p] EXCEPT !.left = @ \ {f}, !.at = "check"]
<1>4. proc \in [Process -> ProcState] /\ proc[p] \in ProcState
  BY DEF JournalInv, Types, Procs
<1>5. PICK f \in proc[p].left :
        /\ file' = [file EXCEPT ![d][f] = o]
        /\ linked' = [linked EXCEPT ![d] = @ \/ f = "manifest"]
        /\ proc' = [proc EXCEPT ![p] = new(f)]
  BY <1>2, <1>4 DEF Replace
<1>6. f \in File
  BY <1>4 DEF ProcState
<1>7. /\ new(f) \in ProcState
      /\ new(f).at = "check" /\ new(f).held = proc[p].held /\ new(f).left = proc[p].left \ {f}
      /\ new(f).draft = d /\ new(f).op = o /\ new(f).content = content
  BY <1>2, <1>4 DEF ProcState, At, Acting
<1>8. Bound(new(f))
  BY <1>2, <1>7 DEF Bound, Saving
<1> HIDE DEF new
<1>9. Procs' /\ OthersStay(p) /\ proc'[p] = new(f)
  BY <1>5, <1>7, <1>8, Moves DEF JournalInv, Types, OthersStay
<1>10. Works(p, d, o)
  BY <1>1, <1>2 DEF Works, Identified
<1>11. /\ Acts(p) /\ Known(d, content)
       /\ \A u \in Op \ {o} : ~Unresolved(d, u)
       /\ \A e \in Draft \ {d} : phase[e][o] = "none"
       /\ o \notin Mutations(d) /\ content.expected = Len(log[d])
       /\ Unresolved(d, o) /\ proc[p].held = File
  BY <1>1, <1>2, <1>10, WorkerKnows DEF Writing
<1>12. file'[d][f] = o /\ (\A g \in File \ {f} : file'[d][g] = file[d][g])
       /\ linked'[d] = (linked[d] \/ f = "manifest")
       /\ (\A e \in Draft \ {d} : file'[e] = file[e] /\ linked'[e] = linked[e])
  BY <1>5, <1>6 DEF JournalInv, Types, Disk
<1>13. Disk'
  <2>1. o \in Value
    BY DEF Value
  <2>2. file' \in [Draft -> [File -> Value]]
    BY <1>5, <1>6, <2>1 DEF JournalInv, Types, Disk
  <2>3. linked' \in [Draft -> BOOLEAN]
    BY <1>5 DEF JournalInv, Types, Disk
  <2> QED BY <1>3, <2>2, <2>3 DEF JournalInv, Types, Disk
<1>14. Types'
  BY <1>3, <1>9, <1>13 DEF JournalInv, Types, Intents, Others, bounds
<1>15. Within(d, o) /\ Grows(d)
  BY <1>3, <1>12 DEF Within, DraftSame, Grows, JournalInv, Types, Disk
<1>16. Acts(p)'
  <2>1. \A u \in Op : Unresolved(d, u)' <=> Unresolved(d, u)
    BY <1>3 DEF Unresolved
  <2>2. ~PendingBut(d, o)' /\ Mutations(d)' = Mutations(d)
    BY <1>3, <1>11, <2>1 DEF PendingBut, Mutations
  <2>3. proc[p].left \subseteq Outputs(content)
    BY <1>1, <1>2, <1>11 DEF Acts
  <2>4. phase[d][o] # "none" /\ phase[d][o] # "committed" /\ intent[d][o] = content
    BY <1>2, <1>10, <1>11, WorkerKnows DEF Unresolved
  <2> QED BY <1>2, <1>3, <1>7, <1>9, <1>11, <2>2, <2>3, <2>4 DEF Acts
<1>17. Fits(p)'
  <2>1. Known(d, content)'
    BY <1>3, <1>11 DEF Known
  <2> QED BY <1>7, <1>9, <1>11, <1>16, <2>1 DEF Fits, Holds, Writing
<1>18. Exclusive'
  BY <1>7, <1>9, <1>10, WorkerStays
<1>19. DraftInv(d)'
  <2>1. DraftInv(d)
    BY DraftByDraft DEF JournalInv, DiskInv
  <2>2. Promised(d, o)'
    BY <1>3, <1>11 DEF Promised, Unresolved, Mutations
  <2>3. \A g \in File : file'[d][g] \in Op => phase'[d][file'[d][g]] # "none"
    BY <1>3, <1>11, <1>12, <2>1 DEF DraftInv, Unresolved
  <2>4. file'[d]["manifest"] \in Op => linked'[d]
    BY <1>12, <2>1 DEF DraftInv, File
  <2>5. \A u \in Op : Unresolved(d, u)' <=> Unresolved(d, u)
    BY <1>3 DEF Unresolved
  <2>6. \A c : Known(d, c)' <=> Known(d, c)
    BY <1>3 DEF Known
  <2>7. Mutations(d)' = Mutations(d)
    BY <1>3 DEF Mutations
  <2> QED BY <1>3, <2>1, <2>2, <2>3, <2>4, <2>5, <2>6, <2>7 DEF DraftInv
<1> QED BY <1>3, <1>9, <1>10, <1>11, <1>14, <1>15, <1>17, <1>18, <1>19, WorkerKeeps

LEMMA MarkWrittenKeeps == JournalInv /\ (\E p \in Process : MarkWritten(p)) => JournalInv'
<1> SUFFICES ASSUME JournalInv, NEW p \in Process, MarkWritten(p) PROVE JournalInv'
  OBVIOUS
<1>1. proc[p].at = "mark" /\ proc[p].at \in Acting
  BY DEF MarkWritten, Acting
<1>2. PICK d \in Draft, o \in Op, content \in Content :
        d = proc[p].draft /\ o = proc[p].op /\ content = proc[p].content
  BY <1>1, Working DEF JournalInv
<1>3. /\ UNCHANGED <<log, token, file, linked, intent, sent, edited, bounds>>
      /\ phase' = [phase EXCEPT ![d][o] = "written"]
      /\ Goto(p, "commit")
  BY <1>2 DEF MarkWritten
<1>4. /\ Procs' /\ OthersStay(p) /\ SameBut(p)
      /\ proc'[p].at = "commit" /\ proc'[p].held = proc[p].held
  BY <1>1, <1>3, GoesOn DEF At, Acting, Saving
<1>5. Works(p, d, o)
  BY <1>1, <1>2 DEF Works, Identified
<1>6. /\ Acts(p) /\ Known(d, content)
      /\ \A u \in Op \ {o} : ~Unresolved(d, u)
      /\ \A e \in Draft \ {d} : phase[e][o] = "none"
      /\ o \notin Mutations(d) /\ content.expected = Len(log[d])
      /\ Unresolved(d, o) /\ intent[d][o] = content /\ proc[p].held = File
  BY <1>1, <1>2, <1>5, WorkerKnows DEF Writing, Unresolved
<1>7. phase'[d][o] = "written" /\ Within(d, o) /\ Grows(d)
  BY <1>3 DEF JournalInv, Types, Disk, Within, DraftSame, Grows
<1>8. Types'
  BY <1>3, <1>4, <1>6 DEF JournalInv, Types, Disk, Intents, Others, bounds, Unresolved
<1>9. \A u \in Op : Unresolved(d, u)' <=> Unresolved(d, u)
  BY <1>6, <1>7 DEF Unresolved, Within
<1>10. Mutations(d)' = Mutations(d) /\ \A c : Known(d, c)' <=> Known(d, c)
  BY <1>3 DEF Mutations, Known
<1>11. Acts(p)'
  <2>1. ~PendingBut(d, o)'
    BY <1>6, <1>9 DEF PendingBut
  <2>2. \A e \in Draft \ {d} : phase'[e][o] = "none"
    BY <1>6, <1>7 DEF Within, DraftSame
  <2> QED BY <1>2, <1>3, <1>4, <1>6, <1>7, <1>10, <2>1, <2>2 DEF Acts, SameBut
<1>12. Fits(p)'
  BY <1>2, <1>4, <1>6, <1>10, <1>11 DEF Fits, Holds, SameBut, Writing
<1>13. Exclusive'
  BY <1>2, <1>4, <1>5, WorkerStays DEF SameBut
<1>14. DraftInv(d)'
  <2>1. DraftInv(d)
    BY DraftByDraft DEF JournalInv, DiskInv
  <2>2. \A u \in Op : Promised(d, u)' <=> Promised(d, u)
    BY <1>9, <1>10 DEF Promised
  <2>3. \A u \in Op : phase'[d][u] # "none" <=> phase[d][u] # "none"
    BY <1>6, <1>7 DEF Within, Unresolved
  <2> QED BY <1>3, <1>9, <1>10, <2>1, <2>2, <2>3 DEF DraftInv, Exists
<1> QED BY <1>3, <1>4, <1>5, <1>6, <1>7, <1>8, <1>12, <1>13, <1>14, WorkerKeeps

LEMMA FinishKeeps == JournalInv /\ (\E p \in Process : Finish(p)) => JournalInv'
<1> SUFFICES ASSUME JournalInv, NEW p \in Process, Finish(p) PROVE JournalInv'
  OBVIOUS
<1>1. proc[p].at = "finish" /\ proc[p].at \in Acting
  BY DEF Finish, Acting
<1>2. PICK d \in Draft, o \in Op, content \in Content :
        d = proc[p].draft /\ o = proc[p].op /\ content = proc[p].content
  BY <1>1, Working DEF JournalInv
<1>3. /\ UNCHANGED <<log, token, file, linked, intent, sent, edited, bounds>>
      /\ phase' = [phase EXCEPT ![d][o] = "committed"]
      /\ Leave(p)
  BY <1>2 DEF Finish
<1>4. Procs' /\ proc'[p] = [Idle EXCEPT !.todo = proc[p].todo] /\ OthersStay(p)
  BY <1>3, Leaves DEF JournalInv, Types, OthersStay
<1>5. proc'[p].at = "idle" /\ proc'[p].held = {}
  BY <1>4 DEF Idle
<1>6. Works(p, d, o)
  BY <1>1, <1>2 DEF Works, Identified
<1>7. /\ \A u \in Op \ {o} : ~Unresolved(d, u)
      /\ o \in Mutations(d) /\ Unresolved(d, o)
  BY <1>1, <1>2, <1>6, WorkerKnows
<1>8. phase'[d][o] = "committed" /\ Within(d, o) /\ Grows(d)
  BY <1>3 DEF JournalInv, Types, Disk, Within, DraftSame, Grows
<1>9. Types'
  BY <1>3, <1>4, <1>7 DEF JournalInv, Types, Disk, Intents, Others, bounds, Unresolved
<1>10. Fits(p)' /\ TakesFree(p)
  BY <1>5, WithoutLocks DEF Fits
<1>11. Exclusive'
  BY <1>4, <1>10, OneLocation DEF TakesFree, JournalInv, Types
<1>12. DraftInv(d)'
  <2>1. DraftInv(d)
    BY DraftByDraft DEF JournalInv, DiskInv
  <2>2. Mutations(d)' = Mutations(d) /\ \A c : Known(d, c)' <=> Known(d, c)
    BY <1>3 DEF Mutations, Known
  <2>3. \A u \in Op : ~Unresolved(d, u)' /\ ~Promised(d, u)
    BY <1>7, <1>8 DEF Unresolved, Within, Promised
  <2>4. \A u \in Op : phase'[d][u] # "none" <=> phase[d][u] # "none"
    BY <1>7, <1>8 DEF Within, Unresolved
  <2> QED BY <1>3, <2>1, <2>2, <2>3, <2>4 DEF DraftInv, Exists
<1> QED BY <1>3, <1>4, <1>6, <1>8, <1>9, <1>10, <1>11, <1>12, WorkerKeeps

LEMMA Appended ==
  ASSUME NEW S, NEW s \in Seq(S), NEW x \in S
  PROVE  /\ Append(s, x) \in Seq(S) /\ Len(Append(s, x)) = Len(s) + 1
         /\ \A i \in DOMAIN s : i \in DOMAIN Append(s, x) /\ Append(s, x)[i] = s[i]
         /\ Append(s, x)[Len(s) + 1] = x
         /\ \A i \in DOMAIN Append(s, x) : i \in DOMAIN s \/ i = Len(s) + 1
         /\ \A i \in DOMAIN s : i <= Len(s) /\ i \in Nat \ {0}
         /\ Len(s) \in Nat /\ Len(s) + 1 \in DOMAIN Append(s, x)
OBVIOUS

LEMMA CommitKeeps == JournalInv /\ (\E p \in Process : Commit(p)) => JournalInv'
<1> SUFFICES ASSUME JournalInv, NEW p \in Process, Commit(p) PROVE JournalInv'
  OBVIOUS
<1>1. proc[p].at = "commit" /\ proc[p].at \in Acting
  BY DEF Commit, Acting
<1>2. PICK d \in Draft, o \in Op, content \in Content :
        d = proc[p].draft /\ o = proc[p].op /\ content = proc[p].content
  BY <1>1, Working DEF JournalInv
<1>3. UNCHANGED <<file, linked, phase, intent, sent, edited, bounds>>
  BY DEF Commit
<1> DEFINE ok == SourcesUnchanged(d, content) /\ OutputsNew(d, o, content)
<1>4. CASE ~ok
  BY <1>2, <1>3, <1>4, LeavingKeeps DEF Commit, Private
<1>5. CASE ok
  <2>1. /\ log' = [log EXCEPT ![d] = Append(@, o)]
        /\ token' = [token EXCEPT ![d] = NewToken(d, o, content)]
        /\ Goto(p, "finish")
    BY <1>2, <1>5 DEF Commit
  <2>2. /\ Procs' /\ OthersStay(p) /\ SameBut(p)
        /\ proc'[p].at = "finish" /\ proc'[p].held = proc[p].held
    BY <1>1, <2>1, GoesOn DEF At, Acting, Saving
  <2>3. Works(p, d, o)
    BY <1>1, <1>2 DEF Works, Identified
  <2>4. /\ Acts(p) /\ Known(d, content)
        /\ \A u \in Op \ {o} : ~Unresolved(d, u)
        /\ \A e \in Draft \ {d} : phase[e][o] = "none"
        /\ o \notin Mutations(d) /\ content.expected = Len(log[d])
        /\ Unresolved(d, o) /\ intent[d][o] = content /\ proc[p].held = File
    BY <1>1, <1>2, <2>3, WorkerKnows DEF Writing, Unresolved
  <2> DEFINE S == Op \cup Edit \cup {"created"}
  <2>5. log[d] \in Seq(S) /\ log \in [Draft -> Seq(S)] /\ token \in [Draft -> Value] /\ o \in S
    BY DEF JournalInv, Types, Disk
  <2> HIDE DEF S
  <2>6. log'[d] = Append(log[d], o) /\ log' \in [Draft -> Seq(S)]
    BY <2>1, <2>5, Appended
  <2>7. content.base \in [File -> Op \cup {"absent", "initial", "saved", "outside"}]
    BY DEF Content
  <2>8. NewToken(d, o, content) \in Value
    BY <2>5, <2>7 DEF NewToken, Value, File
  <2>9. token'[d] = NewToken(d, o, content) /\ token' \in [Draft -> Value]
    BY <2>1, <2>5, <2>8
  <2>10. Types'
    BY <1>3, <2>2, <2>6, <2>9 DEF JournalInv, Types, Disk, Intents, Others, bounds, S
  <2>11. Within(d, o)
    BY <1>3, <2>1, <2>5 DEF Within, DraftSame
  <2>12. Grows(d) /\ Len(log'[d]) = Len(log[d]) + 1 /\ Len(log[d]) \in Nat
    BY <2>5, <2>6, Appended DEF Grows, S
  <2>13. \A u \in Op : Unresolved(d, u)' <=> Unresolved(d, u)
    BY <1>3 DEF Unresolved
  <2>14. Mutations(d)' = Mutations(d) \cup {o}
    <3>1. \A i \in DOMAIN log[d] : i \in DOMAIN log'[d] /\ log'[d][i] = log[d][i]
      BY <2>5, <2>6, Appended
    <3>2. Len(log[d]) + 1 \in DOMAIN log'[d] /\ log'[d][Len(log[d]) + 1] = o
      BY <2>5, <2>6, Appended
    <3>3. \A i \in DOMAIN log'[d] : i \in DOMAIN log[d] \/ i = Len(log[d]) + 1
      BY <2>5, <2>6, Appended
    <3> QED BY <3>1, <3>2, <3>3 DEF Mutations
  <2>15. \A c \in Content : Known(d, c) => Known(d, c)'
    BY <2>12, StillKnown
  <2>16. Acts(p)'
    <3>1. ~PendingBut(d, o)'
      BY <2>4, <2>13 DEF PendingBut
    <3>2. phase'[d][o] # "none" /\ phase'[d][o] # "committed" /\ intent'[d][o] = content
      BY <1>3, <2>4 DEF Unresolved
    <3> QED BY <1>2, <1>3, <2>2, <2>4, <2>14, <3>1, <3>2 DEF Acts, SameBut
  <2>17. Fits(p)'
    BY <1>2, <2>2, <2>4, <2>15, <2>16 DEF Fits, Holds, SameBut, Writing
  <2>18. Exclusive'
    BY <1>2, <2>2, <2>3, WorkerStays DEF SameBut
  <2>19. file[d]["manifest"] = o
    BY <1>5 DEF OutputsNew, Outputs, File
  <2>20. file[d]["artifact"] = NewToken(d, o, content)
    <3>1. CASE "artifact" \in Outputs(content)
      <4>1. content.command # "adopt"
        BY <3>1 DEF Outputs
      <4> QED BY <1>5, <3>1, <4>1 DEF OutputsNew, NewToken
    <3>2. CASE "artifact" \notin Outputs(content)
      <4>1. file[d]["artifact"] = content.base["artifact"]
        BY <1>5, <3>2 DEF SourcesUnchanged, Sources, File
      <4>2. content.command \in {"complete", "adopt"}
        BY <3>2 DEF Outputs, Content, Command, File
      <4>3. content.command = "complete" => content.base["artifact"] = token[d]
        BY <2>4 DEF Known
      <4> QED BY <3>2, <4>1, <4>2, <4>3 DEF NewToken
    <3> QED BY <3>1, <3>2
  <2>21. DraftInv(d)'
    <3>1. DraftInv(d)
      BY DraftByDraft DEF JournalInv, DiskInv
    <3>2. \A i \in DOMAIN log'[d] :
            \/ i \in DOMAIN log[d] /\ log'[d][i] = log[d][i] /\ log[d][i] # o
            \/ i = Len(log[d]) + 1 /\ log'[d][i] = o
      BY <2>4, <2>5, <2>6, Appended DEF Mutations
    <3>3. \A i, j \in DOMAIN log'[d] : log'[d][i] = log'[d][j] => i = j
      BY <3>1, <3>2 DEF DraftInv
    <3>4. \A m \in Edit : \A i \in DOMAIN log'[d] :
            log'[d][i] = m => sent'[m] # NONE /\ sent'[m].draft = d /\ i = sent'[m].expected + 1
      <4> SUFFICES ASSUME NEW m \in Edit, NEW i \in DOMAIN log'[d], log'[d][i] = m
                   PROVE  sent[m] # NONE /\ sent[m].draft = d /\ i = sent[m].expected + 1
        BY <1>3
      <4>1. m # o
        BY JournalAssumption
      <4> QED BY <3>1, <3>2, <4>1 DEF DraftInv
    <3>5. \A u \in Op : Unresolved(d, u)' => u = o
      BY <2>4, <2>13
    <3>6. o \in Mutations(d)' /\ log'[d][Len(log'[d])] = o
      BY <2>5, <2>6, <2>12, <2>14, Appended
    <3>7. \A u \in Op : u \in Mutations(d)' => phase'[d][u] # "none"
      BY <1>3, <2>4, <2>14, <3>1 DEF DraftInv, Unresolved
    <3>8. \A u \in Op : phase'[d][u] # "none" => Known(d, intent[d][u])'
      <4> SUFFICES ASSUME NEW u \in Op, phase'[d][u] # "none" PROVE Known(d, intent[d][u])'
        OBVIOUS
      <4>1. PICK c \in Content : c = intent[d][u]
        BY <1>3 DEF JournalInv, Types, Intents
      <4>2. Known(d, c)'
        BY <1>3, <2>15, <3>1, <4>1 DEF DraftInv
      <4> QED BY <1>3, <4>1, <4>2
    <3>9. linked'[d] /\ file'[d]["artifact"] = token'[d]
      BY <1>3, <2>9, <2>19, <2>20, <3>1 DEF DraftInv
    <3> QED BY <1>3, <3>1, <3>3, <3>4, <3>5, <3>6, <3>7, <3>8, <3>9 DEF DraftInv
  <2> QED BY <1>3, <2>2, <2>3, <2>4, <2>10, <2>11, <2>12, <2>17, <2>18, <2>21, WorkerKeeps
<1> QED BY <1>4, <1>5

-----------------------------------------------------------------------------
(* Steps that take no identity *)

LEMMA SendKeeps ==
  JournalInv /\ (\E m \in Edit, d \in Draft : Send(m, d)) => JournalInv'
<1> SUFFICES ASSUME JournalInv, NEW m \in Edit, NEW d \in Draft, Send(m, d) PROVE JournalInv'
  OBVIOUS
<1>1. UNCHANGED <<log, token, file, linked, phase, intent, proc, edited, crashes, saves>>
  BY DEF Send, disk, bounds
<1>2. /\ sent[m] = NONE /\ Exists(d)
      /\ sent' = [sent EXCEPT ![m] = [draft |-> d, expected |-> Len(log[d])]]
  BY DEF Send
<1>3. Len(log[d]) \in Nat
  BY DEF JournalInv, Types, Disk
<1>4. Others'
  BY <1>1, <1>2, <1>3 DEF JournalInv, Types, Others
<1>5. Types'
  BY <1>1, <1>4 DEF JournalInv, Types, Disk, Intents, Procs
<1>6. Exclusive'
  BY <1>1 DEF JournalInv, Exclusive, HoldsDraft, HoldsIdentity
<1>7. \A e \in Draft : DraftSame(e)
  BY <1>1 DEF DraftSame
<1>8. Processes'
  BY <1>1, <1>7, FitStays DEF JournalInv, Processes
<1>9. \A n \in Edit : sent[n] # NONE => sent'[n] = sent[n]
  BY <1>2 DEF JournalInv, Types, Others
<1>10. sent'[m].draft = d
  BY <1>2 DEF JournalInv, Types, Others
<1>11. \A n \in Edit \ {m} : sent'[n] = sent[n]
  BY <1>2 DEF JournalInv, Types, Others
<1>12. Placed'
  BY <1>1, <1>2, <1>9, <1>10, <1>11 DEF JournalInv, Placed, Exists
<1>13. OneDraftPerOperation' /\ AppliedOnce'
  BY <1>1 DEF JournalInv, OneDraftPerOperation, AppliedOnce
<1>14. PendingIsCurrent' /\ Journalled' /\ Matched'
  BY <1>1, <1>7, SameDraft DEF JournalInv, PendingIsCurrent, Journalled, Matched
<1> QED BY <1>5, <1>6, <1>8, <1>12, <1>13, <1>14 DEF JournalInv

LEMMA UpdateKeeps ==
  JournalInv /\ (\E p \in Process, m \in Edit : Update(p, m)) => JournalInv'
<1> SUFFICES ASSUME JournalInv, NEW p \in Process, NEW m \in Edit, Update(p, m)
             PROVE  JournalInv'
  OBVIOUS
<1>1. UNCHANGED <<token, file, linked, phase, intent, sent, proc, edited, crashes, saves>>
  BY DEF Update, bounds
<1>2. PICK d \in Draft : d = sent[m].draft /\ sent[m] # NONE
  BY DEF Update, JournalInv, Types, Others
<1>3. /\ DraftFree(d) /\ Settled(d) /\ Len(log[d]) = sent[m].expected
      /\ log' = [log EXCEPT ![d] = Append(@, m)]
  BY <1>2 DEF Update, SaveIsCurrent
<1> DEFINE S == Op \cup Edit \cup {"created"}
<1>4. log[d] \in Seq(S) /\ log \in [Draft -> Seq(S)] /\ m \in S
  BY DEF JournalInv, Types, Disk
<1> HIDE DEF S
<1>5. log'[d] = Append(log[d], m) /\ log' \in [Draft -> Seq(S)]
  BY <1>3, <1>4, Appended
<1>6. Types'
  BY <1>1, <1>5 DEF JournalInv, Types, Disk, Intents, Others, Procs, S
<1>7. Exclusive'
  BY <1>1 DEF JournalInv, Exclusive, HoldsDraft, HoldsIdentity
<1>8. \A e \in Draft \ {d} : DraftSame(e)
  BY <1>1, <1>3, <1>4 DEF DraftSame
<1>9. Grows(d) /\ Len(log'[d]) = Len(log[d]) + 1 /\ Len(log[d]) \in Nat
  BY <1>1, <1>4, <1>5, Appended DEF Grows, S
<1>10. ASSUME NEW q \in Process PROVE Fits(q)'
  <2>1. proc'[q] = proc[q] /\ Fits(q)
    BY <1>1 DEF JournalInv, Processes
  <2>2. CASE proc[q].draft # d
    <3>1. proc[q].draft \in Draft => DraftSame(proc[q].draft)
      BY <1>8, <2>2
    <3> QED BY <1>1, <2>1, <3>1, FitStays DEF JournalInv
  <2>3. CASE proc[q].draft = d
    <3>1. proc[q].at \notin Acting
      BY <1>3, <2>3 DEF DraftFree, HoldsDraft
    <3>2. ASSUME proc[q].at = "enter" PROVE Known(d, proc[q].content)'
      <4>1. PICK content \in Content : content = proc[q].content
        BY <3>2, Working DEF JournalInv
      <4>2. Known(d, content)'
        BY <1>9, <2>1, <2>3, <3>2, <4>1, StillKnown DEF Fits
      <4> QED BY <2>1, <4>1, <4>2
    <3>3. proc[q].at = "write" => Writes(q)'
      BY <1>1, <2>1 DEF Fits, Writes, Pending, PendingBut, Unresolved
    <3>4. Holds(q)'
      BY <2>1 DEF Fits, Holds
    <3> QED BY <2>1, <2>3, <3>1, <3>2, <3>3, <3>4 DEF Fits
  <2> QED BY <2>2, <2>3
<1>11. \A u \in Op : ~Unresolved(d, u) /\ ~Unresolved(d, u)'
  BY <1>1, <1>3, JournalAssumption DEF Settled, Pending, PendingBut, Unresolved
<1>12. DraftInv(d)'
  <2>1. DraftInv(d) /\ Exists(d)
    BY <1>2, DraftByDraft DEF JournalInv, DiskInv, Placed
  <2>2. \A i \in DOMAIN log'[d] :
          \/ i \in DOMAIN log[d] /\ log'[d][i] = log[d][i] /\ i <= Len(log[d])
          \/ i = Len(log[d]) + 1 /\ log'[d][i] = m
    BY <1>4, <1>5, Appended
  <2>3. \A i \in DOMAIN log[d] : log[d][i] # m
    <3> SUFFICES ASSUME NEW i \in DOMAIN log[d], log[d][i] = m PROVE FALSE
      OBVIOUS
    <3>1. i = sent[m].expected + 1
      BY <2>1 DEF DraftInv
    <3>2. i <= Len(log[d])
      BY <1>4
    <3> QED BY <1>3, <1>9, <3>1, <3>2
  <2>4. \A i, j \in DOMAIN log'[d] : log'[d][i] = log'[d][j] => i = j
    BY <2>1, <2>2, <2>3 DEF DraftInv
  <2>5. \A n \in Edit : \A i \in DOMAIN log'[d] :
          log'[d][i] = n => sent'[n] # NONE /\ sent'[n].draft = d /\ i = sent'[n].expected + 1
    BY <1>1, <1>2, <1>3, <2>1, <2>2 DEF DraftInv
  <2>6. \A u \in Op : u \in Mutations(d)' => u \in Mutations(d)
    <3> SUFFICES ASSUME NEW u \in Op, u \in Mutations(d)' PROVE u \in Mutations(d)
      OBVIOUS
    <3>1. PICK i \in DOMAIN log'[d] : log'[d][i] = u
      BY DEF Mutations
    <3>2. u # m
      BY JournalAssumption
    <3> QED BY <2>2, <3>1, <3>2 DEF Mutations
  <2>7. \A u \in Op : phase'[d][u] # "none" => Known(d, intent[d][u])'
    <3> SUFFICES ASSUME NEW u \in Op, phase'[d][u] # "none" PROVE Known(d, intent[d][u])'
      OBVIOUS
    <3>1. PICK c \in Content : c = intent[d][u]
      BY <1>1 DEF JournalInv, Types, Intents
    <3>2. Known(d, c)'
      BY <1>1, <1>9, <2>1, <3>1, StillKnown DEF DraftInv
    <3> QED BY <1>1, <3>1, <3>2
  <2>8. /\ linked[d]
        /\ <<d, "artifact">> \notin edited => file[d]["artifact"] = token[d]
    BY <1>11, <2>1 DEF DraftInv, Promised
  <2> QED BY <1>1, <1>11, <2>1, <2>4, <2>5, <2>6, <2>7, <2>8 DEF DraftInv
<1>13. ASSUME NEW e \in Draft PROVE DraftInv(e)'
  BY <1>1, <1>8, <1>12, DraftByDraft, SameDraftInv DEF JournalInv, DiskInv
<1>14. ASSUME NEW n \in Edit, sent'[n] # NONE PROVE Exists(sent[n].draft)'
  <2>1. sent'[n] = sent[n] /\ sent[n].draft \in Draft /\ Exists(sent[n].draft)
    BY <1>1, <1>14 DEF JournalInv, Placed, Types, Others
  <2>2. Exists(d)'
    BY <1>9 DEF Exists
  <2> QED BY <1>8, <2>1, <2>2 DEF DraftSame, Exists
<1>15. DiskInv'
  BY <1>13, <1>14, DraftByDraftNext
<1>16. OneDraftPerOperation'
  BY <1>1 DEF JournalInv, OneDraftPerOperation
<1> QED BY <1>6, <1>7, <1>10, <1>15, <1>16 DEF JournalInv, DiskInv, Processes

LEMMA SaveWriteKeeps == JournalInv /\ (\E p \in Process : SaveWrite(p)) => JournalInv'
<1> SUFFICES ASSUME JournalInv, NEW p \in Process, SaveWrite(p) PROVE JournalInv'
  OBVIOUS
<1>1. proc[p].at = "write" /\ UNCHANGED <<log, token, phase, intent, sent, edited, crashes, saves>>
  BY DEF SaveWrite, bounds
<1>2. PICK d \in Draft : d = proc[p].draft
  BY <1>1 DEF JournalInv, Types, Procs, Bound, Saving
<1>3. /\ file' = [file EXCEPT ![d]["manifest"] = "saved"]
      /\ linked' = [linked EXCEPT ![d] = proc[p].carries]
      /\ Leave(p)
  BY <1>2 DEF SaveWrite
<1>4. Procs' /\ proc'[p] = [Idle EXCEPT !.todo = proc[p].todo] /\ OthersStay(p)
  BY <1>3, Leaves DEF JournalInv, Types, OthersStay
<1>5. proc'[p].at = "idle" /\ proc'[p].held = {}
  BY <1>4 DEF Idle
<1>6. Writes(p) /\ proc[p].held = {"manifest"} /\ proc[p].carries \in BOOLEAN
  BY <1>1 DEF JournalInv, Processes, Fits, Holds, Types, Procs, ProcState
<1>7. /\ file'[d]["manifest"] = "saved" /\ file'[d]["artifact"] = file[d]["artifact"]
      /\ linked'[d] = proc[p].carries
  BY <1>3 DEF JournalInv, Types, Disk, File
<1>8. \A e \in Draft \ {d} : DraftSame(e)
  BY <1>1, <1>3 DEF DraftSame, JournalInv, Types, Disk
<1>9. Types'
  <2>1. file' \in [Draft -> [File -> Value]]
    BY <1>3 DEF JournalInv, Types, Disk, Value, File
  <2>2. linked' \in [Draft -> BOOLEAN]
    BY <1>3, <1>6 DEF JournalInv, Types, Disk
  <2> QED BY <1>1, <1>4, <2>1, <2>2 DEF JournalInv, Types, Disk, Intents, Others
<1>10. Fits(p)' /\ TakesFree(p)
  BY <1>5, WithoutLocks DEF Fits
<1>11. Exclusive'
  BY <1>4, <1>10, OneLocation DEF TakesFree, JournalInv, Types
<1>12. \A u \in Op : Unresolved(d, u)' <=> Unresolved(d, u)
  BY <1>1 DEF Unresolved
<1>13. \A u \in Op : ~Unresolved(d, u)
  BY <1>2, <1>6, JournalAssumption DEF Writes, Pending, PendingBut
<1>14. Mutations(d)' = Mutations(d) /\ (\A c : Known(d, c)' <=> Known(d, c))
  BY <1>1 DEF Mutations, Known
<1>15. ASSUME NEW q \in Process, q # p PROVE Fits(q)'
  <2>1. proc'[q] = proc[q] /\ Fits(q)
    BY <1>4, <1>15 DEF OthersStay, JournalInv, Processes
  <2>2. CASE proc[q].draft # d
    <3>1. proc[q].draft \in Draft => DraftSame(proc[q].draft)
      BY <1>8, <2>2
    <3> QED BY <1>1, <2>1, <3>1, FitStays DEF JournalInv
  <2>3. CASE proc[q].draft = d
    <3>1. "manifest" \notin proc[q].held
      BY <1>2, <1>6, <1>15, <2>3 DEF JournalInv, Exclusive
    <3>2. proc[q].at # "write" /\ proc[q].at \notin Writing
      BY <2>1, <3>1 DEF Fits, Holds, File
    <3>3. proc[q].at # "replace"
      BY <3>2 DEF Writing
    <3>4. ~PendingBut(d, proc[q].op)'
      BY <1>12, <1>13 DEF PendingBut
    <3>5. proc[q].at \in Acting => Acts(q)'
      BY <1>1, <1>14, <2>1, <2>3, <3>3, <3>4 DEF Fits, Acts
    <3>6. Holds(q)'
      BY <2>1 DEF Fits, Holds
    <3> QED BY <1>14, <2>1, <2>3, <3>2, <3>5, <3>6 DEF Fits
  <2> QED BY <2>2, <2>3
<1>16. DraftInv(d)'
  <2>1. DraftInv(d)
    BY DraftByDraft DEF JournalInv, DiskInv
  <2>2. "saved" \notin Op
    BY JournalAssumption
  <2>3. \A f \in File : file'[d][f] \in Op => phase'[d][file'[d][f]] # "none"
    BY <1>1, <1>7, <2>1, <2>2 DEF DraftInv, File
  <2>4. Exists(d) => linked'[d]
    BY <1>2, <1>6, <1>7, <1>13, <2>1 DEF DraftInv, Writes, Promised
  <2>5. \A u \in Op : ~Promised(d, u)
    BY <1>13 DEF Promised
  <2> QED BY <1>1, <1>7, <1>12, <1>13, <1>14, <2>1, <2>2, <2>3, <2>4, <2>5 DEF DraftInv, Exists
<1>17. ASSUME NEW e \in Draft PROVE DraftInv(e)'
  BY <1>1, <1>8, <1>16, DraftByDraft, SameDraftInv DEF JournalInv, DiskInv
<1>18. DiskInv'
  <2>1. \A m \in Edit : sent'[m] # NONE => Exists(sent[m].draft)'
    BY <1>1 DEF JournalInv, Placed, Exists
  <2> QED BY <1>17, <2>1, DraftByDraftNext
<1>19. OneDraftPerOperation'
  BY <1>1 DEF JournalInv, OneDraftPerOperation
<1> QED BY <1>9, <1>10, <1>11, <1>15, <1>18, <1>19 DEF JournalInv, DiskInv, Processes

LEMMA OutsideKeeps ==
  JournalInv /\ (\E d \in Draft, f \in File : Outside(d, f)) => JournalInv'
<1> SUFFICES ASSUME JournalInv, NEW d \in Draft, NEW f \in File, Outside(d, f) PROVE JournalInv'
  OBVIOUS
<1>1. /\ UNCHANGED <<log, token, linked, phase, intent, sent, proc, crashes, saves>>
      /\ file' = [file EXCEPT ![d][f] = "outside"]
      /\ edited' = edited \cup {<<d, f>>} /\ <<d, f>> \in Touchable
  BY DEF Outside
<1>2. /\ file'[d][f] = "outside" /\ \A g \in File \ {f} : file'[d][g] = file[d][g]
      /\ \A e \in Draft \ {d} : file'[e] = file[e]
  BY <1>1 DEF JournalInv, Types, Disk
<1>3. Types'
  <2>1. file' \in [Draft -> [File -> Value]]
    BY <1>1 DEF JournalInv, Types, Disk, Value
  <2> QED BY <1>1, <2>1 DEF JournalInv, Types, Disk, Intents, Others, Procs
<1>4. Exclusive'
  BY <1>1 DEF JournalInv, Exclusive, HoldsDraft, HoldsIdentity
<1>5. /\ \A e \in Draft : \A o : PendingBut(e, o)' <=> PendingBut(e, o)
      /\ \A e \in Draft : Mutations(e)' = Mutations(e)
      /\ \A e \in Draft : Pending(e)' <=> Pending(e)
      /\ \A e \in Draft : \A c : Known(e, c)' <=> Known(e, c)
      /\ \A e \in Draft, o \in Op : Promised(e, o)' <=> Promised(e, o)
  BY <1>1 DEF Pending, PendingBut, Promised, Unresolved, Mutations, Known
<1>6. ASSUME NEW q \in Process PROVE Fits(q)'
  <2>1. proc'[q] = proc[q] /\ Fits(q)
    BY <1>1 DEF JournalInv, Processes
  <2>2. Holds(q)'
    BY <2>1 DEF Fits, Holds
  <2>3. CASE proc[q].at \in Acting
    <3>1. proc[q].draft \in Draft /\ Acts(q) /\ proc[q].left \in SUBSET File
      BY <2>1, <2>3, Working DEF JournalInv, Fits, Types, Procs, ProcState
    <3>2. \A g \in File : file'[proc[q].draft][g] \in {file[proc[q].draft][g], "outside"}
      BY <1>2, <3>1
    <3>3. Acts(q)'
      BY <1>1, <1>5, <2>1, <3>1, <3>2 DEF Acts
    <3> QED BY <1>5, <2>1, <2>2, <2>3, <3>1, <3>3 DEF Fits, Acting
  <2>4. CASE proc[q].at \notin Acting
    <3>1. proc[q].at \in {"enter", "write"} => proc[q].draft \in Draft
      BY <1>1 DEF JournalInv, Types, Procs, Bound, Saving
    <3>2. proc[q].at = "write" => Writes(q)'
      BY <1>1, <1>5, <2>1, <3>1 DEF Fits, Writes
    <3> QED BY <1>5, <2>1, <2>2, <2>4, <3>1, <3>2 DEF Fits
  <2> QED BY <2>3, <2>4
<1>7. PendingIsCurrent' /\ AppliedOnce' /\ OneDraftPerOperation' /\ Placed'
  BY <1>1, <1>5 DEF JournalInv, PendingIsCurrent, AppliedOnce, OneDraftPerOperation, Placed,
                    Unresolved, Exists
<1>8. "outside" \notin Op
  BY JournalAssumption
<1>9. Journalled'
  <2>1. \A e \in Draft, g \in File : file'[e][g] \in Op => file'[e][g] = file[e][g]
    BY <1>2, <1>8
  <2> QED BY <1>1, <1>5, <2>1 DEF JournalInv, Journalled
<1>10. Matched'
  <2>1. \A e \in Draft : file'[e]["manifest"] \in Op => file'[e]["manifest"] = file[e]["manifest"]
    BY <1>2, <1>8 DEF File
  <2>2. \A e \in Draft : <<e, "artifact">> \notin edited' =>
          <<e, "artifact">> \notin edited /\ file'[e]["artifact"] = file[e]["artifact"]
    BY <1>1, <1>2 DEF File
  <2> QED BY <1>1, <1>5, <2>1, <2>2 DEF JournalInv, Matched, Exists
<1> QED BY <1>3, <1>4, <1>6, <1>7, <1>9, <1>10 DEF JournalInv, Processes

-----------------------------------------------------------------------------
(* The theorems *)

LEMMA InitInv == Init => JournalInv
<1> SUFFICES ASSUME Init PROVE JournalInv
  OBVIOUS
<1>1. Types
  BY InitTypes
<1>2. \A p \in Process : proc[p] = Idle
  BY DEF Init
<1>3. \A p \in Process : proc[p].at = "idle" /\ proc[p].held = {}
  BY <1>2 DEF Idle
<1>4. Exclusive
  BY <1>3 DEF Exclusive, HoldsDraft, HoldsIdentity, Acting, Saving, Identified
<1>5. Processes
  BY <1>3 DEF Processes, Fits, Holds, Acting, Writing
<1>6. \A d \in Draft, o \in Op : phase[d][o] = "none"
  BY DEF Init
<1>7. OneDraftPerOperation /\ PendingIsCurrent
  BY <1>6 DEF OneDraftPerOperation, PendingIsCurrent, Unresolved
<1>8. \A d \in Draft : \A i \in DOMAIN log[d] : i = 1 /\ log[d][i] = "created"
  BY DEF Init
<1>9. AppliedOnce /\ Placed
  BY <1>8, JournalAssumption DEF Init, AppliedOnce, Placed
<1>10. \A d \in Draft, f \in File : file[d][f] \notin Op
  BY JournalAssumption DEF Init
<1>11. Journalled
  BY <1>6, <1>8, <1>10, JournalAssumption DEF Journalled, Mutations
<1>12. ASSUME NEW d \in Draft
       PROVE  Exists(d) => linked[d] /\ file[d]["artifact"] = token[d]
  <2>1. Exists(d) => d \in Managed
    BY DEF Init, Exists
  <2>2. d \in Managed => linked[d] /\ token[d] = "initial" /\ file[d]["artifact"] = "initial"
    BY DEF Init, File
  <2> QED BY <2>1, <2>2
<1>13. Matched
  BY <1>10, <1>12 DEF Matched, File
<1> QED BY <1>1, <1>4, <1>5, <1>7, <1>9, <1>11, <1>13 DEF JournalInv

LEMMA UnchangedKeeps == JournalInv /\ UNCHANGED vars => JournalInv'
<1> SUFFICES ASSUME JournalInv, UNCHANGED vars PROVE JournalInv'
  OBVIOUS
<1>1. UNCHANGED <<log, token, file, linked, phase, intent, sent, proc, edited, crashes, saves>>
  BY DEF vars
<1>2. \A d \in Draft : DraftSame(d)
  BY <1>1 DEF DraftSame
<1>3. Types'
  BY <1>1 DEF JournalInv, Types, Disk, Intents, Others, Procs
<1>4. Exclusive'
  BY <1>1 DEF JournalInv, Exclusive, HoldsDraft, HoldsIdentity
<1>5. Processes'
  BY <1>1, <1>2, FitStays DEF JournalInv, Processes
<1>6. OneDraftPerOperation' /\ AppliedOnce' /\ Placed'
  BY <1>1 DEF JournalInv, OneDraftPerOperation, AppliedOnce, Placed, Exists
<1>7. PendingIsCurrent' /\ Journalled' /\ Matched'
  BY <1>1, <1>2, SameDraft DEF JournalInv, PendingIsCurrent, Journalled, Matched
<1> QED BY <1>3, <1>4, <1>5, <1>6, <1>7 DEF JournalInv

LEMMA StepKeeps == JournalInv /\ [Next]_vars => JournalInv'
<1> SUFFICES ASSUME JournalInv, [Next]_vars PROVE JournalInv'
  OBVIOUS
<1>1. ASSUME NEW p \in Process, Step(p) PROVE JournalInv'
  BY <1>1, EnterKeeps, IdentifyKeeps, LockPathKeeps, PrepareKeeps, CheckKeeps, ReplaceKeeps,
     MarkWrittenKeeps, CommitKeeps, FinishKeeps, SaveGuardKeeps, SaveOpenKeeps,
     SaveValidateKeeps, SaveWriteKeeps DEF Step
<1>2. ASSUME NEW p \in Process, Call(p) PROVE JournalInv'
  BY <1>2, SaveReadKeeps, RepeatKeeps, BuildKeeps, UpdateKeeps DEF Call
<1>3. ASSUME NEW p \in Process, Recover(p) \/ Restart(p) \/ Crash(p) PROVE JournalInv'
  BY <1>3, RecoverKeeps, RestartKeeps, CrashKeeps
<1>4. ASSUME NEW d \in Draft, (\E m \in Edit : Send(m, d)) \/ (\E f \in File : Outside(d, f))
      PROVE  JournalInv'
  BY <1>4, SendKeeps, OutsideKeeps
<1> QED BY <1>1, <1>2, <1>3, <1>4, UnchangedKeeps DEF Next

\* Every reachable state satisfies the inductive invariant: the locks exclude, each
\* process's knowledge is true, and the record, the journals and the files agree.
THEOREM JournalInvHolds == Spec => []JournalInv
<1>1. Init => JournalInv
  BY InitInv
<1>2. JournalInv /\ [Next]_vars => JournalInv'
  BY StepKeeps
<1> QED BY <1>1, <1>2, PTL DEF Spec

\* Every reachable state is well typed.
THEOREM TypeCorrect == Spec => []TypeOK
<1>1. JournalInv => TypeOK
  BY TypesAreOK DEF JournalInv
<1> QED BY <1>1, JournalInvHolds, PTL

\* However many processes retry it at once, an operation belongs to one draft.
THEOREM OneDraft == Spec => []OneDraftPerOperation
<1>1. JournalInv => OneDraftPerOperation
  BY DEF JournalInv
<1> QED BY <1>1, JournalInvHolds, PTL

\* An unresolved operation is alone on its draft and can still be carried out, after
\* whatever crashes, repeats and saves.
THEOREM PendingStaysCurrent == Spec => []PendingIsCurrent
<1>1. JournalInv => PendingIsCurrent
  BY DEF JournalInv
<1> QED BY <1>1, JournalInvHolds, PTL

\* No save and no operation is applied twice, although only MaxReceipts of them are
\* remembered.
THEOREM NothingAppliedTwice == Spec => []AppliedOnce
<1>1. JournalInv => AppliedOnce
  BY DEF JournalInv
<1> QED BY <1>1, JournalInvHolds, PTL

\* Unless an operation is unresolved, the run of a draft names it and holds the artifact
\* its record means.
THEOREM FilesMatchRecord == Spec => []RecordMatchesFiles
<1>1. ASSUME JournalInv PROVE RecordMatchesFiles
  <2> SUFFICES ASSUME NEW d \in Draft, Exists(d), ~Pending(d)
               PROVE  /\ linked[d]
                      /\ <<d, "artifact">> \notin edited => file[d]["artifact"] = token[d]
    BY DEF RecordMatchesFiles
  <2>1. \A o \in Op : ~Promised(d, o)
    BY JournalAssumption DEF Pending, PendingBut, Promised
  <2> QED BY <1>1, <2>1 DEF JournalInv, Matched
<1> QED BY <1>1, JournalInvHolds, PTL

-----------------------------------------------------------------------------
(* What a step may never do *)

LEMMA OnlyReplace ==
  ASSUME JournalInv, Next, NEW p \in Process, proc[p].at = "replace", proc'[p].at = "check"
  PROVE  Replace(p)
<1> USE DEF JournalInv, Types, Procs
<1>1. ASSUME NEW q \in Process, Step(q) PROVE Replace(p)
  <2>1. CASE q = p
    BY <1>1, <2>1 DEF Step, Enter, Identify, LockPath, Prepare, Check, MarkWritten, Commit,
       Finish, SaveGuard, SaveOpen, SaveValidate, SaveWrite
  <2>2. CASE q # p
    <3>1. proc'[p] = proc[p]
      BY <1>1, <2>2 DEF Step, Enter, Identify, LockPath, Prepare, Check, Replace, MarkWritten,
         Commit, Finish, SaveGuard, SaveOpen, SaveValidate, SaveWrite, Goto, Leave
    <3> QED BY <3>1
  <2> QED BY <2>1, <2>2
<1>2. ASSUME NEW q \in Process, Call(q) PROVE Replace(p)
  <2>1. proc'[p] = proc[p] \/ p = q
    BY <1>2 DEF Call, SaveRead, Repeat, Build, Update, Execute
  <2>2. p = q => proc[p].at = "idle"
    BY <1>2 DEF Call, SaveRead, Repeat, Build, Update, Free
  <2> QED BY <2>1, <2>2
<1>3. ASSUME NEW q \in Process, Recover(q) \/ Restart(q) \/ Crash(q) PROVE Replace(p)
  <2>1. CASE q # p
    <3>1. proc'[p] = proc[p]
      BY <1>3, <2>1 DEF Recover, Restart, Crash
    <3> QED BY <3>1
  <2>2. CASE q = p
    <3>1. Crash(p)
      BY <1>3, <2>2 DEF Recover, Restart
    <3>2. proc'[p].at = "down"
      BY <3>1 DEF Crash, Idle
    <3> QED BY <3>2
  <2> QED BY <2>1, <2>2
<1>4. ASSUME NEW d \in Draft, (\E m \in Edit : Send(m, d)) \/ (\E f \in File : Outside(d, f))
      PROVE  Replace(p)
  BY <1>4 DEF Send, Outside
<1> QED BY <1>1, <1>2, <1>3, <1>4 DEF Next

\* An operation replaces what it read, or what somebody changed without a lock, and
\* never what the program wrote after the operation was built.
THEOREM NothingOverwrittenUnseen == Spec => NoUnseenOverwrite
<1> DEFINE Sees == \A p \in Process : proc[p].at = "replace" /\ proc'[p].at = "check" =>
       \A f \in File : LET d == proc[p].draft IN
         file'[d][f] # file[d][f] => file[d][f] \in {proc[p].content.base[f], "outside"}
<1>1. ASSUME JournalInv, [Next]_vars PROVE Sees
  <2> SUFFICES ASSUME NEW p \in Process, proc[p].at = "replace", proc'[p].at = "check",
                      NEW f \in File, file'[proc[p].draft][f] # file[proc[p].draft][f]
               PROVE  file[proc[p].draft][f] \in {proc[p].content.base[f], "outside"}
    BY DEF Sees
  <2>1. proc' # proc
    OBVIOUS
  <2>2. Replace(p)
    BY <1>1, <2>1, OnlyReplace DEF vars
  <2>3. PICK g \in proc[p].left : file' = [file EXCEPT ![proc[p].draft][g] = proc[p].op]
    BY <2>2 DEF Replace
  <2>4. proc[p].draft \in Draft /\ Acts(p)
    BY <1>1, Working DEF JournalInv, Processes, Fits, Acting
  <2>5. f = g
    BY <1>1, <2>3, <2>4 DEF JournalInv, Types, Disk
  <2> QED BY <2>3, <2>4, <2>5 DEF Acts
<1>2. Sees => [Sees]_vars
  OBVIOUS
<1>3. [][Sees]_vars => NoUnseenOverwrite
  BY DEF NoUnseenOverwrite
<1> QED BY <1>1, <1>2, <1>3, JournalInvHolds, PTL DEF Spec

-----------------------------------------------------------------------------
(* The journal implements the store *)

storeFiles == [d \in Draft |-> Visible(d)]
storePromise == [d \in Draft |-> Promise(d)]
Stored == <<log, storeFiles, storePromise>>

Sole(d, o) == Promised(d, o) /\ \A u \in Op : Promised(d, u) => u = o

LEMMA PromiseIs ==
  ASSUME NEW d \in Draft, NEW o \in Op
  PROVE  /\ Sole(d, o) => Promise(d) = o
         /\ Sole(d, o)' => Promise(d)' = o
<1>1. ASSUME Sole(d, o) PROVE Promise(d) = o
  <2>1. \E u \in Op : Promised(d, u)
    BY <1>1 DEF Sole
  <2>2. (CHOOSE u \in Op : Promised(d, u)) \in Op /\ Promised(d, CHOOSE u \in Op : Promised(d, u))
    BY <2>1
  <2> QED BY <1>1, <2>1, <2>2 DEF Sole, Promise
<1>2. ASSUME Sole(d, o)' PROVE Promise(d)' = o
  <2>1. \E u \in Op : Promised(d, u)'
    BY <1>2 DEF Sole
  <2>2. /\ (CHOOSE u \in Op : Promised(d, u)') \in Op
        /\ \A u \in Op : u = (CHOOSE w \in Op : Promised(d, w)') => Promised(d, u)'
    BY <2>1
  <2> QED BY <1>2, <2>1, <2>2 DEF Sole, Promise
<1> QED BY <1>1, <1>2

LEMMA NoPromise ==
  ASSUME NEW d \in Draft
  PROVE  /\ (\A o \in Op : ~Promised(d, o)) => Promise(d) = NONE
         /\ (\A o \in Op : ~Promised(d, o)') => Promise(d)' = NONE
BY DEF Promise

\* A draft that is promised nothing, or one operation.
LEMMA PromisesOf ==
  ASSUME JournalInv, NEW d \in Draft
  PROVE  (\A o \in Op : ~Promised(d, o)) \/ (\E o \in Op : Sole(d, o))
BY DEF JournalInv, PendingIsCurrent, PendingBut, Promised, Sole

LEMMA SamePromise ==
  ASSUME JournalInv, NEW d \in Draft, \A o \in Op : Promised(d, o)' <=> Promised(d, o)
  PROVE  Promise(d)' = Promise(d)
<1>1. CASE \A o \in Op : ~Promised(d, o)
  BY <1>1, NoPromise
<1>2. CASE \E o \in Op : Sole(d, o)
  <2>1. PICK o \in Op : Sole(d, o)
    BY <1>2
  <2>2. Sole(d, o)'
    BY <2>1 DEF Sole
  <2> QED BY <2>1, <2>2, PromiseIs
<1> QED BY <1>1, <1>2, PromisesOf

LEMMA SameVisible ==
  ASSUME NEW d \in Draft, Promise(d)' = Promise(d), file'[d] = file[d], intent'[d] = intent[d]
  PROVE  Visible(d)' = Visible(d)
BY DEF Visible

LEMMA SameStored ==
  ASSUME JournalInv, NEW d \in Draft, DraftSame(d)
  PROVE  Promise(d)' = Promise(d) /\ Visible(d)' = Visible(d)
<1>1. \A o \in Op : Promised(d, o)' <=> Promised(d, o)
  BY SameDraft
<1> QED BY <1>1, SamePromise, SameVisible DEF DraftSame

LEMMA StoreStutters ==
  ASSUME log' = log, \A d \in Draft : Promise(d)' = Promise(d) /\ Visible(d)' = Visible(d)
  PROVE  UNCHANGED Stored
BY DEF Stored, storeFiles, storePromise

LEMMA QuietStore ==
  ASSUME JournalInv, UNCHANGED disk
  PROVE  UNCHANGED Stored
<1>1. log' = log /\ \A d \in Draft : DraftSame(d)
  BY DEF disk, DraftSame
<1> QED BY <1>1, SameStored, StoreStutters

\* What a promised draft shows.
LEMMA Shown ==
  ASSUME NEW d \in Draft, NEW o \in Op
  PROVE  /\ Sole(d, o) =>
              Visible(d) = [f \in File |-> IF file[d][f] = o THEN intent[d][o].base[f] ELSE file[d][f]]
         /\ Sole(d, o)' =>
              Visible(d)' = [f \in File |-> IF file'[d][f] = o THEN intent'[d][o].base[f] ELSE file'[d][f]]
BY PromiseIs, JournalAssumption DEF Visible

LEMMA ShownPlain ==
  ASSUME NEW d \in Draft
  PROVE  /\ (\A o \in Op : ~Promised(d, o)) => Visible(d) = [f \in File |-> file[d][f]]
         /\ (\A o \in Op : ~Promised(d, o)') => Visible(d)' = [f \in File |-> file'[d][f]]
BY NoPromise DEF Visible

\* One draft changes.
LEMMA OneDraftChanges ==
  ASSUME JournalInv, NEW d \in Draft, \A e \in Draft \ {d} : DraftSame(e),
         NEW shown, Visible(d)' = shown, NEW op, Promise(d)' = op
  PROVE  /\ storeFiles' = [storeFiles EXCEPT ![d] = shown]
         /\ storePromise' = [storePromise EXCEPT ![d] = op]
         /\ storeFiles[d] = Visible(d) /\ storePromise[d] = Promise(d)
<1>1. \A e \in Draft \ {d} : Visible(e)' = Visible(e) /\ Promise(e)' = Promise(e)
  BY SameStored
<1> QED BY <1>1 DEF storeFiles, storePromise

LEMMA InitStore == Init => Store!Init
<1> SUFFICES ASSUME Init PROVE Store!Init
  OBVIOUS
<1>1. \A d \in Draft, o \in Op : ~Promised(d, o)
  BY DEF Init, Promised, Unresolved
<1>2. \A d \in Draft : Promise(d) = NONE /\ Visible(d) = [f \in File |-> file[d][f]]
  BY <1>1, NoPromise, ShownPlain
<1>3. storePromise = [d \in Draft |-> NONE]
  BY <1>2 DEF storePromise
<1>4. storeFiles \in [Draft -> [File -> {"absent", "initial"}]]
  BY <1>2 DEF storeFiles, Init
<1>5. log \in [Draft -> {<<>>, <<"created">>}]
  BY DEF Init
<1> QED BY <1>3, <1>4, <1>5 DEF Store!Init, storePromise, storeFiles

LEMMA PrepareStore ==
  ASSUME JournalInv, JournalInv', NEW p \in Process, Prepare(p)
  PROVE  [Store!Next]_Stored
<1>1. proc[p].at = "prepare" /\ proc[p].at \in Acting
  BY DEF Prepare, Acting
<1>2. PICK d \in Draft, o \in Op, content \in Content :
        d = proc[p].draft /\ o = proc[p].op /\ content = proc[p].content
  BY <1>1, Working DEF JournalInv
<1>3. UNCHANGED <<log, token, file, linked>>
  BY DEF Prepare
<1>4. CASE phase[d][o] # "none"
  BY <1>2, <1>3, <1>4, QuietStore DEF Prepare, disk
<1>5. CASE phase[d][o] = "none"
  <2>1. /\ phase' = [phase EXCEPT ![d][o] = "prepared"]
        /\ intent' = [intent EXCEPT ![d][o] = content]
    BY <1>2, <1>5 DEF Prepare
  <2>2. Works(p, d, o)
    BY <1>1, <1>2 DEF Works, Identified
  <2>3. /\ \A u \in Op \ {o} : ~Unresolved(d, u)
        /\ \A e \in Draft \ {d} : phase[e][o] = "none"
        /\ o \notin Mutations(d)
    BY <1>1, <2>2, WorkerKnows
  <2>4. phase'[d][o] = "prepared" /\ Within(d, o)
    BY <1>3, <2>1 DEF JournalInv, Types, Disk, Intents, Within, DraftSame
  <2>5. \A u \in Op : ~Promised(d, u)
    BY <1>5, <2>3 DEF Promised, Unresolved
  <2>6. Sole(d, o)'
    BY <1>3, <2>3, <2>4 DEF Sole, Promised, Unresolved, Within, Mutations
  <2>7. Promise(d) = NONE /\ Promise(d)' = o /\ NONE # o
    BY <2>5, <2>6, NoPromise, PromiseIs, JournalAssumption
  <2>8. \A f \in File : file[d][f] # o
    BY <1>5 DEF JournalInv, Journalled
  <2>9. Visible(d)' = Visible(d)
    <3>1. Visible(d) = [f \in File |-> file[d][f]]
      BY <2>5, ShownPlain
    <3>2. Visible(d)' = [f \in File |-> IF file'[d][f] = o THEN intent'[d][o].base[f] ELSE file'[d][f]]
      BY <2>6, Shown
    <3> QED BY <1>3, <2>8, <3>1, <3>2
  <2>10. storeFiles' = storeFiles /\ storePromise' = [storePromise EXCEPT ![d] = o]
         /\ storePromise[d] = NONE
    <3>1. \A e \in Draft \ {d} : DraftSame(e)
      BY <2>4 DEF Within
    <3>2. /\ storeFiles' = [storeFiles EXCEPT ![d] = Visible(d)]
          /\ storePromise' = [storePromise EXCEPT ![d] = o]
          /\ storeFiles[d] = Visible(d) /\ storePromise[d] = Promise(d)
      BY <2>7, <2>9, <3>1, OneDraftChanges
    <3> QED BY <2>7, <3>2 DEF storeFiles
  <2>11. ASSUME NEW e \in Draft PROVE storePromise[e] # o /\ o \notin Mutations(e)
    <3>1. o \notin Mutations(e)
      BY <1>5, <2>3 DEF JournalInv, Journalled
    <3>2. ~Promised(e, o)
      BY <1>5, <2>3 DEF Promised, Unresolved
    <3>3. Promise(e) # o
      <4>1. CASE \A u \in Op : ~Promised(e, u)
        BY <4>1, NoPromise, JournalAssumption
      <4>2. CASE \E u \in Op : Sole(e, u)
        BY <3>2, <4>2, PromiseIs DEF Sole
      <4> QED BY <4>1, <4>2, PromisesOf
    <3> QED BY <3>1, <3>3 DEF storePromise
  <2>12. Store!Promise(d, o)
    BY <1>3, <2>10, <2>11 DEF Store!Promise, Store!Applied, Mutations, storeFiles, storePromise
  <2> QED BY <2>12 DEF Store!Next
<1> QED BY <1>4, <1>5

LEMMA ReplaceStore ==
  ASSUME JournalInv, JournalInv', NEW p \in Process, Replace(p)
  PROVE  [Store!Next]_Stored
<1>1. proc[p].at = "replace" /\ proc[p].at \in Acting
  BY DEF Replace, Acting
<1>2. PICK d \in Draft, o \in Op, content \in Content :
        d = proc[p].draft /\ o = proc[p].op /\ content = proc[p].content
  BY <1>1, Working DEF JournalInv
<1>3. UNCHANGED <<log, token, phase, intent>>
  BY DEF Replace
<1>4. PICK f \in proc[p].left :
        /\ file' = [file EXCEPT ![d][f] = o]
        /\ linked' = [linked EXCEPT ![d] = @ \/ f = "manifest"]
  BY <1>2 DEF Replace
<1>5. f \in File
  BY DEF JournalInv, Types, Procs, ProcState
<1>6. Works(p, d, o)
  BY <1>1, <1>2 DEF Works, Identified
<1>7. /\ Acts(p) /\ \A u \in Op \ {o} : ~Unresolved(d, u)
      /\ o \notin Mutations(d)
      /\ Unresolved(d, o) /\ intent[d][o] = content
  BY <1>1, <1>2, <1>6, WorkerKnows DEF Writing, Unresolved
<1>8. Sole(d, o) /\ Sole(d, o)'
  BY <1>3, <1>7 DEF Sole, Promised, Unresolved, Mutations
<1>9. Promise(d) = o /\ Promise(d)' = o /\ o # NONE
  BY <1>8, PromiseIs, JournalAssumption
<1>10. file'[d][f] = o /\ (\A g \in File \ {f} : file'[d][g] = file[d][g])
       /\ (\A e \in Draft \ {d} : DraftSame(e))
  BY <1>3, <1>4, <1>5 DEF JournalInv, Types, Disk, DraftSame
<1>11. /\ Visible(d) = [g \in File |-> IF file[d][g] = o THEN content.base[g] ELSE file[d][g]]
       /\ Visible(d)' = [g \in File |-> IF file'[d][g] = o THEN content.base[g] ELSE file'[d][g]]
  BY <1>3, <1>7, <1>8, Shown
<1>12. Visible(d)' = [Visible(d) EXCEPT ![f] = content.base[f]]
  BY <1>5, <1>10, <1>11
<1> DEFINE shown == [Visible(d) EXCEPT ![f] = content.base[f]]
<1>13. /\ storeFiles' = [storeFiles EXCEPT ![d] = shown]
       /\ storePromise' = [storePromise EXCEPT ![d] = o]
       /\ storeFiles[d] = Visible(d) /\ storePromise[d] = o
  BY <1>9, <1>10, <1>12, OneDraftChanges
<1>14. storePromise' = storePromise /\ storePromise[d] # NONE
  BY <1>9, <1>13 DEF storePromise
<1>15. CASE Visible(d)[f] = content.base[f]
  <2>1. shown = Visible(d)
    BY <1>5, <1>11, <1>15
  <2>2. storeFiles' = storeFiles
    BY <1>13, <2>1 DEF storeFiles
  <2> QED BY <1>3, <1>14, <2>2 DEF Stored
<1>16. CASE Visible(d)[f] # content.base[f]
  <2>1. Visible(d)[f] = "outside"
    <3>1. file[d][f] \in {content.base[f], "outside"}
      BY <1>1, <1>2, <1>5, <1>7 DEF Acts
    <3> QED BY <1>5, <1>11, <1>16, <3>1
  <2>2. content.base[f] \in {"absent", "initial", "saved"} \cup Op
    BY <1>5, <1>16, <2>1 DEF Content
  <2>3. storeFiles' = [storeFiles EXCEPT ![d][f] = content.base[f]]
    BY <1>13
  <2>4. storeFiles[d][f] = "outside"
    BY <1>13, <2>1
  <2>5. Store!LoseOutside(d)
    BY <1>3, <1>5, <1>14, <2>2, <2>3, <2>4 DEF Store!LoseOutside, storeFiles, storePromise
  <2> QED BY <2>5 DEF Store!Next
<1> QED BY <1>15, <1>16

LEMMA MarkStore ==
  ASSUME JournalInv, NEW p \in Process, MarkWritten(p) \/ Finish(p)
  PROVE  [Store!Next]_Stored
<1>1. proc[p].at \in {"mark", "finish"} /\ proc[p].at \in Acting
  BY DEF MarkWritten, Finish, Acting
<1>2. PICK d \in Draft, o \in Op : d = proc[p].draft /\ o = proc[p].op
  BY <1>1, Working DEF JournalInv
<1>3. UNCHANGED <<log, token, file, linked, intent>>
  BY DEF MarkWritten, Finish
<1>4. Works(p, d, o)
  BY <1>1, <1>2 DEF Works, Identified
<1>5. /\ o \in Mutations(d) <=> proc[p].at = "finish"
      /\ Unresolved(d, o)
  BY <1>1, <1>2, <1>4, WorkerKnows DEF Writing
<1>6. \/ proc[p].at = "mark" /\ phase' = [phase EXCEPT ![d][o] = "written"]
      \/ proc[p].at = "finish" /\ phase' = [phase EXCEPT ![d][o] = "committed"]
  BY <1>2 DEF MarkWritten, Finish
<1>7. \A e \in Draft \ {d} : DraftSame(e)
  BY <1>3, <1>6 DEF DraftSame, JournalInv, Types, Disk
<1>8. \A u \in Op \ {o} : phase'[d][u] = phase[d][u]
  BY <1>6 DEF JournalInv, Types, Disk
<1>9. proc[p].at = "mark" => phase'[d][o] = "written"
  BY <1>6 DEF JournalInv, Types, Disk
<1>10. Mutations(d)' = Mutations(d)
  BY <1>3 DEF Mutations
<1>11. \A u \in Op : Promised(d, u)' <=> Promised(d, u)
  BY <1>1, <1>5, <1>8, <1>9, <1>10 DEF Promised, Unresolved
<1>12. Promise(d)' = Promise(d) /\ Visible(d)' = Visible(d)
  BY <1>3, <1>11, SamePromise, SameVisible
<1>13. \A e \in Draft : Promise(e)' = Promise(e) /\ Visible(e)' = Visible(e)
  BY <1>7, <1>12, SameStored
<1> QED BY <1>3, <1>13, StoreStutters

LEMMA CommitStore ==
  ASSUME JournalInv, NEW p \in Process, Commit(p)
  PROVE  [Store!Next]_Stored
<1>1. proc[p].at = "commit" /\ proc[p].at \in Acting
  BY DEF Commit, Acting
<1>2. PICK d \in Draft, o \in Op, content \in Content :
        d = proc[p].draft /\ o = proc[p].op /\ content = proc[p].content
  BY <1>1, Working DEF JournalInv
<1>3. UNCHANGED <<file, linked, phase, intent>>
  BY DEF Commit
<1>4. CASE ~(SourcesUnchanged(d, content) /\ OutputsNew(d, o, content))
  BY <1>2, <1>3, <1>4, QuietStore DEF Commit, disk
<1>5. CASE SourcesUnchanged(d, content) /\ OutputsNew(d, o, content)
  <2>1. /\ log' = [log EXCEPT ![d] = Append(@, o)]
        /\ token' = [token EXCEPT ![d] = NewToken(d, o, content)]
    BY <1>2, <1>5 DEF Commit
  <2>2. Works(p, d, o)
    BY <1>1, <1>2 DEF Works, Identified
  <2>3. /\ \A u \in Op \ {o} : ~Unresolved(d, u)
        /\ o \notin Mutations(d) /\ Unresolved(d, o)
    BY <1>1, <1>2, <2>2, WorkerKnows DEF Writing
  <2>4. Sole(d, o)
    BY <2>3 DEF Sole, Promised
  <2>5. o \in Mutations(d)'
    <3>1. log[d] \in Seq(Op \cup Edit \cup {"created"}) /\ log'[d] = Append(log[d], o)
      BY <2>1 DEF JournalInv, Types, Disk
    <3>2. Len(log[d]) + 1 \in DOMAIN log'[d] /\ log'[d][Len(log[d]) + 1] = o
      BY <3>1, Appended
    <3> QED BY <3>2 DEF Mutations
  <2>6. \A u \in Op : ~Promised(d, u)'
    BY <1>3, <2>3, <2>5 DEF Promised, Unresolved
  <2>7. Promise(d) = o /\ Promise(d)' = NONE /\ o # NONE
    BY <2>4, <2>6, PromiseIs, NoPromise, JournalAssumption
  <2>8. /\ Visible(d) = [f \in File |-> IF file[d][f] = o THEN intent[d][o].base[f] ELSE file[d][f]]
        /\ Visible(d)' = [f \in File |-> file'[d][f]]
    BY <2>4, <2>6, Shown, ShownPlain
  <2> DEFINE outs == {f \in File : file[d][f] = o}
             shown == [f \in File |-> IF f \in outs THEN o ELSE Visible(d)[f]]
  <2>9. Visible(d)' = shown
    BY <1>3, <2>8
  <2>10. \A e \in Draft \ {d} : DraftSame(e)
    BY <1>3, <2>1 DEF DraftSame, JournalInv, Types, Disk
  <2>11. /\ storeFiles' = [storeFiles EXCEPT ![d] = shown]
         /\ storePromise' = [storePromise EXCEPT ![d] = NONE]
         /\ storeFiles[d] = Visible(d) /\ storePromise[d] = o
    BY <2>7, <2>9, <2>10, OneDraftChanges
  <2>12. storeFiles' = [storeFiles EXCEPT ![d] =
             [f \in File |-> IF f \in outs THEN storePromise[d] ELSE @[f]]]
    BY <2>11
  <2>13. outs \in SUBSET File /\ storePromise[d] # NONE
         /\ log' = [log EXCEPT ![d] = Append(@, storePromise[d])]
    BY <2>1, <2>7, <2>11
  <2> HIDE DEF outs
  <2>14. Store!Settle(d)
    BY <2>11, <2>12, <2>13 DEF Store!Settle, storeFiles, storePromise
  <2> QED BY <2>14 DEF Store!Next
<1> QED BY <1>4, <1>5

LEMMA UpdateStore ==
  ASSUME JournalInv, JournalInv', NEW p \in Process, NEW m \in Edit, Update(p, m)
  PROVE  [Store!Next]_Stored
<1>1. UNCHANGED <<token, file, linked, phase, intent, sent>>
  BY DEF Update
<1>2. PICK d \in Draft : d = sent[m].draft /\ sent[m] # NONE
  BY DEF Update, JournalInv, Types, Others
<1>3. Settled(d) /\ log' = [log EXCEPT ![d] = Append(@, m)] /\ Len(log[d]) = sent[m].expected
  BY <1>2 DEF Update, SaveIsCurrent
<1>4. \A u \in Op : ~Promised(d, u) /\ ~Promised(d, u)'
  BY <1>1, <1>3, JournalAssumption DEF Settled, Pending, PendingBut, Promised, Unresolved
<1>5. Promise(d) = NONE /\ Promise(d)' = NONE
  BY <1>4, NoPromise
<1>6. \A e \in Draft \ {d} : DraftSame(e)
  BY <1>1, <1>3 DEF DraftSame, JournalInv, Types, Disk
<1>7. \A e \in Draft : Promise(e)' = Promise(e) /\ Visible(e)' = Visible(e)
  BY <1>1, <1>5, <1>6, SameStored, SameVisible
<1>8. storeFiles' = storeFiles /\ storePromise' = storePromise /\ storePromise[d] = NONE
  BY <1>5, <1>7 DEF storeFiles, storePromise
<1>9. m \notin Mutations(d)
  <2> SUFFICES ASSUME NEW i \in DOMAIN log[d], log[d][i] = m PROVE FALSE
    BY DEF Mutations
  <2>1. i = sent[m].expected + 1
    BY DEF JournalInv, Placed
  <2>2. i <= Len(log[d]) /\ Len(log[d]) \in Nat
    BY DEF JournalInv, Types, Disk
  <2> QED BY <1>3, <2>1, <2>2
<1>10. Store!Change(d, m)
  BY <1>3, <1>8, <1>9 DEF Store!Change, Store!Applied, Mutations, storeFiles, storePromise
<1> QED BY <1>10 DEF Store!Next

LEMMA SaveStore ==
  ASSUME JournalInv, NEW p \in Process, SaveWrite(p)
  PROVE  [Store!Next]_Stored
<1>1. proc[p].at = "write" /\ UNCHANGED <<log, token, phase, intent>>
  BY DEF SaveWrite
<1>2. PICK d \in Draft : d = proc[p].draft
  BY <1>1 DEF JournalInv, Types, Procs, Bound, Saving
<1>3. /\ file' = [file EXCEPT ![d]["manifest"] = "saved"]
      /\ linked' = [linked EXCEPT ![d] = proc[p].carries]
  BY <1>2 DEF SaveWrite
<1>4. \A u \in Op : ~Promised(d, u) /\ ~Promised(d, u)'
  BY <1>1, <1>2, JournalAssumption
  DEF JournalInv, Processes, Fits, Writes, Pending, PendingBut, Promised, Unresolved
<1>5. Promise(d) = NONE /\ Promise(d)' = NONE
  BY <1>4, NoPromise
<1>6. /\ Visible(d) = [f \in File |-> file[d][f]]
      /\ Visible(d)' = [f \in File |-> file'[d][f]]
  BY <1>4, ShownPlain
<1> DEFINE shown == [Visible(d) EXCEPT !["manifest"] = "saved"]
<1>7. Visible(d)' = shown
  BY <1>3, <1>6 DEF JournalInv, Types, Disk
<1>8. \A e \in Draft \ {d} : DraftSame(e)
  BY <1>1, <1>3 DEF DraftSame, JournalInv, Types, Disk
<1>9. /\ storeFiles' = [storeFiles EXCEPT ![d] = shown]
      /\ storePromise' = [storePromise EXCEPT ![d] = NONE]
      /\ storeFiles[d] = Visible(d) /\ storePromise[d] = NONE
  BY <1>5, <1>7, <1>8, OneDraftChanges
<1>10. storePromise' = storePromise
  BY <1>9 DEF storePromise
<1>11. storeFiles' = [storeFiles EXCEPT ![d]["manifest"] = "saved"] /\ "manifest" \in File
  BY <1>9 DEF File
<1>12. Store!Save(d)
  BY <1>1, <1>9, <1>10, <1>11 DEF Store!Save, storeFiles, storePromise
<1> QED BY <1>12 DEF Store!Next

LEMMA OutsideStore ==
  ASSUME JournalInv, NEW d \in Draft, NEW f \in File, Outside(d, f)
  PROVE  [Store!Next]_Stored
<1>1. /\ UNCHANGED <<log, token, linked, phase, intent>>
      /\ file' = [file EXCEPT ![d][f] = "outside"]
  BY DEF Outside
<1>2. "outside" \notin Op
  BY JournalAssumption
<1>3. \A u \in Op : Promised(d, u)' <=> Promised(d, u)
  BY <1>1 DEF Promised, Unresolved, Mutations
<1>4. Promise(d)' = Promise(d)
  BY <1>3, SamePromise
<1>5. file'[d][f] = "outside" /\ \A g \in File \ {f} : file'[d][g] = file[d][g]
  BY <1>1 DEF JournalInv, Types, Disk
<1> DEFINE shown == [Visible(d) EXCEPT ![f] = "outside"]
<1>6. Visible(d)' = shown
  <2>1. CASE \A u \in Op : ~Promised(d, u)
    <3>1. /\ Visible(d) = [g \in File |-> file[d][g]]
          /\ Visible(d)' = [g \in File |-> file'[d][g]]
      BY <1>3, <2>1, ShownPlain
    <3> QED BY <1>5, <3>1
  <2>2. CASE \E u \in Op : Sole(d, u)
    <3>1. PICK o \in Op : Sole(d, o)
      BY <2>2
    <3>2. Sole(d, o)'
      BY <1>3, <3>1 DEF Sole
    <3>3. /\ Visible(d) = [g \in File |-> IF file[d][g] = o THEN intent[d][o].base[g] ELSE file[d][g]]
          /\ Visible(d)' = [g \in File |-> IF file'[d][g] = o THEN intent[d][o].base[g] ELSE file'[d][g]]
      BY <1>1, <3>1, <3>2, Shown
    <3> QED BY <1>2, <1>5, <3>3
  <2> QED BY <2>1, <2>2, PromisesOf
<1>7. \A e \in Draft \ {d} : DraftSame(e)
  BY <1>1 DEF DraftSame, JournalInv, Types, Disk
<1>8. /\ storeFiles' = [storeFiles EXCEPT ![d] = shown]
      /\ storePromise' = [storePromise EXCEPT ![d] = Promise(d)]
      /\ storeFiles[d] = Visible(d) /\ storePromise[d] = Promise(d)
  BY <1>4, <1>6, <1>7, OneDraftChanges
<1>9. storePromise' = storePromise /\ storeFiles' = [storeFiles EXCEPT ![d][f] = "outside"]
  BY <1>8 DEF storePromise
<1>10. Store!Outside(d)
  BY <1>1, <1>9 DEF Store!Outside, storeFiles, storePromise
<1> QED BY <1>10 DEF Store!Next

LEMMA StepStore == JournalInv /\ JournalInv' /\ [Next]_vars => [Store!Next]_Stored
<1> SUFFICES ASSUME JournalInv, JournalInv', [Next]_vars PROVE [Store!Next]_Stored
  OBVIOUS
<1>1. UNCHANGED disk => [Store!Next]_Stored
  BY QuietStore
<1>2. ASSUME NEW p \in Process, Step(p) PROVE [Store!Next]_Stored
  <2>1. \/ Enter(p) \/ Identify(p) \/ LockPath(p) \/ Check(p)
        \/ SaveGuard(p) \/ SaveOpen(p) \/ SaveValidate(p)
        => UNCHANGED disk
    BY DEF Enter, Identify, LockPath, Check, SaveGuard, SaveOpen, SaveValidate
  <2> QED BY <1>1, <1>2, <2>1, PrepareStore, ReplaceStore, MarkStore, CommitStore, SaveStore DEF Step
<1>3. ASSUME NEW p \in Process, Call(p) PROVE [Store!Next]_Stored
  <2>1. (\E d \in Draft : SaveRead(p, d) \/ \E o \in Op : Repeat(p, d, o) \/ Build(p, d, o))
        => UNCHANGED disk
    BY DEF SaveRead, Repeat, Build
  <2> QED BY <1>1, <1>3, <2>1, UpdateStore DEF Call
<1>4. ASSUME NEW p \in Process, Recover(p) \/ Restart(p) \/ Crash(p) PROVE [Store!Next]_Stored
  <2>1. UNCHANGED disk
    BY <1>4 DEF Recover, Restart, Crash
  <2> QED BY <1>1, <2>1
<1>5. ASSUME NEW d \in Draft, (\E m \in Edit : Send(m, d)) \/ (\E f \in File : Outside(d, f))
      PROVE  [Store!Next]_Stored
  <2>1. (\E m \in Edit : Send(m, d)) => UNCHANGED disk
    BY DEF Send
  <2> QED BY <1>1, <1>5, <2>1, OutsideStore
<1>6. CASE UNCHANGED vars
  BY <1>1, <1>6 DEF vars, disk
<1> QED BY <1>2, <1>3, <1>4, <1>5, <1>6 DEF Next

\* The journal implements the store: an operation is promised to one draft, settles with
\* all its outputs at once, and nothing else happens to the draft in between.
THEOREM JournalImplementsStore == Spec => ImplementsStore
<1>1. Store!Spec <=> Store!Init /\ [][Store!Next]_Stored
  BY DEF Store!Spec, Store!storeVars, Stored, storeFiles, storePromise
<1> QED BY <1>1, InitStore, StepStore, JournalInvHolds, PTL DEF Spec, ImplementsStore
=============================================================================
