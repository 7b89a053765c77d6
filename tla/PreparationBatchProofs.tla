----------------------- MODULE PreparationBatchProofs -----------------------
(***************************************************************************)
(* Proofs about PreparationBatch: what its run checks of its safety, for   *)
(* any number of jobs, claims and interventions.                           *)
(*                                                                         *)
(* The argument: a tick that awaits holds a copy of its member, and as     *)
(* long as the member is in the cycle of the copy it is the copy (Ticks),  *)
(* because whoever changes a waiting member begins a cycle.  So the row a  *)
(* tick saves carries the edit the member was told of (Owing), and a       *)
(* member goes back to waiting by itself only with a charged retry         *)
(* (Counted).                                                              *)
(***************************************************************************)
EXTENDS PreparationBatch, TLAPS

Row == [state : MemberState, cycle : Nat, attempt : Nat \cup {NONE}, draft : Nat]
Prepared == [prep : PreparationState, fits : BOOLEAN, made : Nat, inactive : BOOLEAN]

Types ==
  /\ member \in [Jobs -> Row]
  /\ retries \in [Jobs -> 0 .. 1]
  /\ job \in [Jobs -> Prepared]
  /\ draft \in [Jobs -> Nat]
  /\ control \in [halt : {"on", "paused", "stopped"}, gen : Nat]
  /\ tick \in [at : Place, job : Jobs \cup {NONE}, copy : Row \cup {NONE}, gen : Nat]
  /\ owed \in [Jobs -> Nat]
  /\ restarts \in [Jobs -> Nat]

Drafting == {"draftFacts", "draftCheck", "finalize"}

\* The copy a tick holds of its member.
Ticks ==
  /\ tick.at \in Drafting \cup {"facts", "note"} => tick.job \in Jobs /\ tick.copy \in Row
  /\ tick.at \in Drafting \cup {"facts"} =>
       /\ tick.copy.state = "pending"
       /\ tick.copy.cycle <= member[tick.job].cycle
       /\ tick.copy.cycle = member[tick.job].cycle => member[tick.job] = tick.copy
  /\ tick.at = "facts" => tick.copy.draft = 0
  /\ tick.at = "note" =>
       /\ tick.copy.state = "running" /\ tick.copy.draft = 0
       /\ member[tick.job].state = "pending"
       /\ member[tick.job].cycle = tick.copy.cycle /\ member[tick.job].draft = 0

\* The coordinator owes at most the edit it was told of, never one it published.
Owing(j) ==
  /\ owed[j] \in {0, member[j].draft}
  /\ member[j].state \in {"ready", "running"} => member[j].draft = 0
  /\ job[j].made <= draft[j]
  /\ job[j].made # 0 => owed[j] # job[j].made

\* The tick has started an attempt of the job and not noted it yet.
Noting(j) == tick.at = "note" /\ tick.job = j /\ tick.copy.attempt # NONE

\* Whatever waits was started at most as often as retries were charged.
Counted(j) ==
  /\ restarts[j] <= retries[j] + 1
  /\ member[j].state = "pending" /\ ~Noting(j) => restarts[j] <= retries[j]
  /\ Noting(j) => restarts[j] >= 1

BatchInv == Types /\ Ticks /\ \A j \in Jobs : Owing(j) /\ Counted(j)

-----------------------------------------------------------------------------
(* What a step owes to its next state, beside the invariant: no member goes  *)
(* back to an earlier cycle, and a draft is published only as it was wanted. *)

Rising == \A j \in Jobs : member'[j].cycle >= member[j].cycle
Wanted ==
  \A j \in Jobs : job'[j].made \notin {0, job[j].made} =>
    /\ job'[j].made = draft[j] /\ control.halt # "stopped" /\ control.gen = tick.gen
Upheld == BatchInv' /\ Rising /\ Wanted

\* A waiting member changes only with a new cycle.
Ahead(k) ==
  \/ member'[k] = member[k]
  \/ member'[k].cycle > member[k].cycle
  \/ (member'[k].cycle = member[k].cycle /\ member[k].state # "pending")

\* A step that leaves the tick where it is, outside a synchronous stretch or
\* without touching a member, keeps what the tick's copy says.
LEMMA TickKept ==
  ASSUME Types, Ticks, Types', tick' = tick, \A k \in Jobs : Ahead(k),
         tick.at = "note" => member' = member
  PROVE  Ticks' /\ Rising
<1>1. Rising
  <2> SUFFICES ASSUME NEW k \in Jobs
               PROVE  member'[k].cycle >= member[k].cycle
    BY DEF Rising
  <2>1. member[k].cycle \in Nat /\ member'[k].cycle \in Nat
    BY DEF Types, Row
  <2> QED
    BY <2>1 DEF Ahead
<1>2. CASE tick.at \in Drafting \cup {"facts"}
  <2> DEFINE j == tick.job
  <2>1. j \in Jobs /\ tick.copy \in Row /\ tick.at # "note"
    BY <1>2 DEF Ticks, Drafting
  <2>2. tick.copy.cycle <= member[j].cycle /\ tick.copy.state = "pending"
    BY <1>2 DEF Ticks
  <2>3. member'[j].cycle >= member[j].cycle /\ Ahead(j)
    BY <1>1, <2>1 DEF Rising
  <2>4. /\ tick.copy.cycle \in Nat /\ member[j].cycle \in Nat /\ member'[j].cycle \in Nat
    BY <2>1 DEF Types, Row
  <2>5. tick.copy.cycle = member'[j].cycle => member'[j] = tick.copy
    BY <1>2, <2>1, <2>2, <2>3, <2>4 DEF Ticks, Ahead
  <2>6. tick.copy.cycle <= member'[j].cycle
    BY <2>2, <2>3, <2>4
  <2> QED
    BY <1>1, <1>2, <2>1, <2>2, <2>5, <2>6 DEF Ticks, Drafting
<1>3. CASE tick.at \notin Drafting \cup {"facts"}
  BY <1>1, <1>3 DEF Ticks, Drafting
<1> QED
  BY <1>2, <1>3

\* A tick that ends holds nothing.
LEMMA TickRested ==
  ASSUME Rest
  PROVE  Ticks' /\ \A k \in Jobs : ~Noting(k)'
BY DEF Rest, Resting, Ticks, Drafting, Noting

\* What a step leaves alone of a job stays so.
LEMMA OwingKept ==
  ASSUME NEW k \in Jobs, Owing(k), member'[k] = member[k], owed'[k] = owed[k],
         job'[k].made = job[k].made, draft'[k] = draft[k]
  PROVE  Owing(k)'
BY DEF Owing

LEMMA CountedKept ==
  ASSUME NEW k \in Jobs, Counted(k), member'[k].state = member[k].state,
         restarts'[k] = restarts[k], retries'[k] = retries[k],
         Noting(k)' <=> Noting(k)
  PROVE  Counted(k)'
BY DEF Counted

-----------------------------------------------------------------------------
(* The person.                                                                *)

\* Whatever a person does happens where the tick awaits and leaves the tick, the
\* other members and their budgets alone.
PersonActs(j) ==
  /\ tick' = tick /\ tick.at \in Awaiting
  /\ \A k \in Jobs \ {j} : /\ member'[k] = member[k] /\ owed'[k] = owed[k]
                           /\ draft'[k] = draft[k] /\ restarts'[k] = restarts[k]
                           /\ retries'[k] = retries[k] /\ job'[k] = job[k]

LEMMA PersonKeeps ==
  ASSUME BatchInv, NEW j \in Jobs, PersonActs(j), Types', Ahead(j),
         Owing(j)', Counted(j)',
         job'[j].made = job[j].made
  PROVE  Upheld
<1>1. Ticks' /\ Rising
  <2>1. tick.at # "note" /\ \A k \in Jobs : Ahead(k)
    BY DEF PersonActs, Awaiting, Ahead
  <2> QED
    BY <2>1, TickKept DEF PersonActs, BatchInv
<1>2. \A k \in Jobs : Owing(k)'
  BY OwingKept DEF PersonActs, BatchInv
<1>3. \A k \in Jobs : ~Noting(k) /\ ~Noting(k)'
  BY DEF PersonActs, Awaiting, Noting
<1>4. \A k \in Jobs : Counted(k)'
  <2> SUFFICES ASSUME NEW k \in Jobs
               PROVE  Counted(k)'
    OBVIOUS
  <2>1. CASE k = j
    BY <2>1
  <2>2. CASE k # j
    BY <1>3, <2>2, CountedKept DEF PersonActs, BatchInv
  <2> QED
    BY <2>1, <2>2
<1>5. Wanted
  BY DEF Wanted, PersonActs
<1> QED
  BY <1>1, <1>2, <1>4, <1>5 DEF Upheld, BatchInv

\* A member that begins a new cycle, waiting.
LEMMA NextCycle ==
  ASSUME NEW m \in Row, NEW d \in Nat
  PROVE  /\ [state |-> "pending", cycle |-> m.cycle + 1, attempt |-> NONE, draft |-> d] \in Row
         /\ [m EXCEPT !.state = "pending", !.cycle = @ + 1] \in Row
         /\ [m EXCEPT !.state = "pending", !.cycle = @ + 1, !.draft = d] \in Row
         /\ m.cycle + 1 > m.cycle
<1>1. m.cycle \in Nat /\ m.cycle + 1 \in Nat /\ m.cycle + 1 > m.cycle
  BY DEF Row
<1>2. "pending" \in MemberState
  BY DEF MemberState
<1> QED
  BY <1>1, <1>2 DEF Row

LEMMA NewCycleTypes ==
  ASSUME Types, NEW j \in Jobs, NewCycle(j)
  PROVE  /\ retries' \in [Jobs -> 0 .. 1] /\ restarts' \in [Jobs -> Nat]
         /\ retries'[j] = 0 /\ restarts'[j] = 0
         /\ \A k \in Jobs \ {j} : retries'[k] = retries[k] /\ restarts'[k] = restarts[k]
<1>1. 0 \in 0 .. 1 /\ 0 \in Nat
  OBVIOUS
<1> QED
  BY <1>1 DEF Types, NewCycle

LEMMA EnrolKeeps ==
  ASSUME BatchInv, NEW j \in Jobs, Enrol(j)
  PROVE  Upheld
<1> USE DEF BatchInv
<1>1. member[j] \in Row /\ job[j] \in Prepared
  BY DEF Types
<1> DEFINE row == [state |-> "pending", cycle |-> member[j].cycle + 1, attempt |-> NONE, draft |-> 0]
           prepared == [job[j] EXCEPT !.fits = FALSE]
<1>2. /\ row \in Row /\ row.cycle > member[j].cycle /\ row.draft = 0 /\ row.state = "pending"
      /\ prepared \in Prepared /\ prepared.made = job[j].made
  <2>1. row \in Row /\ row.cycle > member[j].cycle
    BY <1>1, NextCycle
  <2>2. prepared \in Prepared /\ prepared.made = job[j].made
    BY <1>1 DEF Prepared
  <2> QED
    BY <2>1, <2>2
<1>3. /\ member' = [member EXCEPT ![j] = row] /\ job' = [job EXCEPT ![j] = prepared]
  BY DEF Enrol
<1> HIDE DEF row, prepared
<1>4. Types'
  <2>1. member' \in [Jobs -> Row] /\ job' \in [Jobs -> Prepared]
    BY <1>2, <1>3 DEF Types
  <2>2. owed' \in [Jobs -> Nat]
    BY DEF Types, Enrol
  <2> QED
    BY <2>1, <2>2, NewCycleTypes DEF Types, Enrol
<1>5. PersonActs(j) /\ Ahead(j) /\ job'[j].made = job[j].made
  BY <1>2, <1>3, NewCycleTypes DEF Types, PersonActs, Ahead, Enrol, Handler
<1>6. owed'[j] = 0 /\ member'[j] = row /\ draft' = draft /\ restarts'[j] = 0 /\ retries'[j] = 0
  BY <1>3, NewCycleTypes DEF Types, Enrol
<1>7. Owing(j)' /\ Counted(j)'
  <2>1. Owing(j)'
    BY <1>2, <1>5, <1>6 DEF Owing
  <2>2. ~Noting(j)'
    BY DEF Enrol, Handler, Awaiting, Noting
  <2> QED
    BY <1>6, <2>1, <2>2 DEF Counted
<1> QED
  BY <1>4, <1>5, <1>7, PersonKeeps

LEMMA AnswerKeeps ==
  ASSUME BatchInv, NEW j \in Jobs, Answered(j), Handler,
         UNCHANGED <<retries, job, draft, control, tick, owed>>
  PROVE  Upheld
<1> USE DEF BatchInv
<1>1. member[j] \in Row /\ restarts \in [Jobs -> Nat]
  BY DEF Types
<1>2. CASE member[j].state \in {"question", "later"}
  <2> DEFINE row == [member[j] EXCEPT !.state = "pending"]
  <2>1. /\ row \in Row /\ row.cycle = member[j].cycle /\ row.draft = member[j].draft
        /\ row.state = "pending"
    BY <1>1 DEF Row, MemberState
  <2>2. member' = [member EXCEPT ![j] = row] /\ restarts' = [restarts EXCEPT ![j] = 0]
    BY <1>2 DEF Answered
  <2> HIDE DEF row
  <2>3. Types'
    BY <2>1, <2>2 DEF Types
  <2>4. PersonActs(j) /\ Ahead(j) /\ member'[j] = row /\ restarts'[j] = 0
    BY <1>2, <2>1, <2>2 DEF Types, PersonActs, Ahead, Handler
  <2>5. Owing(j)'
    BY <2>1, <2>4 DEF Owing
  <2>6. Counted(j)'
    <3>1. ~Noting(j)' /\ retries'[j] \in 0 .. 1
      BY DEF Handler, Awaiting, Noting, Types
    <3> QED
      BY <2>4, <3>1 DEF Counted
  <2> QED
    BY <2>3, <2>4, <2>5, <2>6, PersonKeeps
<1>3. CASE member[j].state \notin {"question", "later"}
  <2>1. member' = member /\ restarts' = restarts
    BY <1>3 DEF Answered
  <2>2. Types'
    BY <2>1 DEF Types
  <2>3. PersonActs(j) /\ Ahead(j) /\ Owing(j)' /\ Counted(j)'
    BY <2>1 DEF PersonActs, Ahead, Handler, Owing, Counted, Noting
  <2> QED
    BY <2>2, <2>3, PersonKeeps
<1> QED
  BY <1>2, <1>3

LEMMA DeferKeeps ==
  ASSUME BatchInv, NEW j \in Jobs, Defer(j)
  PROVE  Upheld
<1> USE DEF BatchInv
<1>1. member[j] \in Row
  BY DEF Types
<1> DEFINE row == [member[j] EXCEPT !.state = "later"]
<1>2. /\ row \in Row /\ row.cycle = member[j].cycle /\ row.draft = member[j].draft
      /\ row.state = "later" /\ member[j].state = "question"
  BY <1>1 DEF Row, MemberState, Defer
<1>3. member' = [member EXCEPT ![j] = row]
  BY DEF Defer
<1> HIDE DEF row
<1>4. Types'
  BY <1>2, <1>3 DEF Types, Defer
<1>5. PersonActs(j) /\ Ahead(j) /\ member'[j] = row
  BY <1>2, <1>3 DEF Types, PersonActs, Ahead, Defer, Handler
<1>6. Owing(j)' /\ Counted(j)'
  BY <1>2, <1>5 DEF Owing, Counted, Noting, Defer, Handler, Awaiting
<1> QED
  BY <1>4, <1>5, <1>6, PersonKeeps DEF Defer

LEMMA RetryKeeps ==
  ASSUME BatchInv, NEW j \in Jobs, Retry(j)
  PROVE  Upheld
<1> USE DEF BatchInv
<1>1. member[j] \in Row
  BY DEF Types
<1> DEFINE row == [member[j] EXCEPT !.state = "pending", !.cycle = @ + 1]
<1>2. /\ row \in Row /\ row.cycle > member[j].cycle /\ row.draft = member[j].draft
      /\ row.state = "pending"
  BY <1>1, NextCycle DEF Row
<1>3. member' = [member EXCEPT ![j] = row]
  BY <1>1 DEF Retry, Types, Row
<1> HIDE DEF row
<1>4. Types'
  BY <1>2, <1>3, NewCycleTypes DEF Types, Retry
<1>5. /\ PersonActs(j) /\ Ahead(j) /\ member'[j] = row
      /\ restarts'[j] = 0 /\ retries'[j] = 0
  BY <1>2, <1>3, NewCycleTypes DEF Types, PersonActs, Ahead, Retry, Handler
<1>6. Owing(j)' /\ Counted(j)'
  BY <1>2, <1>5 DEF Owing, Counted, Noting, Retry, Handler, Awaiting
<1> QED
  BY <1>4, <1>5, <1>6, PersonKeeps DEF Retry

LEMMA EditKeeps ==
  ASSUME BatchInv, NEW j \in Jobs, Edit(j)
  PROVE  Upheld
<1> USE DEF BatchInv
<1>1. member[j] \in Row /\ draft[j] \in Nat /\ job[j].made \in Nat
  BY DEF Types, Prepared
<1> DEFINE row == Edited(j)
<1>2. /\ row \in Row /\ row.cycle > member[j].cycle /\ row.draft = draft[j] + 1
      /\ row.state = "pending"
  <2>1. draft[j] + 1 \in Nat
    BY <1>1
  <2> QED
    BY <1>1, <2>1, NextCycle DEF Row, Edited
<1>3. member' = [member EXCEPT ![j] = row]
  BY DEF Edit
<1> HIDE DEF row
<1>4. Types'
  BY <1>1, <1>2, <1>3, NewCycleTypes DEF Types, Edit
<1>5. /\ PersonActs(j) /\ Ahead(j) /\ member'[j] = row
      /\ restarts'[j] = 0 /\ retries'[j] = 0
      /\ draft'[j] = draft[j] + 1 /\ owed'[j] = draft[j] + 1 /\ job' = job
  BY <1>2, <1>3, NewCycleTypes DEF Types, PersonActs, Ahead, Edit, Handler
<1>6. Owing(j)'
  BY <1>1, <1>2, <1>5 DEF Owing
<1>7. Counted(j)'
  BY <1>2, <1>5 DEF Counted, Noting, Edit, Handler, Awaiting
<1> QED
  BY <1>4, <1>5, <1>6, <1>7, PersonKeeps DEF Edit

\* What concerns the members and their budgets not at all.
LEMMA AsideKeeps ==
  ASSUME BatchInv, UNCHANGED <<member, retries, draft, tick, owed, restarts>>,
         job' \in [Jobs -> Prepared],
         \A k \in Jobs : job'[k].made = job[k].made,
         control' \in [halt : {"on", "paused", "stopped"}, gen : Nat]
  PROVE  Upheld
<1> USE DEF BatchInv
<1>1. Types'
  BY DEF Types
<1>2. Ticks' /\ Rising
  BY <1>1, TickKept DEF Ahead
<1>3. \A k \in Jobs : Owing(k)' /\ Counted(k)'
  BY OwingKept, CountedKept DEF Noting
<1>4. Wanted
  BY DEF Wanted
<1> QED
  BY <1>1, <1>2, <1>3, <1>4 DEF Upheld

LEMMA PersonStep ==
  ASSUME BatchInv, Person
  PROVE  Upheld
<1>1. PICK j \in Jobs :
        \/ Enrol(j) \/ Defer(j) \/ Retry(j) \/ Edit(j) \/ UserCheck(j) \/ Track(j) \/ CancelJob(j)
        \/ \E c \in Claim \cup {Decision} : Answer(j, c) \/ Narrow(j, c)
  BY DEF Person
<1>2. job \in [Jobs -> Prepared] /\ control \in [halt : {"on", "paused", "stopped"}, gen : Nat]
  BY DEF BatchInv, Types
<1>3. CASE UserCheck(j)
  BY <1>2, <1>3, AsideKeeps DEF UserCheck
<1>4. CASE Track(j)
  <2> DEFINE prepared == [job[j] EXCEPT !.inactive = ~@]
  <2>1. prepared \in Prepared /\ prepared.made = job[j].made
    BY <1>2 DEF Prepared
  <2>2. job' = [job EXCEPT ![j] = prepared]
    BY <1>4 DEF Track
  <2> HIDE DEF prepared
  <2>3. job' \in [Jobs -> Prepared] /\ \A k \in Jobs : job'[k].made = job[k].made
    BY <1>2, <2>1, <2>2
  <2> QED
    BY <1>2, <1>4, <2>3, AsideKeeps DEF Track
<1>5. CASE CancelJob(j)
  <2> DEFINE prepared == [job[j] EXCEPT !.prep = "cancelled"]
  <2>1. prepared \in Prepared /\ prepared.made = job[j].made
    BY <1>2 DEF Prepared, PreparationState
  <2>2. job' = [job EXCEPT ![j] = prepared]
    BY <1>5 DEF CancelJob
  <2> HIDE DEF prepared
  <2>3. job' \in [Jobs -> Prepared] /\ \A k \in Jobs : job'[k].made = job[k].made
    BY <1>2, <2>1, <2>2
  <2> QED
    BY <1>2, <1>5, <2>3, AsideKeeps DEF CancelJob
<1>6. CASE \E c \in Claim \cup {Decision} : Answer(j, c) \/ Narrow(j, c)
  BY <1>6, AnswerKeeps DEF Answer, Narrow
<1> QED
  BY <1>1, <1>3, <1>4, <1>5, <1>6, EnrolKeeps, DeferKeeps, RetryKeeps, EditKeeps

-----------------------------------------------------------------------------
(* The worker control, the queue and the evidence checks.                     *)

LEMMA StopKeeps ==
  ASSUME BatchInv, Stop \/ Pause \/ Start
  PROVE  Upheld
<1>1. job \in [Jobs -> Prepared] /\ control \in [halt : {"on", "paused", "stopped"}, gen : Nat]
  BY DEF BatchInv, Types
<1>2. CASE Stop
  <2>1. \A k \in Jobs : [job[k] EXCEPT !.prep = "interrupted"] \in Prepared
    BY <1>1 DEF Prepared, PreparationState
  <2>2. job' \in [Jobs -> Prepared] /\ \A k \in Jobs : job'[k].made = job[k].made
    BY <1>1, <1>2, <2>1 DEF Stop, Prepared
  <2>3. control' \in [halt : {"on", "paused", "stopped"}, gen : Nat]
    BY <1>1, <1>2 DEF Stop
  <2> QED
    BY <1>2, <2>2, <2>3, AsideKeeps DEF Stop
<1>3. CASE Pause \/ Start
  <2>1. control' \in [halt : {"on", "paused", "stopped"}, gen : Nat]
    BY <1>1, <1>3 DEF Pause, Start
  <2> QED
    BY <1>1, <1>3, <2>1, AsideKeeps DEF Pause, Start
<1> QED
  BY <1>2, <1>3

LEMMA AttemptEndsKeeps ==
  ASSUME BatchInv, NEW j \in Jobs, AttemptEnds(j) \/ DrainClaims(j)
  PROVE  Upheld
<1> USE DEF BatchInv
<1>1. /\ job \in [Jobs -> Prepared] /\ control \in [halt : {"on", "paused", "stopped"}, gen : Nat]
      /\ job[j] \in Prepared
  BY DEF Types
<1>2. UNCHANGED <<member, retries, draft, control, tick, owed, restarts>>
  BY DEF AttemptEnds, DrainClaims
<1>3. PICK new \in Prepared :
        /\ job' = [job EXCEPT ![j] = new] /\ new.made \in {0, job[j].made}
  <2>1. \A to \in PreparationState :
          /\ [job[j] EXCEPT !.prep = to] \in Prepared
          /\ [job[j] EXCEPT !.prep = to].made = job[j].made
    BY <1>1 DEF Prepared
  <2>2. CASE DrainClaims(j)
    BY <1>1, <2>1, <2>2 DEF DrainClaims, PreparationState
  <2>3. CASE AttemptEnds(j)
    <3>1. CASE job' = [job EXCEPT ![j].prep = "resume_ready", ![j].fits = TRUE, ![j].made = 0]
      <4> DEFINE new == [job[j] EXCEPT !.prep = "resume_ready", !.fits = TRUE, !.made = 0]
      <4>1. new \in Prepared /\ new.made = 0
        BY <1>1 DEF Prepared, PreparationState
      <4>2. job' = [job EXCEPT ![j] = new]
        BY <1>1, <3>1
      <4> QED
        BY <4>1, <4>2
    <3>2. CASE \E to \in {"needs_input", "failed", "interrupted"} : job' = [job EXCEPT ![j].prep = to]
      BY <1>1, <2>1, <3>2 DEF PreparationState
    <3> QED
      BY <2>3, <3>1, <3>2 DEF AttemptEnds
  <2> QED
    BY <2>2, <2>3
<1>4. Types'
  BY <1>2, <1>3 DEF Types
<1>5. Ticks' /\ Rising
  BY <1>2, <1>4, TickKept DEF Ahead
<1>6. \A k \in Jobs : Counted(k)'
  BY <1>2, CountedKept DEF Noting
<1>7. \A k \in Jobs : Owing(k)'
  <2> SUFFICES ASSUME NEW k \in Jobs
               PROVE  Owing(k)'
    OBVIOUS
  <2>1. job'[k].made \in {0, job[k].made} /\ draft[k] \in Nat
    BY <1>1, <1>3 DEF Types
  <2> QED
    BY <1>2, <2>1 DEF Owing
<1>8. Wanted
  BY <1>1, <1>3 DEF Wanted
<1> QED
  BY <1>4, <1>5, <1>6, <1>7, <1>8 DEF Upheld

LEMMA CheckEndsKeeps ==
  ASSUME BatchInv, NEW j \in Jobs, CheckEnds(j) \/ CheckExpires(j)
  PROVE  Upheld
<1> USE DEF BatchInv
<1>1. UNCHANGED <<member, job, draft, control, tick, owed, restarts>>
  BY DEF CheckEnds, CheckExpires
<1>2. retries' = retries \/ (retries[j] = 0 /\ retries' = [retries EXCEPT ![j] = 1])
  <2>1. CASE CheckEnds(j)
    <3>1. CASE UNCHANGED retries
      BY <3>1
    <3>2. CASE retries[j] = 0 /\ retries' = [retries EXCEPT ![j] = 1]
      BY <3>2
    <3> QED
      BY <2>1, <3>1, <3>2, Zenon DEF CheckEnds
  <2>2. CASE CheckExpires(j)
    BY <2>2 DEF CheckExpires
  <2> QED
    BY <2>1, <2>2
<1>3. Types'
  BY <1>1, <1>2 DEF Types
<1>4. Ticks' /\ Rising
  BY <1>1, <1>3, TickKept DEF Ahead
<1>5. \A k \in Jobs : Owing(k)'
  BY <1>1, OwingKept
<1>6. \A k \in Jobs : Counted(k)'
  <2> SUFFICES ASSUME NEW k \in Jobs
               PROVE  Counted(k)'
    OBVIOUS
  <2>1. retries'[k] >= retries[k] /\ retries[k] \in Nat /\ retries'[k] \in Nat /\ restarts[k] \in Nat
    BY <1>2 DEF Types
  <2> QED
    BY <1>1, <2>1 DEF Counted, Noting
<1>7. Wanted
  BY <1>1 DEF Wanted
<1> QED
  BY <1>3, <1>4, <1>5, <1>6, <1>7 DEF Upheld

-----------------------------------------------------------------------------
(* The coordinator's saves, from the row it looked at.                        *)

LEMMA RestTypes ==
  ASSUME Rest
  PROVE  tick' \in [at : Place, job : Jobs \cup {NONE}, copy : Row \cup {NONE}, gen : Nat]
BY DEF Rest, Resting, Place

\* A tick that ends without a save.
LEMMA RestKeeps ==
  ASSUME BatchInv, Rest, tick.at # "note",
         UNCHANGED <<member, retries, job, draft, control, owed, restarts>>
  PROVE  Upheld
<1> USE DEF BatchInv
<1>1. Types'
  BY RestTypes DEF Types
<1>2. Ticks' /\ \A k \in Jobs : ~Noting(k) /\ ~Noting(k)'
  BY TickRested DEF Noting
<1>3. \A k \in Jobs : Owing(k)' /\ Counted(k)'
  BY <1>2, OwingKept, CountedKept
<1>4. Rising /\ Wanted
  <2>1. \A k \in Jobs : member[k].cycle \in Nat
    BY DEF Types, Row
  <2> QED
    BY <2>1 DEF Rising, Wanted
<1> QED
  BY <1>1, <1>2, <1>3, <1>4 DEF Upheld

\* A tick that ends with the save of its member, in the member's cycle.
LEMMA SaveKeeps ==
  ASSUME BatchInv, NEW j \in Jobs, NEW row \in Row, Save(j, row),
         tick.at = "note" => tick.job = j,
         row.state # "pending", row.cycle = member[j].cycle,
         UNCHANGED <<retries, draft, control, restarts>>,
         job' \in [Jobs -> Prepared], owed' \in [Jobs -> Nat],
         \A k \in Jobs \ {j} : owed'[k] = owed[k] /\ job'[k].made = job[k].made,
         Owing(j)', Wanted
  PROVE  Upheld
<1> USE DEF BatchInv
<1>1. member' = [member EXCEPT ![j] = row] /\ Rest
  BY DEF Save
<1>2. Types'
  BY <1>1, RestTypes DEF Types
<1>3. Ticks' /\ \A k \in Jobs : ~Noting(k)'
  BY <1>1, TickRested
<1>4. /\ member'[j] = row /\ \A k \in Jobs \ {j} : member'[k] = member[k]
      /\ \A k \in Jobs : member[k].cycle \in Nat
  BY <1>1 DEF Types, Row
<1>5. \A k \in Jobs : Owing(k)'
  BY <1>4, OwingKept
<1>6. \A k \in Jobs : Counted(k)'
  <2>1. \A k \in Jobs \ {j} : ~Noting(k)
    BY DEF Noting
  <2>2. \A k \in Jobs \ {j} : Counted(k)'
    BY <1>3, <1>4, <2>1, CountedKept
  <2>3. Counted(j)'
    BY <1>3, <1>4 DEF Counted
  <2> QED
    BY <2>2, <2>3
<1>7. Rising
  BY <1>4 DEF Rising
<1> QED
  BY <1>2, <1>3, <1>5, <1>6, <1>7 DEF Upheld

\* The same, with another state only.
LEMMA StateKeeps ==
  ASSUME BatchInv, NEW j \in Jobs, NEW state \in MemberState, NEW m \in Row,
         m = member[j], Save(j, [m EXCEPT !.state = state]),
         tick.at = "note" => tick.job = j,
         state # "pending", state \in {"ready", "running"} => m.draft = 0,
         UNCHANGED <<retries, job, draft, control, owed, restarts>>
  PROVE  Upheld
<1> DEFINE row == [m EXCEPT !.state = state]
<1>1. /\ row \in Row /\ row.state = state /\ row.draft = m.draft /\ row.cycle = m.cycle
  BY DEF Row
<1>2. Save(j, row)
  OBVIOUS
<1> HIDE DEF row
<1>3. /\ job' \in [Jobs -> Prepared] /\ owed' \in [Jobs -> Nat] /\ Wanted /\ member'[j] = row
  BY <1>2 DEF BatchInv, Types, Wanted, Save
<1>4. Owing(j)'
  BY <1>1, <1>3 DEF Owing, BatchInv
<1> QED
  BY <1>1, <1>2, <1>3, <1>4, SaveKeeps

LEMMA CaughtKeeps ==
  ASSUME BatchInv, NEW j \in Jobs, NEW m \in Row, Caught(j, m), tick.at # "note",
         member[j].cycle = m.cycle => member[j] = m,
         UNCHANGED <<retries, job, draft, control, owed, restarts>>
  PROVE  Upheld
<1>1. CASE member[j].cycle = m.cycle /\ member[j].state = "pending"
  <2>1. Save(j, [m EXCEPT !.state = "technical"]) /\ "technical" \in MemberState
    BY <1>1 DEF Caught, MemberState
  <2> QED
    BY <1>1, <2>1, StateKeeps
<1>2. CASE ~(member[j].cycle = m.cycle /\ member[j].state = "pending")
  BY <1>2, RestKeeps DEF Caught
<1> QED
  BY <1>1, <1>2

LEMMA JudgeKeeps ==
  ASSUME BatchInv, Judge
  PROVE  Upheld
<1> USE DEF BatchInv
<1>1. PICK timely \in SUBSET Jobs :
        LET again == {j \in Jobs : Judging(j) /\ Interrupted(j) /\ MayRetry(j, timely)} IN
        /\ member' = [j \in Jobs |->
             IF j \in again THEN [member[j] EXCEPT !.state = "pending"]
             ELSE IF Judging(j) THEN [member[j] EXCEPT !.state = Verdict(j)] ELSE member[j]]
        /\ retries' = [j \in Jobs |-> IF j \in again THEN retries[j] + 1 ELSE retries[j]]
  BY DEF Judge
<1> DEFINE again == {j \in Jobs : Judging(j) /\ Interrupted(j) /\ MayRetry(j, timely)}
<1>2. UNCHANGED <<job, draft, control, owed, restarts>> /\ tick.at = "idle"
  BY DEF Judge
<1>3. tick' = [at |-> "pick", job |-> NONE, copy |-> NONE, gen |-> control.gen]
  BY DEF Judge, Resting
<1>4. \A k \in Jobs : /\ member[k] \in Row /\ member[k].cycle \in Nat
                      /\ k \in again => retries[k] = 0
                      /\ retries[k] \in 0 .. 1
  BY DEF Types, Row, MayRetry
<1>5. ASSUME NEW k \in Jobs
      PROVE  /\ member'[k] \in Row /\ retries'[k] \in 0 .. 1
             /\ \/ member'[k] = member[k] /\ retries'[k] = retries[k]
                \/ /\ member'[k].cycle = member[k].cycle /\ member'[k].draft = member[k].draft
                   /\ member[k].state = "running"
                   /\ \/ member'[k].state = "pending" /\ retries'[k] = retries[k] + 1
                      \/ member'[k].state # "pending" /\ retries'[k] = retries[k]
  <2>1. \A s \in MemberState : [member[k] EXCEPT !.state = s] \in Row
    BY <1>4 DEF Row
  <2>2. Verdict(k) \in MemberState /\ Verdict(k) # "pending" /\ "pending" \in MemberState
    BY DEF Verdict, MemberState
  <2>3. CASE k \in again
    <3>1. member'[k] = [member[k] EXCEPT !.state = "pending"] /\ retries'[k] = retries[k] + 1
      BY <1>1, <2>3
    <3>2. member[k].state = "running"
      BY <2>3 DEF Judging
    <3>3. retries'[k] \in 0 .. 1
      BY <1>4, <2>3, <3>1
    <3> HIDE DEF again
    <3> QED
      BY <1>4, <2>1, <2>2, <3>1, <3>2, <3>3 DEF Row
  <2>4. CASE k \notin again /\ Judging(k)
    <3>1. member'[k] = [member[k] EXCEPT !.state = Verdict(k)] /\ retries'[k] = retries[k]
      BY <1>1, <2>4
    <3>2. member[k].state = "running"
      BY <2>4 DEF Judging
    <3> HIDE DEF again
    <3> QED
      BY <1>4, <2>1, <2>2, <3>1, <3>2 DEF Row
  <2>5. CASE k \notin again /\ ~Judging(k)
    <3>1. member'[k] = member[k] /\ retries'[k] = retries[k]
      BY <1>1, <2>5
    <3> QED
      BY <1>4, <3>1
  <2> QED
    BY <2>3, <2>4, <2>5
<1> HIDE DEF again
<1>6. Types'
  <2>1. member' \in [Jobs -> Row] /\ retries' \in [Jobs -> 0 .. 1]
    BY <1>1, <1>5
  <2>2. tick' \in [at : Place, job : Jobs \cup {NONE}, copy : Row \cup {NONE}, gen : Nat]
    BY <1>3 DEF Place, Types
  <2> QED
    BY <1>2, <2>1, <2>2 DEF Types
<1>7. Ticks' /\ \A k \in Jobs : ~Noting(k) /\ ~Noting(k)'
  BY <1>2, <1>3 DEF Ticks, Drafting, Noting
<1>8. Rising /\ Wanted
  BY <1>2, <1>4, <1>5 DEF Rising, Wanted
<1>9. \A k \in Jobs : Owing(k)'
  <2> SUFFICES ASSUME NEW k \in Jobs
               PROVE  Owing(k)'
    OBVIOUS
  <2>1. member'[k].draft = member[k].draft
    BY <1>5
  <2>2. member'[k].state \in {"ready", "running"} => member[k].draft = 0
    BY <1>5 DEF Owing
  <2> QED
    BY <1>2, <2>1, <2>2 DEF Owing
<1>10. \A k \in Jobs : Counted(k)'
  <2> SUFFICES ASSUME NEW k \in Jobs
               PROVE  Counted(k)'
    OBVIOUS
  <2>1. restarts'[k] = restarts[k] /\ restarts[k] \in Nat
    BY <1>2 DEF Types
  <2> QED
    BY <1>4, <1>5, <1>7, <2>1 DEF Counted
<1> QED
  BY <1>6, <1>7, <1>8, <1>9, <1>10 DEF Upheld

-----------------------------------------------------------------------------
(* The picks of a tick.                                                       *)

\* A tick that awaits, with a copy of the member as it is.
LEMMA AwaitKeeps ==
  ASSUME BatchInv, NEW j \in Jobs, NEW place \in {"facts", "draftFacts"}, NEW gen \in Nat,
         tick.at # "note", member[j].state = "pending",
         place = "facts" => member[j].draft = 0,
         tick' = [at |-> place, job |-> j, copy |-> member[j], gen |-> gen],
         UNCHANGED <<member, retries, job, draft, control, owed, restarts>>
  PROVE  Upheld
<1> USE DEF BatchInv
<1>1. member[j] \in Row /\ \A k \in Jobs : member[k].cycle \in Nat
  BY DEF Types, Row
<1>2. Types'
  BY <1>1 DEF Types, Place
<1>3. Ticks' /\ \A k \in Jobs : ~Noting(k) /\ ~Noting(k)'
  BY <1>1 DEF Ticks, Drafting, Noting
<1>4. \A k \in Jobs : Owing(k)' /\ Counted(k)'
  BY <1>3, OwingKept, CountedKept
<1>5. Rising /\ Wanted
  BY <1>1 DEF Rising, Wanted
<1> QED
  BY <1>2, <1>3, <1>4, <1>5 DEF Upheld

\* A tick that notes its member at once: it runs, with an attempt or without.
LEMMA NoteAwaitKeeps ==
  ASSUME BatchInv, NEW j \in Jobs, NEW attempt \in Nat \cup {NONE},
         tick.at # "note", member[j].state = "pending", member[j].draft = 0,
         Await("note", [member[j] EXCEPT !.state = "running", !.attempt = attempt], j),
         restarts' = IF attempt = NONE THEN restarts ELSE [restarts EXCEPT ![j] = @ + 1],
         job' \in [Jobs -> Prepared], \A k \in Jobs : job'[k].made = job[k].made,
         UNCHANGED <<member, retries, draft, control, owed>>
  PROVE  Upheld
<1> USE DEF BatchInv
<1> DEFINE row == [member[j] EXCEPT !.state = "running", !.attempt = attempt]
<1>1. /\ member[j] \in Row /\ tick.gen \in Nat
      /\ \A k \in Jobs : member[k].cycle \in Nat /\ restarts[k] \in Nat /\ retries[k] \in Nat
  BY DEF Types, Row
<1>2. /\ row \in Row /\ row.state = "running" /\ row.draft = 0 /\ row.cycle = member[j].cycle
      /\ row.attempt = attempt
  BY <1>1 DEF Row, MemberState
<1>3. tick' = [at |-> "note", job |-> j, copy |-> row, gen |-> tick.gen]
  BY DEF Await
<1> HIDE DEF row
<1>4. restarts' \in [Jobs -> Nat]
  BY <1>1 DEF Types
<1>5. Types'
  BY <1>1, <1>2, <1>3, <1>4 DEF Types, Place
<1>6. Ticks'
  BY <1>1, <1>2, <1>3 DEF Ticks, Drafting
<1>7. \A k \in Jobs : Owing(k)'
  BY OwingKept
<1>8. \A k \in Jobs : Counted(k)'
  <2> SUFFICES ASSUME NEW k \in Jobs
               PROVE  Counted(k)'
    OBVIOUS
  <2>1. ~Noting(k) /\ (Noting(k)' <=> k = j /\ attempt # NONE)
    BY <1>2, <1>3 DEF Noting
  <2>2. CASE k = j /\ attempt # NONE
    <3>1. restarts'[k] = restarts[k] + 1
      BY <2>2 DEF Types
    <3>2. restarts[k] <= retries[k]
      BY <2>1, <2>2 DEF Counted
    <3> QED
      BY <1>1, <2>1, <2>2, <3>1, <3>2 DEF Counted
  <2>3. CASE ~(k = j /\ attempt # NONE)
    <3>1. restarts'[k] = restarts[k]
      BY <2>3 DEF Types
    <3> QED
      BY <2>1, <2>3, <3>1, CountedKept
  <2> QED
    BY <2>2, <2>3
<1>9. Rising /\ Wanted
  BY <1>1 DEF Rising, Wanted
<1> QED
  BY <1>5, <1>6, <1>7, <1>8, <1>9 DEF Upheld

\* The state a preparation is given, and no more of the job.
LEMMA PreparedTypes ==
  ASSUME Types, NEW j \in Jobs, NEW prep \in PreparationState,
         job' = [job EXCEPT ![j].prep = prep]
  PROVE  job' \in [Jobs -> Prepared] /\ \A k \in Jobs : job'[k].made = job[k].made
<1> DEFINE new == [job[j] EXCEPT !.prep = prep]
<1>1. new \in Prepared /\ new.made = job[j].made
  BY DEF Types, Prepared
<1>2. job' = [job EXCEPT ![j] = new]
  OBVIOUS
<1> HIDE DEF new
<1> QED
  BY <1>1, <1>2 DEF Types

LEMMA DispatchKeeps ==
  ASSUME BatchInv, NEW j \in Jobs, NEW m \in Row, m = member[j], Dispatch(j, m),
         tick.at # "note", m.state = "pending", m.draft = 0,
         UNCHANGED <<retries, draft, control, owed>>
  PROVE  Upheld
<1>1. control.gen \in Nat /\ control.gen # NONE
  BY BatchAssumption DEF BatchInv, Types
<1>2. job' \in [Jobs -> Prepared] /\ \A k \in Jobs : job'[k].made = job[k].made
  BY PreparedTypes DEF Dispatch, BatchInv, PreparationState
<1> QED
  BY <1>1, <1>2, NoteAwaitKeeps DEF Dispatch

\* A ready review is continued, another one tells what it waits for.
LEMMA ContinueKeeps ==
  ASSUME BatchInv, NEW j \in Jobs, NEW m \in Row, m = member[j], Continue(j, m),
         tick.at # "note", m.state = "pending", m.draft = 0,
         UNCHANGED <<retries, draft, control, owed>>
  PROVE  Upheld
<1>1. CASE ~Ready(j)
  <2>1. PICK state \in {"technical", "question"} : Save(j, [m EXCEPT !.state = state])
    BY <1>1 DEF Continue
  <2>2. UNCHANGED <<job, restarts>>
    BY <1>1 DEF Continue
  <2> QED
    BY <2>1, <2>2, StateKeeps DEF MemberState
<1>2. CASE Ready(j)
  <2>1. Dispatch(j, m) \/ (Caught(j, m) /\ UNCHANGED <<job, restarts>>)
    BY <1>2 DEF Continue
  <2> QED
    BY <2>1, DispatchKeeps, CaughtKeeps
<1> QED
  BY <1>1, <1>2

LEMMA PickedMember ==
  ASSUME BatchInv, NEW j \in Jobs, Picks(j)
  PROVE  /\ tick.at = "pick" /\ tick.gen \in Nat
         /\ member[j] \in Row /\ member[j].state = "pending"
BY DEF Picks, First, Pending, BatchInv, Types

LEMMA PickFreshKeeps ==
  ASSUME BatchInv, NEW j \in Jobs, PickFresh(j)
  PROVE  Upheld
<1>1. /\ Picks(j) /\ member[j].draft = 0
      /\ UNCHANGED <<retries, draft, control, owed>>
  BY DEF PickFresh, Prepares
<1>2. tick.at = "pick" /\ member[j] \in Row /\ member[j].state = "pending"
  BY <1>1, PickedMember
<1>3. CASE Dispatch(j, member[j])
  BY <1>1, <1>2, <1>3, DispatchKeeps
<1>4. CASE Caught(j, member[j]) /\ UNCHANGED <<job, restarts>>
  BY <1>1, <1>2, <1>4, CaughtKeeps
<1>5. CASE /\ job' = [job EXCEPT ![j].prep = "queued"]
           /\ Await("note", [member[j] EXCEPT !.state = "running", !.attempt = NONE], j)
           /\ UNCHANGED <<member, restarts>>
  <2>1. job' \in [Jobs -> Prepared] /\ \A k \in Jobs : job'[k].made = job[k].made
    BY <1>5, PreparedTypes DEF BatchInv, PreparationState
  <2> QED
    BY <1>1, <1>2, <1>5, <2>1, NoteAwaitKeeps
<1> QED
  BY <1>3, <1>4, <1>5 DEF PickFresh

LEMMA PickCheckKeeps ==
  ASSUME BatchInv, NEW j \in Jobs, PickCheck(j)
  PROVE  Upheld
<1>1. /\ Picks(j) /\ member[j].draft = 0
      /\ UNCHANGED <<retries, job, draft, control, owed, restarts>>
  BY DEF PickCheck, Prepares
<1>2. tick.at = "pick" /\ member[j] \in Row /\ member[j].state = "pending" /\ tick.gen \in Nat
  BY <1>1, PickedMember
<1>3. CASE Await("facts", member[j], j) /\ UNCHANGED member
  BY <1>1, <1>2, <1>3, AwaitKeeps DEF Await
<1>4. CASE Caught(j, member[j])
  BY <1>1, <1>2, <1>4, CaughtKeeps
<1> QED
  BY <1>3, <1>4 DEF PickCheck

\* A draft that was published leaves nothing owed.
LEMMA PickDraftKeeps ==
  ASSUME BatchInv, NEW j \in Jobs, PickDraft(j)
  PROVE  Upheld
<1> USE DEF BatchInv
<1>1. /\ Picks(j) /\ member[j].draft # 0
      /\ UNCHANGED <<retries, job, draft, control, owed, restarts>>
  BY DEF PickDraft
<1>2. tick.at = "pick" /\ member[j] \in Row /\ member[j].state = "pending" /\ control.gen \in Nat
  BY <1>1, PickedMember DEF Types
<1>3. CASE Caught(j, member[j])
  BY <1>1, <1>2, <1>3, CaughtKeeps
<1>4. CASE Rest /\ UNCHANGED member
  BY <1>1, <1>2, <1>4, RestKeeps
<1>5. CASE /\ tick' = [at |-> "draftFacts", job |-> j, copy |-> member[j], gen |-> control.gen]
           /\ UNCHANGED member
  BY <1>1, <1>2, <1>5, AwaitKeeps
<1>6. CASE job[j].made = member[j].draft /\ Save(j, Published(member[j]))
  <2> DEFINE row == Published(member[j])
  <2>1. /\ row \in Row /\ row.state = "ready" /\ row.draft = 0 /\ row.cycle = member[j].cycle
    BY <1>2 DEF Row, Published, MemberState
  <2>2. Save(j, row)
    BY <1>6
  <2> HIDE DEF row
  <2>3. owed[j] = 0
    BY <1>1, <1>6 DEF Owing
  <2>4. /\ job' \in [Jobs -> Prepared] /\ owed' \in [Jobs -> Nat] /\ Wanted /\ member'[j] = row
    BY <1>1, <2>2 DEF Types, Wanted, Save
  <2>5. Owing(j)'
    BY <1>1, <2>1, <2>3, <2>4 DEF Owing
  <2> QED
    BY <1>1, <1>2, <2>1, <2>2, <2>4, <2>5, SaveKeeps
<1> QED
  BY <1>3, <1>4, <1>5, <1>6 DEF PickDraft

LEMMA PickStep ==
  ASSUME BatchInv, NEW j \in Jobs, Pick(j)
  PROVE  Upheld
<1>1. CASE PickReady(j)
  <2>1. tick.at = "pick" /\ member[j] \in Row /\ member[j].draft = 0
    BY <1>1, PickedMember DEF PickReady
  <2> QED
    BY <1>1, <2>1, StateKeeps DEF PickReady, MemberState
<1>2. CASE PickReview(j)
  <2>1. tick.at = "pick" /\ member[j] \in Row /\ member[j].state = "pending" /\ member[j].draft = 0
    BY <1>2, PickedMember DEF PickReview, Prepares
  <2> QED
    BY <1>2, <2>1, ContinueKeeps DEF PickReview
<1> QED
  BY <1>1, <1>2, PickFreshKeeps, PickCheckKeeps, PickDraftKeeps DEF Pick

-----------------------------------------------------------------------------
(* After an await.                                                            *)

LEMMA AwaitingMember ==
  ASSUME BatchInv, NEW j \in Jobs, tick.job = j, tick.at \in Drafting \cup {"facts"}
  PROVE  /\ tick.copy \in Row /\ tick.copy.state = "pending" /\ member[j] \in Row
         /\ tick.at # "note"
         /\ tick.copy.cycle = member[j].cycle => member[j] = tick.copy
BY DEF BatchInv, Ticks, Types, Drafting

LEMMA FactsKeeps ==
  ASSUME BatchInv, NEW j \in Jobs, Facts(j)
  PROVE  Upheld
<1>1. /\ tick.at = "facts" /\ tick.job = j
      /\ UNCHANGED <<retries, draft, control, owed>>
  BY DEF Facts
<1>2. /\ tick.copy \in Row /\ tick.copy.state = "pending" /\ tick.at # "note"
      /\ tick.copy.cycle = member[j].cycle => member[j] = tick.copy
      /\ tick.copy.draft = 0
  BY <1>1, AwaitingMember DEF BatchInv, Ticks
<1>3. CASE Rest /\ UNCHANGED <<member, job, restarts>>
  BY <1>1, <1>2, <1>3, RestKeeps
<1>4. CASE StillWanted(j) /\ Continue(j, tick.copy)
  <2>1. member[j] = tick.copy
    BY <1>2, <1>4 DEF StillWanted
  <2> QED
    BY <1>1, <1>2, <1>4, <2>1, ContinueKeeps
<1> QED
  BY <1>3, <1>4 DEF Facts

\* A tick whose draft was looked at goes on with its copy.
LEMMA AdvanceKeeps ==
  ASSUME BatchInv, NEW j \in Jobs, tick.job = j, tick.at \in Drafting, NEW place \in Drafting,
         tick' = [tick EXCEPT !.at = place],
         UNCHANGED <<member, retries, job, draft, control, owed, restarts>>
  PROVE  Upheld
<1> USE DEF BatchInv
<1>1. /\ tick'.at = place /\ tick'.job = j /\ tick'.copy = tick.copy
      /\ tick' \in [at : Place, job : Jobs \cup {NONE}, copy : Row \cup {NONE}, gen : Nat]
  BY DEF Types, Drafting, Place
<1>2. Types'
  BY <1>1 DEF Types
<1>3. Ticks'
  BY <1>1 DEF Ticks, Drafting
<1>4. \A k \in Jobs : ~Noting(k) /\ ~Noting(k)'
  BY <1>1 DEF Noting, Drafting
<1>5. \A k \in Jobs : Owing(k)' /\ Counted(k)'
  BY <1>4, OwingKept, CountedKept
<1>6. Rising /\ Wanted
  <2>1. \A k \in Jobs : member[k].cycle \in Nat
    BY DEF Types, Row
  <2> QED
    BY <2>1 DEF Rising, Wanted
<1> QED
  BY <1>2, <1>3, <1>5, <1>6 DEF Upheld

LEMMA DraftFactsKeeps ==
  ASSUME BatchInv, NEW j \in Jobs, DraftFacts(j)
  PROVE  Upheld
<1>1. /\ tick.at = "draftFacts" /\ tick.job = j /\ tick.at \in Drafting
      /\ UNCHANGED <<retries, job, draft, control, owed, restarts>>
  BY DEF DraftFacts, Step, Drafting
<1>2. CASE tick' = [tick EXCEPT !.at = "draftCheck"] /\ UNCHANGED member
  BY <1>1, <1>2, AdvanceKeeps DEF Drafting
<1>3. CASE Caught(j, tick.copy)
  BY <1>1, <1>3, AwaitingMember, CaughtKeeps
<1> QED
  BY <1>2, <1>3 DEF DraftFacts

LEMMA DraftCheckKeeps ==
  ASSUME BatchInv, NEW j \in Jobs, DraftCheck(j)
  PROVE  Upheld
<1>1. /\ tick.at = "draftCheck" /\ tick.job = j /\ tick.at \in Drafting
      /\ UNCHANGED <<retries, job, draft, control, owed, restarts>>
  BY DEF DraftCheck, Step, Drafting
<1>2. /\ tick.copy \in Row /\ tick.at # "note"
      /\ tick.copy.cycle = member[j].cycle => member[j] = tick.copy
  BY <1>1, AwaitingMember
<1>3. CASE Caught(j, tick.copy)
  BY <1>1, <1>2, <1>3, CaughtKeeps
<1>4. CASE Rest /\ UNCHANGED member
  BY <1>1, <1>2, <1>4, RestKeeps
<1>5. CASE tick' = [tick EXCEPT !.at = "finalize"] /\ UNCHANGED member
  BY <1>1, <1>5, AdvanceKeeps DEF Drafting
<1>6. CASE SameCycle(j) /\ \E state \in {"technical", "question"} : Save(j, [tick.copy EXCEPT !.state = state])
  <2>1. PICK state \in {"technical", "question"} : Save(j, [tick.copy EXCEPT !.state = state])
    BY <1>6
  <2>2. tick.copy = member[j]
    BY <1>2, <1>6 DEF SameCycle
  <2> QED
    BY <1>1, <1>2, <2>1, <2>2, StateKeeps DEF MemberState
<1> QED
  BY <1>3, <1>4, <1>5, <1>6 DEF DraftCheck

\* What a publication makes of the job, with the save after it or without.
LEMMA PublishFacts ==
  ASSUME BatchInv, NEW j \in Jobs, tick.job = j, tick.at = "finalize", Publish(j)
  PROVE  /\ job' \in [Jobs -> Prepared] /\ owed' \in [Jobs -> Nat]
         /\ \A k \in Jobs \ {j} : owed'[k] = owed[k] /\ job'[k] = job[k]
         /\ job'[j].made = draft[j] /\ owed'[j] \in {0, owed[j]}
         /\ draft[j] # 0 => owed'[j] # draft[j]
         /\ member[j] = tick.copy /\ draft[j] = tick.copy.draft
         /\ Wanted
<1> USE DEF BatchInv
<1>1. /\ tick.copy \in Row /\ draft[j] = tick.copy.draft /\ member[j] = tick.copy
      /\ control.gen = tick.gen /\ control.halt # "stopped"
  BY AwaitingMember DEF Drafting, Publish, MayPublish, StillWanted
<1>2. job[j] \in Prepared /\ owed[j] \in Nat /\ draft[j] \in Nat
  BY DEF Types
<1> DEFINE new == [job[j] EXCEPT !.prep = "resume_ready", !.made = tick.copy.draft]
<1>3. new \in Prepared /\ new.made = draft[j]
  BY <1>1, <1>2 DEF Prepared, PreparationState
<1>4. job' = [job EXCEPT ![j] = new]
  BY <1>2 DEF Publish, Types
<1> HIDE DEF new
<1>5. /\ job' \in [Jobs -> Prepared] /\ job'[j] = new /\ \A k \in Jobs \ {j} : job'[k] = job[k]
  BY <1>3, <1>4 DEF Types
<1>6. /\ owed'[j] = IF owed[j] = draft[j] THEN 0 ELSE owed[j]
      /\ owed' \in [Jobs -> Nat] /\ \A k \in Jobs \ {j} : owed'[k] = owed[k]
  BY <1>1, <1>2 DEF Publish, Types
<1>7. Wanted
  BY <1>1, <1>3, <1>5 DEF Wanted
<1> QED
  BY <1>1, <1>3, <1>5, <1>6, <1>7

LEMMA FinalizeKeeps ==
  ASSUME BatchInv, NEW j \in Jobs, Finalize(j)
  PROVE  Upheld
<1> USE DEF BatchInv
<1>1. /\ tick.at = "finalize" /\ tick.job = j /\ tick.at \in Drafting
      /\ UNCHANGED <<retries, draft, control, restarts>>
  BY DEF Finalize, Step, Drafting
<1>2. tick.copy \in Row /\ tick.at # "note"
      /\ (tick.copy.cycle = member[j].cycle => member[j] = tick.copy)
  BY <1>1, AwaitingMember
<1>3. CASE Caught(j, tick.copy) /\ UNCHANGED <<job, owed>>
  BY <1>1, <1>2, <1>3, CaughtKeeps
<1>4. CASE Publish(j) /\ Save(j, Published(tick.copy))
  <2> DEFINE row == Published(tick.copy)
  <2>1. /\ row \in Row /\ row.state = "ready" /\ row.draft = 0 /\ row.cycle = tick.copy.cycle
    BY <1>2 DEF Row, Published, MemberState
  <2>2. Save(j, row)
    BY <1>4
  <2> HIDE DEF row
  <2>3. /\ job' \in [Jobs -> Prepared] /\ owed' \in [Jobs -> Nat]
        /\ \A k \in Jobs \ {j} : owed'[k] = owed[k] /\ job'[k] = job[k]
        /\ job'[j].made = draft[j] /\ owed'[j] \in {0, owed[j]}
        /\ draft[j] # 0 => owed'[j] # draft[j]
        /\ member[j] = tick.copy /\ draft[j] = tick.copy.draft
        /\ Wanted
    BY <1>1, <1>4, PublishFacts
  <2>4. /\ member'[j] = row /\ draft[j] \in Nat /\ draft' = draft
    BY <1>1, <2>2 DEF Save, Types
  <2>5. owed'[j] = 0
    BY <2>3 DEF Owing
  <2>6. Owing(j)'
    BY <2>1, <2>3, <2>4, <2>5 DEF Owing
  <2> QED
    BY <1>1, <1>2, <2>1, <2>2, <2>3, <2>6, SaveKeeps
<1> QED
  BY <1>3, <1>4 DEF Finalize

LEMMA NoteKeeps ==
  ASSUME BatchInv, Note
  PROVE  Upheld
<1> USE DEF BatchInv
<1>1. /\ tick.at = "note" /\ UNCHANGED <<retries, job, draft, control, owed, restarts>>
  BY DEF Note
<1>2. PICK j \in Jobs : tick.job = j
  BY <1>1 DEF Ticks
<1>3. PICK row \in Row : row = tick.copy
  BY <1>1 DEF Ticks
<1>4. /\ Save(j, row) /\ row.state = "running" /\ row.draft = 0
      /\ row.cycle = member[j].cycle /\ member[j].draft = 0
  BY <1>1, <1>2, <1>3 DEF Note, Ticks
<1>5. /\ job' \in [Jobs -> Prepared] /\ owed' \in [Jobs -> Nat] /\ Wanted /\ member'[j] = row
  BY <1>1, <1>4 DEF Types, Wanted, Save
<1>6. Owing(j)'
  BY <1>1, <1>4, <1>5 DEF Owing
<1> QED
  BY <1>1, <1>2, <1>4, <1>5, <1>6, SaveKeeps

LEMMA CoordinatorStep ==
  ASSUME BatchInv, Coordinator
  PROVE  Upheld
<1>1. CASE PickNothing
  BY <1>1, RestKeeps DEF PickNothing, db
<1>2. ASSUME NEW j \in Jobs, Pick(j) \/ Awaited(j)
      PROVE  Upheld
  BY <1>2, PickStep, FactsKeeps, DraftFactsKeeps, DraftCheckKeeps, FinalizeKeeps DEF Awaited
<1> QED
  BY <1>1, <1>2, JudgeKeeps, NoteKeeps DEF Coordinator

-----------------------------------------------------------------------------
(* Crashes.                                                                   *)

LEMMA CrashKeeps ==
  ASSUME BatchInv, Crash, job' \in [Jobs -> Prepared], draft' \in [Jobs -> Nat],
         owed' \in [Jobs -> Nat], \A k \in Jobs : Owing(k)', Wanted
  PROVE  Upheld
<1> USE DEF BatchInv
<1>1. UNCHANGED <<member, retries, control>> /\ Rest
  BY DEF Crash
<1>2. Ticks' /\ \A k \in Jobs : ~Noting(k)'
  BY <1>1, TickRested
<1>3. ASSUME NEW k \in Jobs
      PROVE  /\ restarts'[k] \in Nat
             /\ restarts'[k] = IF Noting(k) THEN restarts[k] - 1 ELSE restarts[k]
  <2>1. /\ restarts'[k] = IF Noting(k) THEN restarts[k] - 1 ELSE restarts[k]
        /\ restarts[k] \in Nat
    BY DEF Crash, Noting, Types
  <2> QED
    BY <2>1 DEF Counted
<1>4. restarts' \in [Jobs -> Nat]
  <2>1. CASE tick.at = "note" /\ tick.copy.attempt # NONE
    <3>1. restarts' = [restarts EXCEPT ![tick.job] = @ - 1]
      BY <2>1 DEF Crash
    <3>2. restarts' = [k \in Jobs |-> restarts'[k]]
      BY <3>1 DEF Types
    <3> QED
      BY <1>3, <3>2
  <2>2. CASE ~(tick.at = "note" /\ tick.copy.attempt # NONE)
    BY <2>2 DEF Crash, Types
  <2> QED
    BY <2>1, <2>2
<1>5. Types'
  BY <1>1, <1>4, RestTypes DEF Types
<1>6. \A k \in Jobs : Counted(k)'
  <2> SUFFICES ASSUME NEW k \in Jobs
               PROVE  Counted(k)'
    OBVIOUS
  <2>1. restarts[k] \in Nat /\ retries[k] \in Nat
    BY DEF Types
  <2> QED
    BY <1>1, <1>2, <1>3, <2>1 DEF Counted
<1>7. Rising
  <2>1. \A k \in Jobs : member[k].cycle \in Nat
    BY DEF Types, Row
  <2> QED
    BY <1>1, <2>1 DEF Rising
<1> QED
  BY <1>2, <1>5, <1>6, <1>7 DEF Upheld

LEMMA CrashStep ==
  ASSUME BatchInv,
         CrashAnywhere \/ \E j \in Jobs : CrashBeforeEdited(j) \/ CrashBeforeSave(j)
  PROVE  Upheld
<1> USE DEF BatchInv
<1>1. UNCHANGED member
  BY DEF CrashAnywhere, CrashBeforeEdited, CrashBeforeSave, Crash
<1>2. CASE CrashAnywhere
  <2>1. /\ Crash /\ job' \in [Jobs -> Prepared] /\ draft' \in [Jobs -> Nat]
        /\ owed' \in [Jobs -> Nat] /\ Wanted
    BY <1>2 DEF CrashAnywhere, Types, Wanted
  <2>2. \A k \in Jobs : Owing(k)'
    BY <1>1, <1>2, OwingKept DEF CrashAnywhere
  <2> QED
    BY <2>1, <2>2, CrashKeeps
<1>3. ASSUME NEW j \in Jobs, CrashBeforeEdited(j)
      PROVE  Upheld
  <2>1. /\ Crash /\ job' \in [Jobs -> Prepared] /\ draft' \in [Jobs -> Nat]
        /\ owed' \in [Jobs -> Nat] /\ Wanted
    BY <1>3 DEF CrashBeforeEdited, Types, Wanted
  <2>2. \A k \in Jobs : draft'[k] >= draft[k] /\ draft[k] \in Nat /\ draft'[k] \in Nat /\ job[k].made \in Nat
    BY <1>3 DEF CrashBeforeEdited, Types, Prepared
  <2>3. \A k \in Jobs : Owing(k)'
    BY <1>1, <1>3, <2>2 DEF Owing, CrashBeforeEdited
  <2> QED
    BY <2>1, <2>3, CrashKeeps
<1>4. ASSUME NEW j \in Jobs, CrashBeforeSave(j)
      PROVE  Upheld
  <2>1. /\ Crash /\ tick.job = j /\ tick.at = "finalize" /\ Publish(j) /\ draft' = draft
    BY <1>4 DEF CrashBeforeSave
  <2>2. /\ job' \in [Jobs -> Prepared] /\ owed' \in [Jobs -> Nat]
        /\ \A k \in Jobs \ {j} : owed'[k] = owed[k] /\ job'[k] = job[k]
        /\ job'[j].made = draft[j] /\ owed'[j] \in {0, owed[j]}
        /\ draft[j] # 0 => owed'[j] # draft[j]
        /\ member[j] = tick.copy /\ draft[j] = tick.copy.draft
        /\ Wanted
    BY <2>1, PublishFacts
  <2>3. Owing(j)'
    BY <1>1, <2>1, <2>2 DEF Owing, Types
  <2>4. \A k \in Jobs : Owing(k)'
    BY <1>1, <2>1, <2>2, <2>3, OwingKept
  <2>5. draft' \in [Jobs -> Nat]
    BY <2>1 DEF Types
  <2> QED
    BY <2>1, <2>2, <2>4, <2>5, CrashKeeps
<1> QED
  BY <1>2, <1>3, <1>4

-----------------------------------------------------------------------------
LEMMA InitHolds ==
  ASSUME Init
  PROVE  BatchInv
<1>1. Types
  <2>1. /\ [state |-> "none", cycle |-> 0, attempt |-> NONE, draft |-> 0] \in Row
        /\ [prep |-> "saved", fits |-> FALSE, made |-> 0, inactive |-> FALSE] \in Prepared
        /\ Resting \in [at : Place, job : Jobs \cup {NONE}, copy : Row \cup {NONE}, gen : Nat]
    BY DEF Row, MemberState, Prepared, PreparationState, Resting, Place
  <2> QED
    BY <2>1 DEF Init, Types
<1>2. Ticks /\ \A j \in Jobs : Owing(j) /\ Counted(j)
  BY DEF Init, Resting, Ticks, Drafting, Owing, Counted, Noting
<1> QED
  BY <1>1, <1>2 DEF BatchInv

LEMMA NextKeeps ==
  ASSUME BatchInv, [Next]_vars
  PROVE  Upheld
<1>1. CASE Others
  BY <1>1, AttemptEndsKeeps, CheckEndsKeeps DEF Others
<1>2. CASE UNCHANGED vars
  BY <1>2, AsideKeeps DEF vars, BatchInv, Types
<1> QED
  BY <1>1, <1>2, PersonStep, StopKeeps, CoordinatorStep, CrashStep DEF Next

\* What the coordinator knows of a member it waits for, what it owes and what it
\* started, in every reachable state.
THEOREM BatchInvHolds == Spec => []BatchInv
<1>1. BatchInv /\ [Next]_vars => BatchInv'
  BY NextKeeps DEF Upheld
<1> QED
  BY <1>1, InitHolds, PTL DEF Spec

\* However edits, answers, retries, stops and crashes fall into the awaits of the
\* coordinator, a member that is shown as ready owes no edit it was told of.
THEOREM ReadyMembersAreCurrent == Spec => []ReadyIsLatestEdit
<1>1. BatchInv => ReadyIsLatestEdit
  BY DEF BatchInv, Owing, ReadyIsLatestEdit
<1> QED
  BY <1>1, BatchInvHolds, PTL

\* Between two acts of a person on a job, the coordinator prepares it at most
\* twice.
THEOREM RestartsAreBounded == Spec => []AutomaticRestartsBounded
<1>1. BatchInv => AutomaticRestartsBounded
  BY DEF BatchInv, Types, Counted, AutomaticRestartsBounded
<1> QED
  BY <1>1, BatchInvHolds, PTL

\* No member goes back to an earlier cycle: a tick that awaited never saves what
\* it read over the cycle a person began meanwhile.
THEOREM CyclesOnlyRise == Spec => SupersededNeverSaves
<1>1. BatchInv /\ [Next]_vars => [\A j \in Jobs : member'[j].cycle >= member[j].cycle]_vars
  BY NextKeeps DEF Upheld, Rising
<1> QED
  BY <1>1, BatchInvHolds, PTL DEF Spec, SupersededNeverSaves

\* A draft is published only as it was last saved, in the stop generation in which
\* the tick picked it.
THEOREM PublishedAsWanted == Spec => PublishesOnlyWanted
<1>1. BatchInv /\ [Next]_vars =>
        [\A j \in Jobs : job'[j].made \notin {0, job[j].made} =>
           /\ job'[j].made = draft[j] /\ control.halt # "stopped" /\ control.gen = tick.gen]_vars
  BY NextKeeps DEF Upheld, Wanted
<1> QED
  BY <1>1, BatchInvHolds, PTL DEF Spec, PublishesOnlyWanted
=============================================================================
