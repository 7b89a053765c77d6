--------------------------- MODULE JobQueueProofs ---------------------------
(***************************************************************************)
(* Proofs about JobQueue, for any number of jobs, attempts, inputs and     *)
(* processes, in three parts: its types; that the queue owns one slot, and *)
(* implements PreparationSlot; and what its rows promise.                  *)
(***************************************************************************)
EXTENDS JobQueue, TLAPS

-----------------------------------------------------------------------------
(* I.  Types.  They need that references are bound.                          *)

\* References are bound: rows and processes name only attempts and inputs
\* that exist, and a job's current attempt is one of its own.
Bound ==
  /\ \A a \in Attempt : attempt[a].status # "none" =>
       attempt[a].job \in Job /\ attempt[a].input \in Input
  /\ \A j \in Job : job[j].current_attempt # NONE =>
       /\ attempt[job[j].current_attempt].status # "none"
       /\ attempt[job[j].current_attempt].job = j
  /\ \A p \in Proc :
       /\ proc[p].pc = "picked" => proc[p].job \in Job /\ proc[p].input \in Input
       /\ Executing(p) => /\ proc[p].attempt \in Attempt
                          /\ attempt[proc[p].attempt].status # "none"
  /\ \A a \in Attempt : run[a] # NONE => attempt[a].status # "none"

TypeInv == TypeOK /\ Bound

Action == {"prepare", "claim", "block", "fit_complete", "complete", "fail",
           "interrupt", "cancel", "resume", "retry", "reprepare"}

-----------------------------------------------------------------------------
(* What the operators on rows return *)

\* Preparing a row yields a row, and moves nothing but the preparation fields.
LEMMA PreparedRow ==
  ASSUME TypeInv, NEW row \in JobRow, NEW action \in Action,
         row.current_attempt # NONE => attempt[row.current_attempt].status # "none"
  PROVE  /\ Prepared(row, action) \in JobRow
         /\ Prepared(row, action).current_attempt = row.current_attempt
<1>1. EdgeTo(action) \in PreparationState
  BY DEF EdgeTo, Action, PreparationState
<1>2. RecoveryAfter(row, action) \in Recovery
  BY DEF RecoveryAfter, Recovery, JobRow
<1>3. CASE RestoresFitState(row, action)
  <2> DEFINE captured == input[attempt[row.current_attempt].input]
  <2>1. row.current_attempt \in Attempt
    BY <1>3 DEF RestoresFitState, JobRow
  <2>2. captured \in InputRow
    BY <2>1, <1>3 DEF TypeInv, TypeOK, Bound, RestoresFitState
  <2>3. /\ captured.return_state \in PreparationState
        /\ captured.return_missing \in SUBSET {"posting_text", "blocker"}
        /\ captured.return_recovery \in Recovery
    BY <2>2 DEF InputRow, PreparationState, Recovery
  <2> HIDE DEF captured
  <2>4. Prepared(row, action) =
          [row EXCEPT !.preparation_state = captured.return_state,
                      !.missing_inputs = captured.return_missing,
                      !.recovery = captured.return_recovery]
    BY <1>3 DEF Prepared, captured
  <2> QED BY <2>3, <2>4 DEF JobRow
<1>4. CASE ~RestoresFitState(row, action)
  BY <1>1, <1>2, <1>4 DEF Prepared, JobRow
<1> QED BY <1>3, <1>4

\* A preparation that is not a claim never leaves the job preparing.
LEMMA PreparedIsNotPreparing ==
  ASSUME TypeInv, NEW row \in JobRow, NEW action \in Action \ {"claim"},
         row.current_attempt # NONE => attempt[row.current_attempt].status # "none"
  PROVE  Prepared(row, action).preparation_state # "preparing"
<1>1. EdgeTo(action) # "preparing"
  BY DEF EdgeTo, Action
<1>3. CASE RestoresFitState(row, action)
  <2> DEFINE captured == input[attempt[row.current_attempt].input]
  <2>2. captured \in InputRow
    BY <1>3 DEF TypeInv, TypeOK, Bound, RestoresFitState, JobRow
  <2>3. captured.return_state # "preparing"
    BY <2>2 DEF InputRow
  <2> HIDE DEF captured
  <2>4. Prepared(row, action) =
          [row EXCEPT !.preparation_state = captured.return_state,
                      !.missing_inputs = captured.return_missing,
                      !.recovery = captured.return_recovery]
    BY <1>3 DEF Prepared, captured
  <2> QED BY <2>3, <2>4 DEF JobRow
<1>4. CASE ~RestoresFitState(row, action)
  BY <1>1, <1>4 DEF Prepared, JobRow
<1> QED BY <1>3, <1>4

\* Closing attempts writes their status only.
LEMMA ClosedRows ==
  ASSUME TypeOK, NEW S, NEW status \in AttemptStatus
  PROVE  /\ Closed(S, status) \in [Attempt -> AttemptRow]
         /\ \A a \in Attempt :
              /\ Closed(S, status)[a].status = IF a \in S THEN status ELSE attempt[a].status
              /\ Closed(S, status)[a].job = attempt[a].job
              /\ Closed(S, status)[a].input = attempt[a].input
              /\ Closed(S, status)[a].checkpoint = attempt[a].checkpoint
              /\ Closed(S, status)[a].artifact = attempt[a].artifact
  BY DEF Closed, TypeOK, AttemptRow

\* Releasing jobs prepares each of them once.
LEMMA ReleasedRows ==
  ASSUME TypeInv, NEW S, NEW action \in Action \ {"claim"}
  PROVE  /\ Released(S, action) \in [Job -> JobRow]
         /\ \A j \in Job :
              /\ Released(S, action)[j].current_attempt = job[j].current_attempt
              /\ Released(S, action)[j].preparation_state = "preparing" =>
                   /\ job[j].preparation_state = "preparing"
                   /\ ~ \E a \in S : attempt[a].job = j
              /\ (~ \E a \in S : attempt[a].job = j) => Released(S, action)[j] = job[j]
<1>1. ASSUME NEW j \in Job
      PROVE  /\ job[j] \in JobRow
             /\ job[j].current_attempt # NONE => attempt[job[j].current_attempt].status # "none"
  BY DEF TypeInv, TypeOK, Bound
<1>2. ASSUME NEW j \in Job
      PROVE  /\ Prepared(job[j], action) \in JobRow
             /\ Prepared(job[j], action).current_attempt = job[j].current_attempt
             /\ Prepared(job[j], action).preparation_state # "preparing"
  BY <1>1, PreparedRow, PreparedIsNotPreparing
<1> QED BY <1>1, <1>2 DEF Released

LEMMA IdleWorker ==
  ASSUME TypeOK, NEW p \in Proc
  PROVE  /\ Idle(p) \in Worker
         /\ Idle(p).pc = "idle"
         /\ Settled(p) \in Worker
         /\ Settled(p).pc \in {"idle", "loop"}
<1>1. proc[p] \in Worker
  BY DEF TypeOK
<1>2. 0 \in 0..MaxGen
  BY ConstantsAssumption
<1>3. Idle(p) \in Worker /\ Idle(p).pc = "idle"
  BY <1>1, <1>2 DEF Idle, Worker, WorkerPc
<1> QED BY <1>1, <1>3 DEF Settled, Worker, WorkerPc

-----------------------------------------------------------------------------
(* Steps that keep every reference *)

\* The rows after a step: the same references, and no attempt appears.
RowsKept ==
  /\ attempt' \in [Attempt -> AttemptRow]
  /\ job' \in [Job -> JobRow]
  /\ \A a \in Attempt :
       /\ attempt'[a].job = attempt[a].job
       /\ attempt'[a].input = attempt[a].input
       /\ attempt'[a].status = "none" <=> attempt[a].status = "none"
  /\ \A j \in Job : job'[j].current_attempt = job[j].current_attempt

\* The processes after a step: nobody picks a job or begins to execute.
ProcsKept ==
  /\ proc' \in [Proc -> Worker]
  /\ \A p \in Proc :
       /\ proc'[p].pc = "picked" => /\ proc[p].pc = "picked"
                                    /\ proc'[p].job = proc[p].job
                                    /\ proc'[p].input = proc[p].input
       /\ proc'[p].pc \in {"exec", "launched"} =>
            proc[p].pc \in {"exec", "launched"} /\ proc'[p].attempt = proc[p].attempt

RunsKept ==
  /\ run' \in [Attempt -> Proc \cup {NONE}]
  /\ \A a \in Attempt : run'[a] # NONE => run[a] # NONE

LEMMA KeptBound ==
  ASSUME TypeInv, RowsKept, ProcsKept, RunsKept
  PROVE  Bound'
<1>1. \A a \in Attempt : attempt'[a].status # "none" =>
        attempt'[a].job \in Job /\ attempt'[a].input \in Input
  BY DEF TypeInv, TypeOK, Bound, RowsKept
<1>2. \A j \in Job : job'[j].current_attempt # NONE =>
        /\ attempt'[job'[j].current_attempt].status # "none"
        /\ attempt'[job'[j].current_attempt].job = j
  <2> SUFFICES ASSUME NEW j \in Job, job'[j].current_attempt # NONE
               PROVE  /\ attempt'[job'[j].current_attempt].status # "none"
                      /\ attempt'[job'[j].current_attempt].job = j
    OBVIOUS
  <2>1. job'[j].current_attempt = job[j].current_attempt /\ job[j].current_attempt \in Attempt
    BY DEF TypeInv, TypeOK, JobRow, RowsKept
  <2> QED BY <2>1 DEF TypeInv, Bound, RowsKept
<1>3. \A p \in Proc :
        /\ proc'[p].pc = "picked" => proc'[p].job \in Job /\ proc'[p].input \in Input
        /\ Executing(p)' => /\ proc'[p].attempt \in Attempt
                            /\ attempt'[proc'[p].attempt].status # "none"
  BY DEF TypeInv, Bound, RowsKept, ProcsKept, Executing
<1>4. \A a \in Attempt : run'[a] # NONE => attempt'[a].status # "none"
  BY DEF TypeInv, Bound, RowsKept, RunsKept
<1> QED BY <1>1, <1>2, <1>3, <1>4 DEF Bound

LEMMA SameRows ==
  ASSUME TypeInv, UNCHANGED <<job, attempt>>
  PROVE  RowsKept
  BY DEF TypeInv, TypeOK, RowsKept

LEMMA SameProcs == ASSUME TypeInv, UNCHANGED proc PROVE ProcsKept
  BY DEF TypeInv, TypeOK, ProcsKept

LEMMA SameRuns == ASSUME TypeInv, UNCHANGED run PROVE RunsKept
  BY DEF TypeInv, TypeOK, RunsKept

\* Ending an attempt writes its status and prepares its job, or nothing.
LEMMA FinishKeepsRows ==
  ASSUME TypeInv, NEW a \in Attempt, attempt[a].status # "none",
         NEW status \in AttemptStatus \ {"none"}, NEW action \in Action \ {"claim"},
         NEW row \in JobRow, row.current_attempt = job[attempt[a].job].current_attempt,
         Finish(a, status, action, row)
  PROVE  RowsKept
<1>1. CASE Fenced(a)
  <2>1. /\ attempt' = Closed({a}, status)
        /\ job' = [job EXCEPT ![attempt[a].job] = Prepared(row, action)]
    BY <1>1 DEF Finish
  <2>2. attempt[a].job \in Job
    BY DEF TypeInv, Bound
  <2>3. row.current_attempt # NONE => attempt[row.current_attempt].status # "none"
    BY <2>2 DEF TypeInv, Bound
  <2>4. /\ Prepared(row, action) \in JobRow
        /\ Prepared(row, action).current_attempt = row.current_attempt
    BY <2>3, PreparedRow
  <2>5. job \in [Job -> JobRow]
    BY DEF TypeInv, TypeOK
  <2>6. /\ job' \in [Job -> JobRow]
        /\ \A j \in Job : job'[j].current_attempt = job[j].current_attempt
    BY <2>1, <2>2, <2>4, <2>5
  <2>7. /\ attempt' \in [Attempt -> AttemptRow]
        /\ \A b \in Attempt : /\ attempt'[b].status = IF b \in {a} THEN status ELSE attempt[b].status
                              /\ attempt'[b].job = attempt[b].job
                              /\ attempt'[b].input = attempt[b].input
    BY <2>1, ClosedRows DEF TypeInv
  <2> QED BY <2>6, <2>7 DEF RowsKept
<1>2. CASE ~Fenced(a)
  BY <1>2, SameRows DEF Finish
<1> QED BY <1>1, <1>2

\* Closing the attempts of S and releasing their jobs.
LEMMA CloseAndReleaseKeepRows ==
  ASSUME TypeInv, NEW S \in SUBSET Active, NEW status \in AttemptStatus \ {"none"},
         NEW action \in Action \ {"claim"},
         attempt' = Closed(S, status), job' = Released(S, action)
  PROVE  RowsKept
<1>1. \A a \in S : a \in Attempt /\ attempt[a].status # "none"
  BY DEF Active
<1>2. /\ attempt' \in [Attempt -> AttemptRow]
      /\ \A a \in Attempt : /\ attempt'[a].status = IF a \in S THEN status ELSE attempt[a].status
                            /\ attempt'[a].job = attempt[a].job
                            /\ attempt'[a].input = attempt[a].input
  BY ClosedRows DEF TypeInv
<1>3. /\ job' \in [Job -> JobRow]
      /\ \A j \in Job : job'[j].current_attempt = job[j].current_attempt
  BY ReleasedRows
<1> QED BY <1>1, <1>2, <1>3 DEF RowsKept

\* A worker that leaves execute, or starts another pass, keeps its bounds.
LEMMA WorkerLeaves ==
  ASSUME TypeInv, NEW p \in Proc, NEW w \in Worker, w.pc \notin {"picked", "exec", "launched"},
         proc' = [proc EXCEPT ![p] = w]
  PROVE  ProcsKept
  BY DEF TypeInv, TypeOK, ProcsKept

\* Firing an AbortController changes nothing else.
LEMMA AbortingKeepsProcs ==
  ASSUME TypeInv, NEW p \in Proc, NEW S, proc' = Aborting(p, S)
  PROVE  ProcsKept
  BY DEF TypeInv, TypeOK, ProcsKept, Aborting, Worker

LEMMA EndedKeepsRuns ==
  ASSUME TypeInv, NEW p \in Proc, run' = Ended(p)
  PROVE  RunsKept
  BY DEF TypeInv, TypeOK, RunsKept, Ended

\* An attempt is claimed: its row appears, bound to the job and input.
LEMMA ClaimKeepsBound ==
  ASSUME TypeInv, NEW p \in Proc, NEW j \in Job, NEW i \in Input, NEW a \in Fresh,
         NEW attempts \in [Attempt -> AttemptRow],
         \A b \in Attempt : /\ attempts[b].job = attempt[b].job
                            /\ attempts[b].input = attempt[b].input
                            /\ attempts[b].status = "none" <=> attempt[b].status = "none",
         NEW jobs \in [Job -> JobRow],
         \A k \in Job : jobs[k].current_attempt = job[k].current_attempt,
         NEW row \in JobRow,
         attempt' = [attempts EXCEPT ![a] = NewAttempt(j, i)],
         job' = [jobs EXCEPT ![j] = Claimed(row, a)],
         NEW w \in Worker, w.pc # "picked", w.attempt = a,
         proc' = [proc EXCEPT ![p] = w],
         UNCHANGED run
  PROVE  /\ attempt' \in [Attempt -> AttemptRow]
         /\ job' \in [Job -> JobRow]
         /\ proc' \in [Proc -> Worker]
         /\ Bound'
<1>1. a \in Attempt /\ attempt[a].status = "none"
  BY DEF Fresh
<1>2. NewAttempt(j, i) \in AttemptRow
  <2>1. MaxLease \in 0..MaxLease /\ control.stop_generation \in 0..MaxGen
    BY ConstantsAssumption DEF TypeInv, TypeOK, Control
  <2> QED BY <2>1 DEF NewAttempt, AttemptRow, AttemptStatus
<1>3. /\ NewAttempt(j, i).status = "active"
      /\ NewAttempt(j, i).job = j
      /\ NewAttempt(j, i).input = i
  BY DEF NewAttempt
<1>4. /\ Claimed(row, a) \in JobRow
      /\ Claimed(row, a).current_attempt = a
  BY <1>1 DEF Claimed, JobRow, EdgeTo, PreparationState
<1>5. /\ attempt' \in [Attempt -> AttemptRow]
      /\ job' \in [Job -> JobRow]
      /\ proc' \in [Proc -> Worker]
  BY <1>1, <1>2, <1>4 DEF TypeInv, TypeOK
<1>6. \A b \in Attempt : attempt'[b].status # "none" =>
        attempt'[b].job \in Job /\ attempt'[b].input \in Input
  BY <1>1, <1>3 DEF TypeInv, Bound
<1>7. ASSUME NEW k \in Job, job'[k].current_attempt # NONE
      PROVE  /\ attempt'[job'[k].current_attempt].status # "none"
             /\ attempt'[job'[k].current_attempt].job = k
  <2>1. CASE k = j
    BY <2>1, <1>1, <1>3, <1>4
  <2>2. CASE k # j
    <3>1. job'[k].current_attempt = job[k].current_attempt /\ job[k].current_attempt \in Attempt
      BY <2>2, <1>7 DEF TypeInv, TypeOK, JobRow
    <3> QED BY <3>1, <1>1, <1>3, <1>7 DEF TypeInv, Bound
  <2> QED BY <2>1, <2>2
<1>8. ASSUME NEW q \in Proc
      PROVE  /\ proc'[q].pc = "picked" => proc'[q].job \in Job /\ proc'[q].input \in Input
             /\ Executing(q)' => /\ proc'[q].attempt \in Attempt
                                 /\ attempt'[proc'[q].attempt].status # "none"
  BY <1>1, <1>3 DEF TypeInv, TypeOK, Bound, Executing
<1>9. \A b \in Attempt : run'[b] # NONE => attempt'[b].status # "none"
  BY <1>1, <1>3 DEF TypeInv, Bound
<1> QED BY <1>5, <1>6, <1>7, <1>8, <1>9 DEF Bound

-----------------------------------------------------------------------------
(* Type correctness *)

\* The initial rows are typed and refer to nothing.
LEMMA TypeInit == Init => TypeInv
<1> SUFFICES ASSUME Init PROVE TypeInv
  OBVIOUS
<1>1. 0 \in 0..MaxGen /\ 0 \in 0..MaxLease /\ 0 \in 0..MaxPosting /\ 1 \in 0..MaxPosting
  BY ConstantsAssumption
<1>2. \A posted \in BOOLEAN : /\ Intake(posted) \in JobRow
                              /\ Intake(posted).current_attempt = NONE
  BY <1>1 DEF Intake, JobRow, PreparationState, Recovery
<1>3. job \in [Job -> JobRow] /\ \A j \in Job : job[j].current_attempt = NONE
  BY <1>2 DEF Init
<1>4. attempt \in [Attempt -> AttemptRow] /\ \A a \in Attempt : attempt[a].status = "none"
  BY <1>1 DEF Init, NoJobAttempt, AttemptRow, AttemptStatus
<1>5. input \in [Input -> InputRow]
  BY <1>1 DEF Init, NoInput, InputRow, Recovery
<1>6. control \in Control
  BY <1>1 DEF Init, Control
<1>7. proc \in [Proc -> Worker] /\ \A p \in Proc : proc[p].pc = "idle"
  BY <1>1 DEF Init, Worker, WorkerPc
<1>8. run \in [Attempt -> Proc \cup {NONE}] /\ \A a \in Attempt : run[a] = NONE
  BY DEF Init
<1> QED BY <1>3, <1>4, <1>5, <1>6, <1>7, <1>8 DEF TypeInv, TypeOK, Bound, Executing

\* The step lemma's shape: typed input and control rows beside kept references.
LEMMA KeptTypes ==
  ASSUME TypeInv, RowsKept, ProcsKept, RunsKept, input' \in [Input -> InputRow], control' \in Control
  PROVE  TypeInv'
  BY KeptBound DEF TypeInv, TypeOK, RowsKept, ProcsKept, RunsKept

\* Editing a job keeps its attempt.
LEMMA EditTypes == ASSUME TypeInv, NEW j \in Job, Edit(j) PROVE TypeInv'
<1>1. job[j] \in JobRow /\ job \in [Job -> JobRow] /\ job[j].posting \in 0..MaxPosting
  BY DEF TypeInv, TypeOK, JobRow
<1>2. ASSUME NEW row \in JobRow, job' = [job EXCEPT ![j] = row],
             row.current_attempt = job[j].current_attempt,
             UNCHANGED <<attempt, input, control, proc, run>>
      PROVE  TypeInv'
  <2>1. RowsKept
    BY <1>1, <1>2 DEF TypeInv, TypeOK, RowsKept
  <2> QED BY <1>2, <2>1, SameProcs, SameRuns, KeptTypes DEF TypeInv, TypeOK
<1>3. CASE SavePosting(j)
  <2> DEFINE posted == [job[j] EXCEPT !.posting = @ + 1, !.missing_inputs = @ \ {"posting_text"}]
             row == IF job[j].current_attempt # NONE
                    THEN [posted EXCEPT !.recovery = "stale_inputs", !.preparation_state = "needs_input"]
                    ELSE IF /\ job[j].preparation_state = "needs_input"
                            /\ job[j].missing_inputs \ {"posting_text"} = {}
                    THEN [posted EXCEPT !.preparation_state = "saved"]
                    ELSE posted
  <2>1. job[j].posting + 1 \in 0..MaxPosting
    BY <1>1, <1>3, ConstantsAssumption DEF SavePosting
  <2>2. posted \in JobRow /\ posted.current_attempt = job[j].current_attempt
    BY <1>1, <2>1 DEF JobRow
  <2> HIDE DEF posted
  <2>3. row \in JobRow /\ row.current_attempt = job[j].current_attempt
    BY <2>2 DEF JobRow, PreparationState, Recovery
  <2>4. job' = [job EXCEPT ![j] = row]
    BY <1>3 DEF SavePosting, posted
  <2> HIDE DEF row
  <2> QED BY <1>2, <1>3, <2>3, <2>4 DEF SavePosting
<1>4. CASE SaveContext(j)
  <2> DEFINE row == [job[j] EXCEPT !.recovery = "stale_inputs", !.preparation_state = "needs_input"]
  <2>1. row \in JobRow /\ row.current_attempt = job[j].current_attempt
    BY <1>1 DEF JobRow, PreparationState, Recovery
  <2>2. job' = [job EXCEPT ![j] = row]
    BY <1>1, <1>4 DEF SaveContext
  <2> HIDE DEF row
  <2> QED BY <1>2, <1>4, <2>1, <2>2 DEF SaveContext
<1>5. CASE PasteFallback(j)
  <2> DEFINE row == [job[j] EXCEPT !.posting = @ + 1, !.missing_inputs = @ \ {"posting_text"}]
  <2>1. job[j].posting + 1 \in 0..MaxPosting
    BY <1>1, <1>5, ConstantsAssumption DEF PasteFallback
  <2>2. row \in JobRow /\ row.current_attempt = job[j].current_attempt
    BY <1>1, <2>1 DEF JobRow
  <2>3. job' = [job EXCEPT ![j] = row]
    BY <1>1, <1>5 DEF PasteFallback
  <2> HIDE DEF row
  <2> QED BY <1>2, <1>5, <2>2, <2>3 DEF PasteFallback
<1>6. CASE TrackJob(j)
  <2>1. PICK row \in JobRow : /\ job' = [job EXCEPT ![j] = row]
                              /\ row.current_attempt = job[j].current_attempt
    <3>1. ASSUME NEW x \in BOOLEAN
          PROVE  /\ [job[j] EXCEPT !.archived = x] \in JobRow
                 /\ [job[j] EXCEPT !.applied = x] \in JobRow
                 /\ [job[j] EXCEPT !.archived = x].current_attempt = job[j].current_attempt
                 /\ [job[j] EXCEPT !.applied = x].current_attempt = job[j].current_attempt
      BY <1>1 DEF JobRow
    <3>2. \E x \in BOOLEAN : \/ job' = [job EXCEPT ![j] = [job[j] EXCEPT !.archived = x]]
                             \/ job' = [job EXCEPT ![j] = [job[j] EXCEPT !.applied = x]]
      BY <1>1, <1>6 DEF TrackJob, Track
    <3> QED BY <3>1, <3>2
  <2> QED BY <1>2, <1>6, <2>1 DEF TrackJob, Track
<1>7. CASE PublishManual(j)
  <2> DEFINE row == [job[j] EXCEPT !.preparation_state = "resume_ready", !.recovery = "none"]
  <2>1. row \in JobRow /\ row.current_attempt = job[j].current_attempt
    BY <1>1 DEF JobRow, PreparationState, Recovery
  <2>2. job' = [job EXCEPT ![j] = row]
    BY <1>1, <1>7 DEF PublishManual
  <2> HIDE DEF row
  <2> QED BY <1>2, <1>7, <2>1, <2>2 DEF PublishManual
<1>8. ASSUME NEW i \in Input, CaptureInputs(j, i) PROVE TypeInv'
  <2>1. [NoInput EXCEPT !.job = j, !.posting = job[j].posting] \in InputRow
    BY <1>1 DEF NoInput, InputRow, Recovery
  <2>2. input' \in [Input -> InputRow]
    BY <1>8, <2>1 DEF CaptureInputs, SnapshotPosting, TypeInv, TypeOK
  <2> QED BY <1>8, <2>2, SameRows, SameProcs, SameRuns, KeptTypes DEF CaptureInputs, TypeInv, TypeOK
<1> QED BY <1>3, <1>4, <1>5, <1>6, <1>7, <1>8 DEF Edit

\* Start and Pause write the control row only.
LEMMA ControlTypes ==
  ASSUME TypeInv, StartAutomatic \/ PauseAfterCurrent
  PROVE  TypeInv'
<1>1. control' \in Control
  BY DEF StartAutomatic, PauseAfterCurrent, TypeInv, TypeOK, Control
<1>2. UNCHANGED <<job, attempt, input, proc, run>>
  BY DEF StartAutomatic, PauseAfterCurrent
<1> QED BY <1>1, <1>2, SameRows, SameProcs, SameRuns, KeptTypes DEF TypeInv, TypeOK

\* A request or an assessment claims its attempt in the same transaction.
LEMMA ClaimAndLaunchTypes ==
  ASSUME TypeInv, NEW p \in Proc, NEW j \in Job, NEW i \in Input, NEW a \in Attempt,
         ClaimAndLaunch(p, j, i, a), UNCHANGED run
  PROVE  /\ attempt' \in [Attempt -> AttemptRow]
         /\ job' \in [Job -> JobRow]
         /\ proc' \in [Proc -> Worker]
         /\ Bound'
<1> DEFINE row == [job[j] EXCEPT !.missing_inputs = {}]
           w == [proc[p] EXCEPT !.pc = "launched", !.attempt = a]
<1>1. /\ attempt \in [Attempt -> AttemptRow]
      /\ job \in [Job -> JobRow]
      /\ proc \in [Proc -> Worker]
  BY DEF TypeInv, TypeOK
<1>2. row \in JobRow
  BY <1>1 DEF JobRow
<1>3. w \in Worker /\ w.pc = "launched" /\ w.attempt = a
  BY <1>1 DEF Worker, WorkerPc
<1>4. /\ attempt' = [attempt EXCEPT ![a] = NewAttempt(j, i)]
      /\ job' = [job EXCEPT ![j] = Claimed(row, a)]
      /\ proc' = [proc EXCEPT ![p] = w]
      /\ a \in Fresh
  BY <1>1 DEF ClaimAndLaunch
<1> HIDE DEF row, w
<1> QED BY <1>1, <1>2, <1>3, <1>4, ClaimKeepsBound

\* What users do through a process.
LEMMA UserTypes == ASSUME TypeInv, NEW p \in Proc, User(p) PROVE TypeInv'
<1>0. TypeOK /\ "cancelled" \in AttemptStatus \ {"none"} /\ "cancel" \in Action \ {"claim"}
  BY DEF TypeInv, AttemptStatus, Action
<1>1. CASE StopProcessing(p)
  <2>1. RowsKept
    BY <1>0, <1>1, CloseAndReleaseKeepRows DEF StopProcessing
  <2>2. control.stop_generation + 1 \in 0..MaxGen
    BY <1>1, ConstantsAssumption DEF StopProcessing, TypeInv, TypeOK, Control
  <2>3. control' \in Control
    BY <1>1, <2>2 DEF StopProcessing, Control
  <2>4. ProcsKept
    BY <1>1, AbortingKeepsProcs DEF StopProcessing
  <2> QED BY <1>1, <2>1, <2>3, <2>4, SameRuns, KeptTypes DEF StopProcessing, TypeInv, TypeOK
<1>2. ASSUME NEW j \in Job, CancelJob(p, j) PROVE TypeInv'
  <2>1. PICK S \in SUBSET Active : /\ attempt' = Closed(S, "cancelled")
                                   /\ job' = [job EXCEPT ![j] = Prepared(job[j], "cancel")]
                                   /\ proc' = Aborting(p, S)
    BY <1>2 DEF CancelJob, TypeInv, TypeOK
  <2>2. /\ Prepared(job[j], "cancel") \in JobRow
        /\ Prepared(job[j], "cancel").current_attempt = job[j].current_attempt
    BY <1>0, PreparedRow DEF TypeInv, TypeOK, Bound
  <2>3. \A a \in S : a \in Attempt /\ attempt[a].status # "none"
    BY DEF Active
  <2>4. RowsKept
    BY <1>0, <2>1, <2>2, <2>3, ClosedRows DEF RowsKept, TypeOK
  <2> QED BY <1>2, <2>1, <2>4, AbortingKeepsProcs, SameRuns, KeptTypes DEF CancelJob, TypeInv, TypeOK
<1>3. ASSUME NEW j \in Job, NEW i \in Input, AssessFit(p, j, i) PROVE TypeInv'
  <2>1. PICK a \in Attempt : ClaimAndLaunch(p, j, i, a)
    BY <1>3 DEF AssessFit
  <2>2. FitInput(j) \in InputRow
    BY DEF FitInput, ReturnState, InputRow, JobRow, Recovery, TypeInv, TypeOK
  <2>3. input' \in [Input -> InputRow] /\ UNCHANGED <<control, run>>
    BY <1>3, <2>2 DEF AssessFit, TypeInv, TypeOK
  <2> QED BY <2>1, <2>3, ClaimAndLaunchTypes DEF TypeInv, TypeOK
<1>4. ASSUME NEW j \in Job, NEW i \in Input, NEW action \in {"none", "resume", "retry", "reprepare"},
             Request(p, j, i, action)
      PROVE  TypeInv'
  <2>1. CASE QueueOnly(j)
    <3> DEFINE row == [job[j] EXCEPT !.missing_inputs = {}, !.preparation_state = "queued"]
    <3>1. row \in JobRow /\ row.current_attempt = job[j].current_attempt
      BY DEF JobRow, PreparationState, TypeInv, TypeOK
    <3>2. job' = [job EXCEPT ![j] = row] /\ UNCHANGED <<attempt, proc>>
      BY <2>1 DEF QueueOnly, TypeInv, TypeOK
    <3> HIDE DEF row
    <3>3. RowsKept
      BY <3>1, <3>2 DEF RowsKept, TypeInv, TypeOK
    <3> QED BY <1>4, <3>2, <3>3, SameProcs, SameRuns, KeptTypes DEF Request, TypeInv, TypeOK
  <2>2. ASSUME NEW a \in Attempt, ClaimAndLaunch(p, j, i, a) PROVE TypeInv'
    <3>1. UNCHANGED <<input, control, run>>
      BY <1>4 DEF Request
    <3> QED BY <2>2, <3>1, ClaimAndLaunchTypes DEF TypeInv, TypeOK
  <2> QED BY <1>4, <2>1, <2>2 DEF Request
<1> QED BY <1>1, <1>2, <1>3, <1>4 DEF User

\* The drain loop: recovery, the pick and the claim.
LEMMA DrainTypes == ASSUME TypeInv, NEW p \in Proc, Drain(p) PROVE TypeInv'
<1>0. /\ "interrupted" \in AttemptStatus \ {"none"}
      /\ {"interrupt", "block"} \subseteq Action \ {"claim"}
      /\ Expired \in SUBSET Active
  BY DEF AttemptStatus, Action, Expired
<1>1. /\ proc \in [Proc -> Worker] /\ proc[p] \in Worker
      /\ job \in [Job -> JobRow]
      /\ Idle(p) \in Worker /\ Idle(p).pc = "idle"
  BY IdleWorker DEF TypeInv, TypeOK
<1>2. CASE Wake(p)
  <2>1. RowsKept
    BY <1>0, <1>2, CloseAndReleaseKeepRows DEF Wake
  <2>2. PICK w \in Worker : /\ w.pc \notin {"picked", "exec", "launched"}
                            /\ proc' = [proc EXCEPT ![p] = w]
    <3>1. ASSUME NEW x \in {"idle", "loop"}
          PROVE  [proc[p] EXCEPT !.pc = x] \in Worker /\ [proc[p] EXCEPT !.pc = x].pc = x
      BY <1>1 DEF Worker, WorkerPc
    <3>2. \E x \in {"idle", "loop"} : proc' = [proc EXCEPT ![p] = [proc[p] EXCEPT !.pc = x]]
      BY <1>1, <1>2 DEF Wake
    <3> QED BY <3>1, <3>2
  <2> QED BY <1>2, <2>1, <2>2, WorkerLeaves, SameRuns, KeptTypes DEF Wake, TypeInv, TypeOK
<1>3. CASE DrainPick(p)
  <2>0. UNCHANGED <<attempt, control, run>>
    BY <1>3 DEF DrainPick
  <2>1. CASE proc' = [proc EXCEPT ![p] = Idle(p)] /\ UNCHANGED <<job, input>>
    BY <1>1, <2>0, <2>1, WorkerLeaves, SameRows, SameRuns, KeptTypes DEF TypeInv, TypeOK
  <2>2. ASSUME NEW j \in Job, NEW i \in Input, PicksInput(j, i), Pick(p, j, i), UNCHANGED job
        PROVE  TypeInv'
    <3>1. NoInput \in InputRow /\ job[j].posting \in 0..MaxPosting
      BY <1>1, ConstantsAssumption DEF NoInput, InputRow, Recovery, JobRow
    <3>2. [NoInput EXCEPT !.job = j, !.posting = job[j].posting] \in InputRow
      BY <3>1 DEF InputRow
    <3>3. input' \in [Input -> InputRow]
      BY <2>2, <3>2 DEF PicksInput, SnapshotPosting, TypeInv, TypeOK
    <3>4. control.stop_generation \in 0..MaxGen
      BY DEF TypeInv, TypeOK, Control
    <3> DEFINE w == [proc[p] EXCEPT !.pc = "picked", !.job = j, !.input = i,
                                    !.stop_generation = control.stop_generation]
    <3>5. w \in Worker /\ w.pc = "picked" /\ w.job = j /\ w.input = i
      BY <1>1, <3>4 DEF Worker, WorkerPc
    <3>6. proc' = [proc EXCEPT ![p] = w]
      BY <1>1, <2>2 DEF Pick
    <3> HIDE DEF w
    <3>7. proc' \in [Proc -> Worker]
      BY <1>1, <3>5, <3>6
    <3>8. ASSUME NEW q \in Proc
          PROVE  /\ proc'[q].pc = "picked" => proc'[q].job \in Job /\ proc'[q].input \in Input
                 /\ Executing(q)' => /\ proc'[q].attempt \in Attempt
                                     /\ attempt'[proc'[q].attempt].status # "none"
      BY <1>1, <2>0, <3>5, <3>6 DEF TypeInv, Bound, Executing
    <3> QED BY <2>0, <2>2, <3>3, <3>7, <3>8 DEF TypeInv, TypeOK, Bound
  <2>3. ASSUME NEW j \in Job, BlockUnresolved(j) PROVE TypeInv'
    <3> DEFINE row == [Prepared(job[j], "block") EXCEPT !.missing_inputs = {"blocker"}]
    <3>1. /\ Prepared(job[j], "block") \in JobRow
          /\ Prepared(job[j], "block").current_attempt = job[j].current_attempt
      BY <1>0, PreparedRow DEF TypeInv, TypeOK, Bound
    <3>2. row \in JobRow /\ row.current_attempt = job[j].current_attempt
      BY <3>1 DEF JobRow
    <3>3. job' = [job EXCEPT ![j] = row]
      BY <1>1, <2>3 DEF BlockUnresolved
    <3> HIDE DEF row
    <3>4. RowsKept
      BY <1>1, <2>0, <3>2, <3>3 DEF RowsKept, TypeInv, TypeOK
    <3> QED BY <2>0, <2>3, <3>4, SameProcs, SameRuns, KeptTypes DEF BlockUnresolved, TypeInv, TypeOK
  <2> QED BY <1>3, <2>1, <2>2, <2>3 DEF DrainPick
<1>4. CASE DrainClaim(p)
  <2>0. UNCHANGED <<input, control, run>>
    BY <1>4 DEF DrainClaim
  <2>1. CASE UNCHANGED <<job, attempt>> /\ proc' = [proc EXCEPT ![p] = Idle(p)]
    BY <1>1, <2>0, <2>1, WorkerLeaves, SameRows, SameRuns, KeptTypes DEF TypeInv, TypeOK
  <2>2. CASE /\ job' = Released(Expired, "interrupt")
             /\ attempt' = Closed(Expired, "interrupted")
             /\ proc' = [proc EXCEPT ![p] = Idle(p)]
    <3>1. RowsKept
      BY <1>0, <2>2, CloseAndReleaseKeepRows
    <3> QED BY <1>1, <2>0, <2>2, <3>1, WorkerLeaves, SameRuns, KeptTypes DEF TypeInv, TypeOK
  <2>3. CASE \E a \in Fresh :
               /\ attempt' = [Closed(Expired, "interrupted") EXCEPT ![a] =
                                NewAttempt(proc[p].job, proc[p].input)]
               /\ job' = [Released(Expired, "interrupt") EXCEPT ![proc[p].job] = Claimed(@, a)]
               /\ proc' = [proc EXCEPT ![p] = [Idle(p) EXCEPT !.pc = "exec", !.attempt = a]]
    <3>1. PICK a \in Fresh :
               /\ attempt' = [Closed(Expired, "interrupted") EXCEPT ![a] =
                                NewAttempt(proc[p].job, proc[p].input)]
               /\ job' = [Released(Expired, "interrupt") EXCEPT ![proc[p].job] = Claimed(@, a)]
               /\ proc' = [proc EXCEPT ![p] = [Idle(p) EXCEPT !.pc = "exec", !.attempt = a]]
      BY <2>3
    <3> DEFINE attempts == Closed(Expired, "interrupted")
               jobs == Released(Expired, "interrupt")
               w == [Idle(p) EXCEPT !.pc = "exec", !.attempt = a]
    <3>2. proc[p].job \in Job /\ proc[p].input \in Input
      BY <1>4 DEF DrainClaim, TypeInv, Bound
    <3>3. /\ attempts \in [Attempt -> AttemptRow]
          /\ \A b \in Attempt : /\ attempts[b].status = IF b \in Expired THEN "interrupted"
                                                                         ELSE attempt[b].status
                                /\ attempts[b].job = attempt[b].job
                                /\ attempts[b].input = attempt[b].input
      BY <1>0, ClosedRows DEF TypeInv
    <3>4. \A b \in Expired : attempt[b].status # "none"
      BY DEF Expired, Active
    <3>5. /\ jobs \in [Job -> JobRow]
          /\ \A k \in Job : jobs[k].current_attempt = job[k].current_attempt
      BY <1>0, ReleasedRows
    <3>6. w \in Worker /\ w.pc = "exec" /\ w.attempt = a
      BY <1>1 DEF Fresh, Worker, WorkerPc
    <3>7. /\ attempt' = [attempts EXCEPT ![a] = NewAttempt(proc[p].job, proc[p].input)]
          /\ job' = [jobs EXCEPT ![proc[p].job] = Claimed(jobs[proc[p].job], a)]
          /\ proc' = [proc EXCEPT ![p] = w]
      BY <3>1, <3>2, <3>5
    <3> HIDE DEF attempts, jobs, w
    <3>8. jobs[proc[p].job] \in JobRow
      BY <3>2, <3>5
    <3>9. /\ attempt' \in [Attempt -> AttemptRow]
          /\ job' \in [Job -> JobRow]
          /\ proc' \in [Proc -> Worker]
          /\ Bound'
      BY <2>0, <3>2, <3>3, <3>4, <3>5, <3>6, <3>7, <3>8, ClaimKeepsBound
    <3> QED BY <2>0, <3>9 DEF TypeInv, TypeOK
  <2> QED BY <1>4, <2>1, <2>2, <2>3 DEF DrainClaim
<1> QED BY <1>2, <1>3, <1>4 DEF Drain

\* Executing an attempt: it ends under its fence, or its worker loses it.
LEMMA ExecuteTypes == ASSUME TypeInv, NEW p \in Proc, Execute(p) PROVE TypeInv'
<1> DEFINE a == proc[p].attempt
           row == job[attempt[a].job]
<1>0. {"interrupted", "completed", "failed"} \subseteq AttemptStatus \ {"none"}
  BY DEF AttemptStatus
<1>1. {"interrupt", "fit_complete", "complete", "fail", "block"} \subseteq Action \ {"claim"}
  BY DEF Action
<1>2. Executing(p) /\ UNCHANGED <<input, control>>
  BY DEF Execute, ExecBegin, Heartbeat, Deadline, ExecComplete, ExecFail, ExecBlock,
         ExecAborted, Settling, tables
<1>3. a \in Attempt /\ attempt[a].status # "none" /\ attempt[a].job \in Job /\ row \in JobRow
  BY <1>2 DEF TypeInv, TypeOK, Bound
<1>4. ASSUME RowsKept, ProcsKept, RunsKept PROVE TypeInv'
  BY <1>2, <1>4, KeptTypes DEF TypeInv, TypeOK
<1>5. ASSUME proc' = [proc EXCEPT ![p] = Settled(p)] PROVE ProcsKept
  BY <1>5, IdleWorker, WorkerLeaves DEF TypeInv
<1>6. ASSUME proc' = [proc EXCEPT ![p].aborted = TRUE] PROVE ProcsKept
  BY <1>6 DEF TypeInv, TypeOK, ProcsKept, Worker
<1>7. ASSUME NEW x \in Attempt, run' = [run EXCEPT ![x] = NONE] PROVE RunsKept
  BY <1>7 DEF TypeInv, TypeOK, RunsKept
<1>8. ASSUME NEW x \in BOOLEAN, run' = IF x THEN Ended(p) ELSE run PROVE RunsKept
  BY <1>8, EndedKeepsRuns, SameRuns
<1>9. ASSUME NEW status \in AttemptStatus \ {"none"}, NEW action \in Action \ {"claim"},
             Finish(a, status, action, row)
      PROVE  RowsKept
  BY <1>3, <1>9, FinishKeepsRows
<1>10. CASE ExecBegin(p)
  <2>1. CASE run' = [run EXCEPT ![a] = p] /\ UNCHANGED <<job, attempt, proc>>
    <3>1. run' \in [Attempt -> Proc \cup {NONE}]
      BY <1>3, <2>1 DEF TypeInv, TypeOK
    <3>2. \A b \in Attempt : run'[b] # NONE => b = a \/ run[b] # NONE
      BY <1>3, <2>1 DEF TypeInv, TypeOK
    <3>3. Bound'
      BY <1>3, <2>1, <3>2 DEF TypeInv, Bound, Executing
    <3> QED BY <1>2, <2>1, <3>1, <3>3 DEF TypeInv, TypeOK
  <2>2. CASE /\ Finish(a, "interrupted", "interrupt", row)
             /\ proc' = [proc EXCEPT ![p] = Settled(p)]
             /\ run' = IF proc[p].up = "closing" THEN Ended(p) ELSE run
    BY <1>0, <1>1, <1>4, <1>5, <1>8, <1>9, <2>2
  <2> QED BY <1>10, <2>1, <2>2 DEF ExecBegin
<1>11. CASE Heartbeat(p)
  <2>1. CASE attempt' = [attempt EXCEPT ![a].lease = MaxLease] /\ UNCHANGED proc
    <3>1. [attempt[a] EXCEPT !.lease = MaxLease] \in AttemptRow
      <4>1. MaxLease \in 0..MaxLease
        BY ConstantsAssumption
      <4> QED BY <1>3, <4>1 DEF TypeInv, TypeOK, AttemptRow
    <3>2. RowsKept
      BY <1>3, <1>11, <2>1, <3>1 DEF Heartbeat, RowsKept, TypeInv, TypeOK
    <3> QED BY <1>4, <1>11, <2>1, <3>2, SameProcs, SameRuns DEF Heartbeat
  <2>2. CASE proc' = [proc EXCEPT ![p].aborted = TRUE] /\ UNCHANGED attempt
    BY <1>4, <1>6, <1>11, <2>2, SameRows, SameRuns DEF Heartbeat
  <2> QED BY <1>11, <2>1, <2>2 DEF Heartbeat
<1>12. CASE Deadline(p)
  BY <1>4, <1>6, <1>12, SameRows, SameRuns DEF Deadline, tables
<1>13. CASE ExecComplete(p)
  <2>1. Finish(a, "completed", IF Kind(a) = "fit" THEN "fit_complete" ELSE "complete", row)
    BY <1>13 DEF ExecComplete
  <2>2. RowsKept
    BY <1>0, <1>1, <1>9, <2>1
  <2> QED BY <1>3, <1>4, <1>5, <1>7, <1>13, <2>2 DEF ExecComplete, Settling
<1>14. CASE ExecFail(p)
  <2>1. RowsKept
    BY <1>0, <1>1, <1>9, <1>14 DEF ExecFail
  <2> QED BY <1>3, <1>4, <1>5, <1>7, <1>14, <2>1 DEF ExecFail, Settling
<1>15. CASE ExecBlock(p)
  <2>1. PICK kind \in Recovery \ {"none"} :
          Finish(a, "failed", "block", [row EXCEPT !.recovery = kind, !.missing_inputs = {"blocker"}])
    BY <1>15 DEF ExecBlock
  <2>2. [row EXCEPT !.recovery = kind, !.missing_inputs = {"blocker"}] \in JobRow
    BY <1>3 DEF JobRow
  <2>3. [row EXCEPT !.recovery = kind, !.missing_inputs = {"blocker"}].current_attempt
          = row.current_attempt
    BY <1>3 DEF JobRow
  <2>4. RowsKept
    BY <1>0, <1>1, <1>3, <2>1, <2>2, <2>3, FinishKeepsRows
  <2> QED BY <1>3, <1>4, <1>5, <1>7, <1>15, <2>4 DEF ExecBlock, Settling
<1>16. CASE ExecAborted(p)
  <2>1. RowsKept
    BY <1>0, <1>1, <1>9, <1>16 DEF ExecAborted
  <2> QED BY <1>4, <1>5, <1>8, <1>16, <2>1 DEF ExecAborted
<1> QED BY <1>10, <1>11, <1>12, <1>13, <1>14, <1>15, <1>16 DEF Execute

\* A pipeline saves under its fence, or ends.
LEMMA PipelineTypes == ASSUME TypeInv, NEW a \in Attempt, Pipeline(a) PROVE TypeInv'
<1>1. ASSUME NEW row \in AttemptRow, attempt' = [attempt EXCEPT ![a] = row],
             row.job = attempt[a].job, row.input = attempt[a].input,
             row.status = attempt[a].status, UNCHANGED <<job, input, control, proc, run>>
      PROVE  TypeInv'
  <2>1. RowsKept
    BY <1>1 DEF RowsKept, TypeInv, TypeOK
  <2> QED BY <1>1, <2>1, SameProcs, SameRuns, KeptTypes DEF TypeInv, TypeOK
<1>2. attempt[a] \in AttemptRow /\ attempt \in [Attempt -> AttemptRow]
  BY DEF TypeInv, TypeOK
<1>3. CASE SaveCheckpoint(a)
  <2> DEFINE row == [attempt[a] EXCEPT !.checkpoint = TRUE]
  <2>1. /\ row \in AttemptRow /\ row.job = attempt[a].job /\ row.input = attempt[a].input
        /\ row.status = attempt[a].status
    BY <1>2 DEF AttemptRow
  <2>2. attempt' = [attempt EXCEPT ![a] = row]
    BY <1>2, <1>3 DEF SaveCheckpoint
  <2> HIDE DEF row
  <2> QED BY <1>1, <1>3, <2>1, <2>2 DEF SaveCheckpoint
<1>4. CASE PublishArtifact(a)
  <2> DEFINE row == [attempt[a] EXCEPT !.artifact = TRUE]
  <2>1. /\ row \in AttemptRow /\ row.job = attempt[a].job /\ row.input = attempt[a].input
        /\ row.status = attempt[a].status
    BY <1>2 DEF AttemptRow
  <2>2. attempt' = [attempt EXCEPT ![a] = row]
    BY <1>2, <1>4 DEF PublishArtifact
  <2> HIDE DEF row
  <2> QED BY <1>1, <1>4, <2>1, <2>2 DEF PublishArtifact
<1>5. CASE PipelineEnd(a)
  <2>1. RunsKept
    BY <1>5 DEF PipelineEnd, RunsKept, TypeInv, TypeOK
  <2> QED BY <1>5, <2>1, SameRows, SameProcs, KeptTypes DEF PipelineEnd, tables, TypeInv, TypeOK
<1> QED BY <1>3, <1>4, <1>5 DEF Pipeline

\* Shutdown, crash and restart touch no table.
LEMMA LifecycleTypes == ASSUME TypeInv, NEW p \in Proc, Lifecycle(p) PROVE TypeInv'
<1>1. UNCHANGED tables
  BY DEF Lifecycle, Dispose, Exit, Restart
<1>2. proc \in [Proc -> Worker] /\ Idle(p) \in Worker /\ Idle(p).pc = "idle"
  BY IdleWorker DEF TypeInv, TypeOK
<1>3. ProcsKept
  <2>1. CASE Dispose(p) \/ Restart(p)
    BY <1>2, <2>1 DEF Dispose, Restart, ProcsKept, Worker
  <2>2. CASE Exit(p)
    <3> DEFINE w == [Idle(p) EXCEPT !.up = "down"]
    <3>1. w \in Worker /\ w.pc = "idle"
      BY <1>2 DEF Worker
    <3>2. proc' = [proc EXCEPT ![p] = w]
      BY <2>2 DEF Exit
    <3> HIDE DEF w
    <3> QED BY <3>1, <3>2, WorkerLeaves
  <2> QED BY <2>1, <2>2 DEF Lifecycle
<1>4. RunsKept
  BY EndedKeepsRuns, SameRuns DEF Lifecycle, Dispose, Exit, Restart
<1> QED BY <1>1, <1>3, <1>4, SameRows, KeptTypes DEF tables, TypeInv, TypeOK

LEMMA TickTypes == ASSUME TypeInv, Tick PROVE TypeInv'
<1>1. \A a \in Attempt : attempt[a] \in AttemptRow /\ attempt[a].lease \in 0..MaxLease
  BY DEF TypeInv, TypeOK, AttemptRow
<1>2. \A a \in Attempt : attempt[a].lease > 0 => attempt[a].lease - 1 \in 0..MaxLease
  BY <1>1, ConstantsAssumption
<1>3. RowsKept
  BY <1>1, <1>2 DEF Tick, RowsKept, TypeInv, TypeOK, AttemptRow
<1> QED BY <1>3, SameProcs, SameRuns, KeptTypes DEF Tick, TypeInv, TypeOK

LEMMA TypeNext == TypeInv /\ [Next]_vars => TypeInv'
<1> SUFFICES ASSUME TypeInv, [Next]_vars PROVE TypeInv'
  OBVIOUS
<1>1. CASE UNCHANGED vars
  BY <1>1, SameRows, SameProcs, SameRuns, KeptTypes DEF vars, TypeInv, TypeOK
<1>2. CASE Next
  BY <1>2, EditTypes, ControlTypes, UserTypes, DrainTypes, ExecuteTypes, PipelineTypes,
     LifecycleTypes, TickTypes DEF Next
<1> QED BY <1>1, <1>2

\* Every reachable state is typed: in particular no row or process ever names
\* an attempt or an input snapshot that does not exist.
THEOREM TypeCorrect == Spec => []TypeOK
<1>1. TypeInv => TypeOK
  BY DEF TypeInv
<1> QED BY <1>1, TypeInit, TypeNext, PTL DEF Spec

LEMMA TypeInvariant == Spec => []TypeInv
  BY TypeInit, TypeNext, PTL DEF Spec

-----------------------------------------------------------------------------
(* II.  The slot: both tables agree on who works, at most one attempt is     *)
(* active, and JobQueue implements PreparationSlot.                          *)
(*                                                                           *)
(* Every step of JobQueue is of one of three kinds, as far as ownership      *)
(* goes: it ends some active attempts, it saves output of an active one, or  *)
(* it starts one after everything active was interrupted.  The invariants    *)
(* and the refinement follow from the kinds.                                 *)

\* An attempt that was never claimed has left nothing behind.
FreshIsEmpty == \A a \in Fresh : ~attempt[a].checkpoint /\ ~attempt[a].artifact

OwnershipInv == OwnershipAgrees /\ SingleActive /\ FreshIsEmpty

Preparing(row) == row.preparation_state = "preparing"

\* References survive the step.
LinksKept ==
  /\ \A a \in Attempt : attempt'[a].job = attempt[a].job /\ attempt'[a].input = attempt[a].input
  /\ \A j \in Job : job'[j].current_attempt = job[j].current_attempt

OutputKept(a) ==
  attempt'[a].checkpoint = attempt[a].checkpoint /\ attempt'[a].artifact = attempt[a].artifact

\* The attempts of S end with this status, and exactly their jobs stop preparing.
Ends(S, status) ==
  /\ S \subseteq Active
  /\ LinksKept
  /\ \A a \in Attempt : /\ attempt'[a].status = IF a \in S THEN status ELSE attempt[a].status
                        /\ OutputKept(a)
  /\ \A j \in Job : Preparing(job'[j]) <=>
                      Preparing(job[j]) /\ ~ \E a \in S : attempt[a].job = j

\* The active attempt a saves a stage or an artifact.
Produces(a) ==
  /\ a \in Active
  /\ UNCHANGED job
  /\ \A b \in Attempt : /\ attempt'[b].status = attempt[b].status
                        /\ attempt'[b].job = attempt[b].job
                        /\ attempt'[b].input = attempt[b].input
  /\ \A b \in Attempt \ {a} : OutputKept(b)
  /\ \/ attempt'[a].checkpoint /\ attempt'[a].artifact = attempt[a].artifact
     \/ attempt'[a].artifact /\ attempt'[a].checkpoint = attempt[a].checkpoint

\* Everything active is interrupted, and the fresh attempt a starts on job j.
Starts(a, j) ==
  /\ a \in Fresh /\ j \in Job
  /\ attempt'[a].status = "active" /\ attempt'[a].job = j
  /\ ~attempt'[a].checkpoint /\ ~attempt'[a].artifact
  /\ \A b \in Attempt \ {a} :
       /\ attempt'[b].status = IF b \in Active THEN "interrupted" ELSE attempt[b].status
       /\ attempt'[b].job = attempt[b].job
       /\ attempt'[b].input = attempt[b].input
       /\ OutputKept(b)
  /\ job'[j].current_attempt = a /\ Preparing(job'[j])
  /\ \A k \in Job \ {j} : ~Preparing(job'[k])

Finished == AttemptStatus \ {"none", "active"}

StepKind ==
  \/ \E S \in SUBSET Attempt, status \in Finished : Ends(S, status)
  \/ \E a \in Attempt : Produces(a)
  \/ \E a \in Attempt, j \in Job : Starts(a, j)

-----------------------------------------------------------------------------
(* The kinds preserve the invariant *)

LEMMA EndsKeepsInv ==
  ASSUME TypeInv, OwnershipInv, NEW S, NEW status \in Finished, Ends(S, status)
  PROVE  OwnershipInv'
<1>1. \A a \in Attempt : a \in Active' <=> a \in Active /\ a \notin S
  BY DEF Ends, Finished, Active
<1>2. \A a \in Active' : /\ attempt'[a].job \in Job
                         /\ Preparing(job'[attempt'[a].job])
                         /\ job'[attempt'[a].job].current_attempt = a
  <2> SUFFICES ASSUME NEW a \in Active'
               PROVE  /\ attempt'[a].job \in Job
                      /\ Preparing(job'[attempt'[a].job])
                      /\ job'[attempt'[a].job].current_attempt = a
    OBVIOUS
  <2>1. a \in Active /\ a \notin S /\ attempt'[a].job = attempt[a].job /\ a \in Attempt
    BY <1>1 DEF Ends, LinksKept, Active
  <2>2. ~ \E b \in S : attempt[b].job = attempt[a].job
    BY <2>1 DEF OwnershipInv, OwnershipAgrees, Ends
  <2> QED BY <2>1, <2>2 DEF OwnershipInv, OwnershipAgrees, Ends, LinksKept, Preparing
<1>3. \A j \in Job : Preparing(job'[j]) => job'[j].current_attempt \in Active'
  <2> SUFFICES ASSUME NEW j \in Job, Preparing(job'[j])
               PROVE  job'[j].current_attempt \in Active'
    OBVIOUS
  <2>1. Preparing(job[j]) /\ ~ \E a \in S : attempt[a].job = j
    BY DEF Ends
  <2>2. job[j].current_attempt \in Active /\ job'[j].current_attempt = job[j].current_attempt
    BY <2>1 DEF OwnershipInv, OwnershipAgrees, Preparing, Ends, LinksKept
  <2>3. attempt[job[j].current_attempt].job = j
    BY <2>2, ConstantsAssumption DEF TypeInv, Bound, Active
  <2> QED BY <1>1, <2>1, <2>2, <2>3 DEF Active
<1>4. OwnershipAgrees'
  BY <1>2, <1>3 DEF OwnershipAgrees, Preparing
<1>5. SingleActive'
  BY <1>1 DEF OwnershipInv, SingleActive, Active
<1>6. FreshIsEmpty'
  BY DEF OwnershipInv, FreshIsEmpty, Fresh, Ends, OutputKept, Finished, Active
<1> QED BY <1>4, <1>5, <1>6 DEF OwnershipInv

LEMMA ProducesKeepsInv ==
  ASSUME OwnershipInv, NEW a \in Attempt, Produces(a)
  PROVE  OwnershipInv'
<1>1. Active' = Active
  BY DEF Produces, Active
<1>2. OwnershipAgrees' /\ SingleActive'
  BY <1>1 DEF OwnershipInv, OwnershipAgrees, SingleActive, Produces, Active
<1>3. FreshIsEmpty'
  BY DEF OwnershipInv, FreshIsEmpty, Fresh, Produces, OutputKept, Active
<1> QED BY <1>2, <1>3 DEF OwnershipInv

LEMMA StartsKeepsInv ==
  ASSUME OwnershipInv, NEW a \in Attempt, NEW j \in Job, Starts(a, j)
  PROVE  OwnershipInv'
<1>1. Active' = {a}
  BY DEF Starts, Active
<1>2. OwnershipAgrees' /\ SingleActive'
  BY <1>1 DEF OwnershipAgrees, SingleActive, Starts, Preparing
<1>3. FreshIsEmpty'
  BY DEF OwnershipInv, FreshIsEmpty, Fresh, Starts, OutputKept, Active
<1> QED BY <1>2, <1>3 DEF OwnershipInv

-----------------------------------------------------------------------------
(* Every step is of one of the kinds *)

LEMMA EndsIsKind ==
  ASSUME NEW S, NEW status \in Finished, Ends(S, status)
  PROVE  StepKind
  BY DEF StepKind, Ends, Active

\* A step that moves no attempt and no job in or out of preparation.
LEMMA QuietIsKind ==
  ASSUME TypeInv, UNCHANGED attempt, LinksKept,
         \A j \in Job : Preparing(job'[j]) <=> Preparing(job[j])
  PROVE  StepKind
<1>1. Ends({}, "failed")
  BY DEF Ends, OutputKept
<1> QED BY <1>1, EndsIsKind DEF Finished, AttemptStatus

\* One job that is not in preparation is written, and stays out of it.
LEMMA EditIsKind ==
  ASSUME TypeInv, UNCHANGED attempt, NEW j \in Job, NEW row,
         job' = [job EXCEPT ![j] = row], row.current_attempt = job[j].current_attempt,
         ~Preparing(row), ~Preparing(job[j])
  PROVE  StepKind
<1>1. LinksKept /\ \A k \in Job : Preparing(job'[k]) <=> Preparing(job[k])
  BY DEF LinksKept, TypeInv, TypeOK
<1> QED BY <1>1, QuietIsKind

\* Nobody prepares the job of no active attempt.
LEMMA NotPreparing ==
  ASSUME TypeInv, OwnershipInv, NEW j \in Job, ~ \E a \in Active : attempt[a].job = j
  PROVE  ~Preparing(job[j])
<1>1. job[j].current_attempt \in Active => attempt[job[j].current_attempt].job = j
  BY ConstantsAssumption DEF TypeInv, Bound, Active
<1> QED BY <1>1 DEF OwnershipInv, OwnershipAgrees, Preparing

LEMMA CloseAndReleaseIsKind ==
  ASSUME TypeInv, OwnershipInv, NEW S \in SUBSET Active, NEW status \in Finished,
         NEW action \in Action \ {"claim"},
         attempt' = Closed(S, status), job' = Released(S, action)
  PROVE  Ends(S, status)
<1>1. status \in AttemptStatus \ {"none"}
  BY DEF Finished
<1>2. LinksKept
  BY <1>1, CloseAndReleaseKeepRows DEF RowsKept, LinksKept
<1>3. \A a \in Attempt : /\ attempt'[a].status = IF a \in S THEN status ELSE attempt[a].status
                         /\ OutputKept(a)
  BY <1>1, ClosedRows DEF OutputKept, TypeInv
<1>4. \A j \in Job : Preparing(job'[j]) <=>
                       Preparing(job[j]) /\ ~ \E a \in S : attempt[a].job = j
  BY ReleasedRows DEF Preparing
<1> QED BY <1>2, <1>3, <1>4 DEF Ends

LEMMA FinishIsKind ==
  ASSUME TypeInv, OwnershipInv, NEW a \in Attempt, attempt[a].status # "none",
         NEW status \in Finished, NEW action \in Action \ {"claim"},
         NEW row \in JobRow, row.current_attempt = job[attempt[a].job].current_attempt,
         Finish(a, status, action, row)
  PROVE  StepKind
<1>0. status \in AttemptStatus \ {"none"}
  BY DEF Finished
<1>1. CASE Fenced(a)
  <2>1. /\ attempt' = Closed({a}, status)
        /\ job' = [job EXCEPT ![attempt[a].job] = Prepared(row, action)]
        /\ a \in Active
    BY <1>1 DEF Finish, Fenced, Active
  <2>2. attempt[a].job \in Job /\ job \in [Job -> JobRow]
    BY DEF TypeInv, TypeOK, Bound
  <2>3. LinksKept
    BY <1>0, FinishKeepsRows DEF RowsKept, LinksKept
  <2>4. Prepared(row, action).preparation_state # "preparing"
    BY <2>2, PreparedIsNotPreparing DEF TypeInv, Bound
  <2>5. \A b \in Attempt : /\ attempt'[b].status = IF b \in {a} THEN status ELSE attempt[b].status
                           /\ OutputKept(b)
    BY <1>0, <2>1, ClosedRows DEF OutputKept, TypeInv
  <2>6. \A j \in Job : Preparing(job'[j]) <=>
                         Preparing(job[j]) /\ ~ \E b \in {a} : attempt[b].job = j
    BY <2>1, <2>2, <2>4 DEF Preparing
  <2>7. Ends({a}, status)
    BY <2>1, <2>3, <2>5, <2>6 DEF Ends
  <2> QED BY <2>7, EndsIsKind
<1>2. CASE ~Fenced(a)
  BY <1>2, QuietIsKind DEF Finish, LinksKept
<1> QED BY <1>1, <1>2

\* A claim, in whatever state recovery has left the two tables.
LEMMA ClaimIsKind ==
  ASSUME TypeInv, NEW j \in Job, NEW i \in Input, NEW a \in Fresh,
         NEW attempts \in [Attempt -> AttemptRow],
         \A b \in Attempt :
           /\ attempts[b].status = IF b \in Active THEN "interrupted" ELSE attempt[b].status
           /\ attempts[b].job = attempt[b].job
           /\ attempts[b].input = attempt[b].input
           /\ attempts[b].checkpoint = attempt[b].checkpoint
           /\ attempts[b].artifact = attempt[b].artifact,
         NEW jobs \in [Job -> JobRow], \A k \in Job : ~Preparing(jobs[k]),
         NEW row \in JobRow,
         attempt' = [attempts EXCEPT ![a] = NewAttempt(j, i)],
         job' = [jobs EXCEPT ![j] = Claimed(row, a)]
  PROVE  StepKind
<1>1. a \in Attempt
  BY DEF Fresh
<1>2. /\ NewAttempt(j, i).status = "active"
      /\ NewAttempt(j, i).job = j
      /\ ~NewAttempt(j, i).checkpoint
      /\ ~NewAttempt(j, i).artifact
  BY DEF NewAttempt
<1>3. Claimed(row, a).current_attempt = a /\ Preparing(Claimed(row, a))
  BY DEF Claimed, Preparing, JobRow, EdgeTo
<1>4. Starts(a, j)
  BY <1>1, <1>2, <1>3 DEF Starts, OutputKept
<1> QED BY <1>1, <1>4 DEF StepKind

LEMMA ClaimAndLaunchIsKind ==
  ASSUME TypeInv, OwnershipInv, NEW p \in Proc, NEW j \in Job, NEW i \in Input, NEW a \in Attempt,
         Active = {}, ClaimAndLaunch(p, j, i, a)
  PROVE  StepKind
<1> DEFINE row == [job[j] EXCEPT !.missing_inputs = {}]
<1>1. /\ attempt \in [Attempt -> AttemptRow]
      /\ job \in [Job -> JobRow]
      /\ row \in JobRow
  BY DEF TypeInv, TypeOK, JobRow
<1>2. /\ attempt' = [attempt EXCEPT ![a] = NewAttempt(j, i)]
      /\ job' = [job EXCEPT ![j] = Claimed(row, a)]
      /\ a \in Fresh
  BY <1>1 DEF ClaimAndLaunch
<1>3. \A k \in Job : ~Preparing(job[k])
  BY NotPreparing
<1> HIDE DEF row
<1> QED BY <1>1, <1>2, <1>3, ClaimIsKind

LEMMA EditKind == ASSUME TypeInv, OwnershipInv, NEW j \in Job, Edit(j) PROVE StepKind
<1>1. job[j] \in JobRow /\ job \in [Job -> JobRow]
  BY DEF TypeInv, TypeOK
<1>2. CASE SavePosting(j)
  <2> DEFINE posted == [job[j] EXCEPT !.posting = @ + 1, !.missing_inputs = @ \ {"posting_text"}]
             row == IF job[j].current_attempt # NONE
                    THEN [posted EXCEPT !.recovery = "stale_inputs", !.preparation_state = "needs_input"]
                    ELSE IF /\ job[j].preparation_state = "needs_input"
                            /\ job[j].missing_inputs \ {"posting_text"} = {}
                    THEN [posted EXCEPT !.preparation_state = "saved"]
                    ELSE posted
  <2>1. ~Preparing(job[j]) /\ UNCHANGED attempt /\ job' = [job EXCEPT ![j] = row]
    BY <1>2 DEF SavePosting, Preparing
  <2>2. row.current_attempt = job[j].current_attempt /\ ~Preparing(row)
    BY <1>1, <2>1 DEF Preparing, JobRow
  <2> HIDE DEF row
  <2> QED BY <2>1, <2>2, EditIsKind
<1>3. CASE SaveContext(j)
  <2> DEFINE row == [job[j] EXCEPT !.recovery = "stale_inputs", !.preparation_state = "needs_input"]
  <2>1. /\ job' = [job EXCEPT ![j] = row]
        /\ row.current_attempt = job[j].current_attempt /\ ~Preparing(row)
    BY <1>1, <1>3 DEF SaveContext, JobRow, Preparing
  <2> HIDE DEF row
  <2> QED BY <1>3, <2>1, EditIsKind DEF SaveContext, Preparing
<1>4. CASE PasteFallback(j)
  <2> DEFINE row == [job[j] EXCEPT !.posting = @ + 1, !.missing_inputs = @ \ {"posting_text"}]
  <2>1. /\ job' = [job EXCEPT ![j] = row]
        /\ row.current_attempt = job[j].current_attempt
        /\ row.preparation_state = job[j].preparation_state
    BY <1>1, <1>4 DEF PasteFallback, JobRow
  <2> HIDE DEF row
  <2> QED BY <1>4, <2>1, EditIsKind DEF PasteFallback, Preparing
<1>5. CASE TrackJob(j)
  <2>1. \E x \in BOOLEAN : \/ job' = [job EXCEPT ![j] = [job[j] EXCEPT !.archived = x]]
                           \/ job' = [job EXCEPT ![j] = [job[j] EXCEPT !.applied = x]]
    BY <1>1, <1>5 DEF TrackJob, Track
  <2>2. PICK row : /\ job' = [job EXCEPT ![j] = row]
                   /\ row.current_attempt = job[j].current_attempt
                   /\ row.preparation_state = job[j].preparation_state
    BY <1>1, <2>1 DEF JobRow
  <2> QED BY <1>5, <2>2, EditIsKind DEF TrackJob, Track, Preparing
<1>6. CASE PublishManual(j)
  <2> DEFINE row == [job[j] EXCEPT !.preparation_state = "resume_ready", !.recovery = "none"]
  <2>1. /\ job' = [job EXCEPT ![j] = row]
        /\ row.current_attempt = job[j].current_attempt /\ ~Preparing(row)
    BY <1>1, <1>6 DEF PublishManual, JobRow, Preparing
  <2>2. ~Preparing(job[j])
    BY <1>6, NotPreparing DEF PublishManual
  <2> HIDE DEF row
  <2> QED BY <1>6, <2>1, <2>2, EditIsKind DEF PublishManual
<1>7. ASSUME NEW i \in Input, CaptureInputs(j, i) PROVE StepKind
  BY <1>7, QuietIsKind DEF CaptureInputs, LinksKept
<1> QED BY <1>2, <1>3, <1>4, <1>5, <1>6, <1>7 DEF Edit

LEMMA UserKind == ASSUME TypeInv, OwnershipInv, NEW p \in Proc, User(p) PROVE StepKind
<1>0. "cancelled" \in Finished /\ "cancel" \in Action \ {"claim"}
  BY DEF Finished, AttemptStatus, Action
<1>1. CASE StopProcessing(p)
  BY <1>0, <1>1, CloseAndReleaseIsKind, EndsIsKind DEF StopProcessing
<1>2. ASSUME NEW j \in Job, CancelJob(p, j) PROVE StepKind
  <2> DEFINE mine == {a \in Active : attempt[a].job = j}
  <2>1. /\ attempt' = Closed(mine, "cancelled")
        /\ job' = [job EXCEPT ![j] = Prepared(job[j], "cancel")]
    BY <1>2 DEF CancelJob, TypeInv, TypeOK
  <2>2. /\ Prepared(job[j], "cancel").current_attempt = job[j].current_attempt
        /\ ~Preparing(Prepared(job[j], "cancel"))
    BY <1>0, PreparedRow, PreparedIsNotPreparing DEF TypeInv, TypeOK, Bound, Preparing
  <2>3. \A a \in Attempt : /\ attempt'[a].status = IF a \in mine THEN "cancelled" ELSE attempt[a].status
                           /\ attempt'[a].job = attempt[a].job
                           /\ attempt'[a].input = attempt[a].input
                           /\ OutputKept(a)
    BY <1>0, <2>1, ClosedRows DEF OutputKept, TypeInv, Finished
  <2>4. \A k \in Job : Preparing(job'[k]) <=>
                         Preparing(job[k]) /\ ~ \E a \in mine : attempt[a].job = k
    <3> SUFFICES ASSUME NEW k \in Job
                 PROVE  Preparing(job'[k]) <=>
                          Preparing(job[k]) /\ ~ \E a \in mine : attempt[a].job = k
      OBVIOUS
    <3>1. CASE k = j
      <4>1. ~Preparing(job'[j])
        BY <2>1, <2>2 DEF TypeInv, TypeOK
      <4>2. (~ \E a \in mine : attempt[a].job = j) => ~Preparing(job[j])
        BY NotPreparing
      <4> QED BY <3>1, <4>1, <4>2
    <3>2. CASE k # j
      BY <2>1, <3>2 DEF TypeInv, TypeOK
    <3> QED BY <3>1, <3>2
  <2>5. LinksKept
    BY <2>1, <2>2, <2>3 DEF LinksKept, TypeInv, TypeOK
  <2>6. Ends(mine, "cancelled")
    BY <2>3, <2>4, <2>5 DEF Ends
  <2> QED BY <1>0, <2>6, EndsIsKind
<1>3. ASSUME NEW j \in Job, NEW i \in Input, AssessFit(p, j, i) PROVE StepKind
  BY <1>3, ClaimAndLaunchIsKind DEF AssessFit, SlotFree
<1>4. ASSUME NEW j \in Job, NEW i \in Input, NEW action \in {"none", "resume", "retry", "reprepare"},
             Request(p, j, i, action)
      PROVE  StepKind
  <2>1. CASE QueueOnly(j)
    <3> DEFINE row == [job[j] EXCEPT !.missing_inputs = {}, !.preparation_state = "queued"]
    <3>1. /\ row.current_attempt = job[j].current_attempt /\ ~Preparing(row)
          /\ job' = [job EXCEPT ![j] = row] /\ UNCHANGED attempt
      BY <2>1 DEF QueueOnly, JobRow, Preparing, TypeInv, TypeOK
    <3>2. ~Preparing(job[j])
      BY <1>4, NotPreparing DEF Request, SlotFree
    <3> HIDE DEF row
    <3> QED BY <3>1, <3>2, EditIsKind
  <2> QED BY <1>4, <2>1, ClaimAndLaunchIsKind DEF Request, SlotFree
<1> QED BY <1>1, <1>2, <1>3, <1>4 DEF User

LEMMA DrainKind == ASSUME TypeInv, OwnershipInv, NEW p \in Proc, Drain(p) PROVE StepKind
<1>0. /\ "interrupted" \in Finished
      /\ {"interrupt", "block"} \subseteq Action \ {"claim"}
      /\ Expired \in SUBSET Active
  BY DEF Finished, AttemptStatus, Action, Expired
<1>1. CASE Wake(p)
  BY <1>0, <1>1, CloseAndReleaseIsKind, EndsIsKind DEF Wake
<1>2. CASE DrainPick(p)
  <2>1. UNCHANGED attempt
    BY <1>2 DEF DrainPick
  <2>2. ASSUME NEW j \in Job, Eligible(job[j]), BlockUnresolved(j) PROVE StepKind
    <3> DEFINE row == [Prepared(job[j], "block") EXCEPT !.missing_inputs = {"blocker"}]
    <3>1. /\ Prepared(job[j], "block") \in JobRow
          /\ Prepared(job[j], "block").current_attempt = job[j].current_attempt
          /\ Prepared(job[j], "block").preparation_state # "preparing"
      BY <1>0, PreparedRow, PreparedIsNotPreparing DEF TypeInv, TypeOK, Bound
    <3>2. row.current_attempt = job[j].current_attempt /\ ~Preparing(row)
      BY <3>1 DEF JobRow, Preparing
    <3>3. job' = [job EXCEPT ![j] = row]
      BY <2>2 DEF BlockUnresolved, TypeInv, TypeOK
    <3> HIDE DEF row
    <3> QED BY <2>1, <2>2, <3>2, <3>3, EditIsKind DEF Eligible, Preparing
  <2>3. UNCHANGED job \/ \E j \in Job : Eligible(job[j]) /\ BlockUnresolved(j)
    BY <1>2 DEF DrainPick
  <2> QED BY <2>1, <2>2, <2>3, QuietIsKind DEF LinksKept
<1>3. CASE DrainClaim(p)
  <2> DEFINE attempts == Closed(Expired, "interrupted")
             jobs == Released(Expired, "interrupt")
             j == proc[p].job
             i == proc[p].input
  <2>1. CASE UNCHANGED <<job, attempt>>
    BY <2>1, QuietIsKind DEF LinksKept
  <2>2. CASE job' = jobs /\ attempt' = attempts
    BY <1>0, <2>2, CloseAndReleaseIsKind, EndsIsKind
  <2>3. CASE /\ MayClaim(jobs[j])
             /\ \E a \in Fresh : /\ attempt' = [attempts EXCEPT ![a] = NewAttempt(j, i)]
                                 /\ job' = [jobs EXCEPT ![j] = Claimed(@, a)]
    <3>0. PICK a \in Fresh : /\ attempt' = [attempts EXCEPT ![a] = NewAttempt(j, i)]
                             /\ job' = [jobs EXCEPT ![j] = Claimed(@, a)]
      BY <2>3
    <3>1. j \in Job /\ i \in Input
      BY <1>3 DEF DrainClaim, TypeInv, Bound
    <3>2. Expired = Active
      BY <1>0, <2>3 DEF MayClaim
    <3>3. /\ attempts \in [Attempt -> AttemptRow]
          /\ \A b \in Attempt :
               /\ attempts[b].status = IF b \in Active THEN "interrupted" ELSE attempt[b].status
               /\ attempts[b].job = attempt[b].job
               /\ attempts[b].input = attempt[b].input
               /\ attempts[b].checkpoint = attempt[b].checkpoint
               /\ attempts[b].artifact = attempt[b].artifact
      BY <1>0, <3>2, ClosedRows DEF TypeInv, Finished
    <3>4. jobs \in [Job -> JobRow] /\ \A k \in Job : ~Preparing(jobs[k])
      <4>1. ASSUME NEW k \in Job, Preparing(jobs[k]) PROVE FALSE
        <5>1. Preparing(job[k]) /\ ~ \E b \in Active : attempt[b].job = k
          BY <1>0, <3>2, <4>1, ReleasedRows DEF Preparing
        <5> QED BY <5>1, NotPreparing
      <4> QED BY <1>0, <4>1, ReleasedRows
    <3>5. /\ job' = [jobs EXCEPT ![j] = Claimed(jobs[j], a)]
          /\ attempt' = [attempts EXCEPT ![a] = NewAttempt(j, i)]
      BY <3>0, <3>1, <3>4
    <3> HIDE DEF attempts, jobs, j, i
    <3>6. jobs[j] \in JobRow
      BY <3>1, <3>4
    <3> QED BY <3>1, <3>3, <3>4, <3>5, <3>6, ClaimIsKind
  <2>4. \/ UNCHANGED <<job, attempt>>
        \/ job' = jobs /\ attempt' = attempts
        \/ /\ MayClaim(jobs[j])
           /\ \E a \in Fresh : /\ attempt' = [attempts EXCEPT ![a] = NewAttempt(j, i)]
                               /\ job' = [jobs EXCEPT ![j] = Claimed(@, a)]
    BY <1>3 DEF DrainClaim
  <2> QED BY <2>1, <2>2, <2>3, <2>4
<1> QED BY <1>1, <1>2, <1>3 DEF Drain

LEMMA ExecuteKind == ASSUME TypeInv, OwnershipInv, NEW p \in Proc, Execute(p) PROVE StepKind
<1> DEFINE a == proc[p].attempt
           row == job[attempt[a].job]
<1>0. /\ {"interrupted", "completed", "failed"} \subseteq Finished
      /\ {"interrupt", "fit_complete", "complete", "fail", "block"} \subseteq Action \ {"claim"}
  BY DEF Finished, AttemptStatus, Action
<1>1. Executing(p)
  BY DEF Execute, ExecBegin, Heartbeat, Deadline, ExecComplete, ExecFail, ExecBlock,
         ExecAborted, Settling
<1>2. a \in Attempt /\ attempt[a].status # "none" /\ row \in JobRow
  BY <1>1 DEF TypeInv, TypeOK, Bound
<1>3. ASSUME NEW status \in Finished, NEW action \in Action \ {"claim"}, Finish(a, status, action, row)
      PROVE  StepKind
  BY <1>2, <1>3, FinishIsKind
<1>4. CASE UNCHANGED <<job, attempt>>
  BY <1>4, QuietIsKind DEF LinksKept
<1>5. CASE ExecBegin(p)
  BY <1>0, <1>3, <1>4, <1>5 DEF ExecBegin
<1>6. CASE Heartbeat(p)
  <2>1. CASE attempt' = [attempt EXCEPT ![a].lease = MaxLease]
    <3>1. \A b \in Attempt : /\ attempt'[b].status = attempt[b].status
                             /\ attempt'[b].job = attempt[b].job
                             /\ attempt'[b].input = attempt[b].input
                             /\ OutputKept(b)
      BY <2>1 DEF TypeInv, TypeOK, AttemptRow, OutputKept
    <3>2. Ends({}, "failed")
      BY <1>6, <3>1 DEF Heartbeat, Ends, LinksKept
    <3> QED BY <1>0, <3>2, EndsIsKind
  <2> QED BY <1>4, <1>6, <2>1 DEF Heartbeat
<1>7. CASE Deadline(p)
  BY <1>4, <1>7 DEF Deadline, tables
<1>8. CASE ExecComplete(p)
  <2>1. Finish(a, "completed", IF Kind(a) = "fit" THEN "fit_complete" ELSE "complete", row)
    BY <1>8 DEF ExecComplete
  <2> QED BY <1>0, <1>3, <2>1
<1>9. CASE ExecFail(p)
  BY <1>0, <1>3, <1>9 DEF ExecFail
<1>10. CASE ExecBlock(p)
  <2>1. PICK kind \in Recovery \ {"none"} :
          Finish(a, "failed", "block", [row EXCEPT !.recovery = kind, !.missing_inputs = {"blocker"}])
    BY <1>10 DEF ExecBlock
  <2>2. /\ [row EXCEPT !.recovery = kind, !.missing_inputs = {"blocker"}] \in JobRow
        /\ [row EXCEPT !.recovery = kind, !.missing_inputs = {"blocker"}].current_attempt
             = row.current_attempt
    BY <1>2 DEF JobRow
  <2> QED BY <1>0, <1>2, <2>1, <2>2, FinishIsKind
<1>11. CASE ExecAborted(p)
  BY <1>0, <1>3, <1>11 DEF ExecAborted
<1> QED BY <1>5, <1>6, <1>7, <1>8, <1>9, <1>10, <1>11 DEF Execute

LEMMA PipelineKind == ASSUME TypeInv, NEW a \in Attempt, Pipeline(a) PROVE StepKind
<1>1. attempt \in [Attempt -> AttemptRow]
  BY DEF TypeInv, TypeOK
<1>2. CASE SaveCheckpoint(a)
  <2>1. Produces(a)
    BY <1>1, <1>2 DEF SaveCheckpoint, Fenced, Active, Produces, OutputKept, AttemptRow
  <2> QED BY <2>1 DEF StepKind
<1>3. CASE PublishArtifact(a)
  <2>1. Produces(a)
    BY <1>1, <1>3 DEF PublishArtifact, Fenced, Active, Produces, OutputKept, AttemptRow
  <2> QED BY <2>1 DEF StepKind
<1>4. CASE PipelineEnd(a)
  BY <1>4, QuietIsKind DEF PipelineEnd, tables, LinksKept
<1> QED BY <1>2, <1>3, <1>4 DEF Pipeline

LEMMA TickKind == ASSUME TypeInv, Tick PROVE StepKind
<1>1. \A b \in Attempt : /\ attempt'[b].status = attempt[b].status
                         /\ attempt'[b].job = attempt[b].job
                         /\ attempt'[b].input = attempt[b].input
                         /\ OutputKept(b)
  BY DEF Tick, TypeInv, TypeOK, AttemptRow, OutputKept
<1>2. Ends({}, "failed")
  BY <1>1 DEF Tick, Ends, LinksKept
<1> QED BY <1>2, EndsIsKind DEF Finished, AttemptStatus

LEMMA EveryStepHasKind == TypeInv /\ OwnershipInv /\ [Next]_vars => StepKind
<1> SUFFICES ASSUME TypeInv, OwnershipInv, [Next]_vars PROVE StepKind
  OBVIOUS
<1>1. CASE UNCHANGED <<job, attempt>>
  BY <1>1, QuietIsKind DEF LinksKept
<1>2. CASE Next
  <2>1. ASSUME NEW p \in Proc, Lifecycle(p) PROVE UNCHANGED <<job, attempt>>
    BY <2>1 DEF Lifecycle, Dispose, Exit, Restart, tables
  <2>2. ASSUME StartAutomatic \/ PauseAfterCurrent PROVE UNCHANGED <<job, attempt>>
    BY <2>2 DEF StartAutomatic, PauseAfterCurrent
  <2> QED BY <1>1, <1>2, <2>1, <2>2, EditKind, UserKind, DrainKind, ExecuteKind, PipelineKind,
             TickKind DEF Next
<1> QED BY <1>1, <1>2 DEF vars

-----------------------------------------------------------------------------
(* The theorems *)

LEMMA OwnershipInit == Init => OwnershipInv
<1> SUFFICES ASSUME Init PROVE OwnershipInv
  OBVIOUS
<1>1. \A a \in Attempt : attempt[a] = NoJobAttempt
  BY DEF Init
<1>2. Active = {} /\ FreshIsEmpty
  BY <1>1 DEF Active, Fresh, FreshIsEmpty, NoJobAttempt
<1>3. \A j \in Job : job[j].preparation_state # "preparing"
  BY DEF Init, Intake
<1> QED BY <1>2, <1>3 DEF OwnershipInv, OwnershipAgrees, SingleActive

LEMMA OwnershipNext == TypeInv /\ OwnershipInv /\ [Next]_vars => OwnershipInv'
  BY EveryStepHasKind, EndsKeepsInv, ProducesKeepsInv, StartsKeepsInv DEF StepKind

LEMMA OwnershipInvariant == Spec => []OwnershipInv
  BY TypeInvariant, OwnershipInit, OwnershipNext, PTL DEF Spec

\* However the processes interleave, crash and recover, the attempts table and
\* the jobs table name the same work.
THEOREM OwnershipAlwaysAgrees == Spec => []OwnershipAgrees
<1>1. OwnershipInv => OwnershipAgrees
  BY DEF OwnershipInv
<1> QED BY <1>1, OwnershipInvariant, PTL

\* At most one attempt of the workspace is active, by the admission checks
\* alone (the unique index on the attempts table is not used).
THEOREM AtMostOneActive == Spec => []SingleActive
<1>1. OwnershipInv => SingleActive
  BY DEF OwnershipInv
<1> QED BY <1>1, OwnershipInvariant, PTL

-----------------------------------------------------------------------------
(* The refinement *)

Slots == <<slotOwner, slotOutcome, slotOutput>>

\* The slot's owner is the active attempt.
LEMMA OwnerIsActive ==
  ASSUME OwnershipInv
  PROVE  /\ \A a \in Active : slotOwner = a
         /\ slotOwner = NONE <=> Active = {}
  BY ConstantsAssumption DEF OwnershipInv, SingleActive, slotOwner, Active

LEMMA NextOwnerIsActive ==
  ASSUME OwnershipInv'
  PROVE  /\ \A a \in Active' : slotOwner' = a
         /\ slotOwner' = NONE <=> Active' = {}
  BY ConstantsAssumption DEF OwnershipInv, SingleActive, slotOwner, Active

LEMMA SlotInit == Init => Slot!Init
<1> SUFFICES ASSUME Init PROVE Slot!Init
  OBVIOUS
<1>1. \A a \in Attempt : attempt[a] = NoJobAttempt
  BY DEF Init
<1>2. Active = {}
  BY <1>1 DEF Active, NoJobAttempt
<1>3. slotOwner = NONE
  BY <1>2 DEF slotOwner
<1>4. slotOutcome = [a \in Attempt |-> NONE]
  BY <1>1 DEF slotOutcome, NoJobAttempt
<1>5. slotOutput = [a \in Attempt |-> {}]
  BY <1>1 DEF slotOutput, NoJobAttempt
<1> QED BY <1>3, <1>4, <1>5 DEF Slot!Init

\* Ending the owner releases the slot; ending nothing is a stutter.
LEMMA EndsImplementsSlot ==
  ASSUME TypeInv, OwnershipInv, OwnershipInv', NEW S, NEW status \in Finished, Ends(S, status)
  PROVE  [Slot!Next]_Slots
<1>1. slotOutput' = slotOutput
  BY DEF Ends, OutputKept, slotOutput
<1>2. \A a \in Attempt : a \in Active' <=> a \in Active /\ a \notin S
  BY DEF Ends, Finished, Active
<1>3. CASE S = {}
  <2>1. Active' = Active
    BY <1>2, <1>3 DEF Active
  <2>2. slotOwner' = slotOwner
    BY <2>1 DEF slotOwner
  <2>3. slotOutcome' = slotOutcome
    BY <1>3 DEF Ends, slotOutcome
  <2> QED BY <1>1, <2>2, <2>3 DEF Slots
<1>4. CASE S # {}
  <2>1. PICK a \in Active : S = {a} /\ Active = {a}
    BY <1>4 DEF Ends, OwnershipInv, SingleActive
  <2>2. slotOwner = a /\ slotOwner # NONE /\ a \in Attempt
    BY <2>1, OwnerIsActive DEF Active
  <2>3. Active' = {}
    BY <1>2, <2>1 DEF Active
  <2>4. slotOwner' = NONE
    BY <2>3 DEF slotOwner
  <2>5. slotOutcome' = [slotOutcome EXCEPT ![slotOwner] = status]
    BY <2>1, <2>2 DEF Ends, Finished, slotOutcome
  <2>6. Slot!Release(status, NONE)
    BY <1>1, <2>2, <2>4, <2>5 DEF Slot!Release
  <2> QED BY <2>6 DEF Slot!Next, Finished
<1> QED BY <1>3, <1>4

\* What an active attempt saves is produced by the owner.
LEMMA ProducesImplementsSlot ==
  ASSUME TypeInv, OwnershipInv, OwnershipInv', NEW a \in Attempt, Produces(a)
  PROVE  [Slot!Next]_Slots
<1>1. slotOwner = a /\ slotOwner # NONE
  BY OwnerIsActive DEF Produces
<1>2. Active' = Active
  BY DEF Produces, Active
<1>3. slotOwner' = slotOwner
  BY <1>2 DEF slotOwner
<1>4. slotOutcome' = slotOutcome
  BY DEF Produces, slotOutcome
<1>5. PICK x \in {"checkpoint", "artifact"} : slotOutput'[a] = slotOutput[a] \cup {x}
  <2>1. CASE attempt'[a].checkpoint /\ attempt'[a].artifact = attempt[a].artifact
    <3>1. slotOutput'[a] = slotOutput[a] \cup {"checkpoint"}
      BY <2>1 DEF slotOutput
    <3> QED BY <3>1
  <2>2. CASE attempt'[a].artifact /\ attempt'[a].checkpoint = attempt[a].checkpoint
    <3>1. slotOutput'[a] = slotOutput[a] \cup {"artifact"}
      BY <2>2 DEF slotOutput
    <3> QED BY <3>1
  <2> QED BY <2>1, <2>2 DEF Produces
<1>6. slotOutput' = [slotOutput EXCEPT ![a] = @ \cup {x}]
  <2>1. \A b \in Attempt \ {a} : slotOutput'[b] = slotOutput[b]
    BY DEF Produces, OutputKept, slotOutput
  <2> QED BY <1>5, <2>1 DEF slotOutput
<1>7. Slot!Produce(x)
  BY <1>1, <1>3, <1>4, <1>6 DEF Slot!Produce
<1> QED BY <1>7 DEF Slot!Next

\* A claim takes the free slot, or the slot of the attempt it interrupts.
LEMMA StartsImplementsSlot ==
  ASSUME TypeInv, OwnershipInv, OwnershipInv', NEW a \in Attempt, NEW j \in Job, Starts(a, j)
  PROVE  [Slot!Next]_Slots
<1>1. a \in Fresh /\ a \notin Active /\ attempt[a].status = "none"
  BY DEF Starts, Fresh, Active
<1>2. slotOwner' = a
  BY NextOwnerIsActive DEF Starts, Active
<1>3. slotOutput' = slotOutput
  BY <1>1 DEF Starts, OutputKept, OwnershipInv, FreshIsEmpty, slotOutput
<1>4. slotOutcome[a] = NONE /\ slotOutput[a] = {}
  BY <1>1 DEF slotOutcome, slotOutput, OwnershipInv, FreshIsEmpty
<1>5. CASE Active = {}
  <2>1. slotOwner = NONE
    BY <1>5, OwnerIsActive
  <2>2. slotOutcome' = slotOutcome
    BY <1>1, <1>5 DEF Starts, slotOutcome
  <2>3. Slot!Acquire(a)
    BY <1>2, <1>3, <1>4, <2>1, <2>2, ConstantsAssumption DEF Slot!Acquire, Slot!Untried
  <2> QED BY <2>3 DEF Slot!Next
<1>6. CASE Active # {}
  <2>1. PICK b \in Active : Active = {b}
    BY <1>6 DEF OwnershipInv, SingleActive
  <2>2. slotOwner = b /\ slotOwner # NONE /\ b \in Attempt /\ b # a
    BY <1>1, <2>1, OwnerIsActive DEF Active
  <2>3. slotOutcome' = [slotOutcome EXCEPT ![slotOwner] = "interrupted"]
    BY <1>1, <2>1, <2>2 DEF Starts, slotOutcome
  <2>4. Slot!Release("interrupted", a)
    BY <1>2, <1>3, <1>4, <2>2, <2>3 DEF Slot!Release, Slot!Untried
  <2> QED BY <2>4 DEF Slot!Next, AttemptStatus
<1> QED BY <1>5, <1>6

LEMMA SlotStep ==
  TypeInv /\ OwnershipInv /\ OwnershipInv' /\ [Next]_vars => [Slot!Next]_Slots
  BY EveryStepHasKind, EndsImplementsSlot, ProducesImplementsSlot, StartsImplementsSlot
     DEF StepKind

\* JobQueue implements PreparationSlot: the workspace runs one preparation at
\* a time, nothing is saved for an attempt that lost the slot, and an outcome
\* is final.
THEOREM QueueImplementsSlot == Spec => ImplementsSlot
<1>1. Slot!Spec <=> Slot!Init /\ [][Slot!Next]_Slots
  BY DEF Slot!Spec, Slot!slotVars, Slots
<1> QED BY <1>1, SlotInit, SlotStep, TypeInvariant, OwnershipInvariant, PTL
        DEF Spec, ImplementsSlot

-----------------------------------------------------------------------------
(* III.  The rows: nothing starts while processing is halted, drain claims   *)
(* only what is still eligible, archived jobs stay out of the queue, a ready *)
(* resume is a published one whose inputs are not marked stale, and an       *)
(* assessment gives a borrowed ready resume back.                            *)
(*                                                                           *)
(* The first two are about the steps that start an attempt, of which there   *)
(* are two.  The others need one invariant: an attempt's input is a snapshot *)
(* of the attempt's own job, and a snapshot that returns a ready resume was  *)
(* taken of a job that has one.                                              *)

-----------------------------------------------------------------------------
(* The steps that start an attempt *)

StartsNothing == \A a \in Fresh : attempt'[a].status = "none"

\* A request or an assessment, admitted while nothing is active.
Launches(p, j, i, a) ==
  /\ ClaimAndLaunch(p, j, i, a)
  /\ ~Halted
  /\ Active = {}
  /\ ~job[j].archived
  /\ input'[i].job = j

\* Drain, after it has interrupted what had expired.
DrainStarts(p, a) ==
  LET j == proc[p].job
  IN /\ proc[p].pc = "picked"
     /\ a \in Fresh
     /\ MayClaim(Released(Expired, "interrupt")[j])
     /\ attempt' = [Closed(Expired, "interrupted") EXCEPT ![a] = NewAttempt(j, proc[p].input)]
     /\ job' = [Released(Expired, "interrupt") EXCEPT ![j] = Claimed(@, a)]
     /\ proc' = [proc EXCEPT ![p] = [Idle(p) EXCEPT !.pc = "exec", !.attempt = a]]
     /\ UNCHANGED input

Start ==
  \/ StartsNothing
  \/ \E p \in Proc, j \in Job, i \in Input, a \in Attempt : Launches(p, j, i, a)
  \/ \E p \in Proc, a \in Attempt : DrainStarts(p, a)

\* Closing active attempts starts none.
LEMMA ClosingStartsNothing ==
  ASSUME TypeInv, NEW S \in SUBSET Active, NEW status \in Finished, attempt' = Closed(S, status)
  PROVE  StartsNothing
  BY ClosedRows DEF StartsNothing, Fresh, Active, Finished, TypeInv

LEMMA FinishStartsNothing ==
  ASSUME TypeInv, NEW a \in Attempt, NEW status \in Finished, NEW action, NEW row,
         Finish(a, status, action, row)
  PROVE  StartsNothing
<1>1. CASE Fenced(a)
  <2>1. {a} \in SUBSET Active /\ attempt' = Closed({a}, status)
    BY <1>1 DEF Finish, Fenced, Active
  <2> QED BY <2>1, ClosingStartsNothing
<1>2. CASE UNCHANGED attempt
  BY <1>2 DEF StartsNothing, Fresh
<1> QED BY <1>1, <1>2 DEF Finish

LEMMA UserStart == ASSUME TypeInv, NEW p \in Proc, User(p) PROVE Start
<1>0. "cancelled" \in Finished
  BY DEF Finished, AttemptStatus
<1>1. ASSUME NEW S \in SUBSET Active, attempt' = Closed(S, "cancelled") PROVE Start
  BY <1>0, <1>1, ClosingStartsNothing DEF Start
<1>2. CASE StopProcessing(p)
  BY <1>1, <1>2 DEF StopProcessing
<1>3. ASSUME NEW j \in Job, CancelJob(p, j) PROVE Start
  BY <1>1, <1>3 DEF CancelJob
<1>4. ASSUME NEW j \in Job, NEW i \in Input, AssessFit(p, j, i) PROVE Start
  <2>1. input'[i].job = j
    BY <1>4 DEF AssessFit, FitInput, TypeInv, TypeOK
  <2> QED BY <1>4, <2>1 DEF AssessFit, Start, Launches, SlotFree
<1>5. ASSUME NEW j \in Job, NEW i \in Input, NEW action \in {"none", "resume", "retry", "reprepare"},
             Request(p, j, i, action)
      PROVE  Start
  <2>1. CASE QueueOnly(j)
    BY <2>1 DEF QueueOnly, Start, StartsNothing, Fresh
  <2>2. CASE ~Halted /\ \E a \in Attempt : ClaimAndLaunch(p, j, i, a)
    BY <1>5, <2>2 DEF Request, Start, Launches, SlotFree
  <2> QED BY <1>5, <2>1, <2>2 DEF Request
<1> QED BY <1>2, <1>3, <1>4, <1>5 DEF User

LEMMA DrainStart == ASSUME TypeInv, NEW p \in Proc, Drain(p) PROVE Start
<1>1. CASE UNCHANGED attempt
  BY <1>1 DEF Start, StartsNothing, Fresh
<1>2. CASE attempt' = Closed(Expired, "interrupted")
  BY <1>2, ClosingStartsNothing DEF Expired, Finished, AttemptStatus, Start
<1>3. CASE Wake(p)
  BY <1>2, <1>3 DEF Wake
<1>4. CASE DrainPick(p)
  BY <1>1, <1>4 DEF DrainPick
<1>5. CASE DrainClaim(p)
  <2>1. ASSUME NEW a \in Fresh,
               MayClaim(Released(Expired, "interrupt")[proc[p].job]),
               attempt' = [Closed(Expired, "interrupted") EXCEPT ![a] =
                             NewAttempt(proc[p].job, proc[p].input)],
               job' = [Released(Expired, "interrupt") EXCEPT ![proc[p].job] = Claimed(@, a)],
               proc' = [proc EXCEPT ![p] = [Idle(p) EXCEPT !.pc = "exec", !.attempt = a]]
        PROVE  Start
    <3>1. DrainStarts(p, a) /\ a \in Attempt
      BY <1>5, <2>1 DEF DrainClaim, DrainStarts, Fresh
    <3> QED BY <3>1 DEF Start
  <2> QED BY <1>1, <1>2, <1>5, <2>1 DEF DrainClaim
<1> QED BY <1>3, <1>4, <1>5 DEF Drain

LEMMA ExecuteStart == ASSUME TypeInv, NEW p \in Proc, Execute(p) PROVE Start
<1> DEFINE a == proc[p].attempt
<1>0. {"interrupted", "completed", "failed"} \subseteq Finished
  BY DEF Finished, AttemptStatus
<1>1. Executing(p)
  BY DEF Execute, ExecBegin, Heartbeat, Deadline, ExecComplete, ExecFail, ExecBlock,
         ExecAborted, Settling
<1>2. a \in Attempt
  BY <1>1 DEF TypeInv, Bound
<1>3. CASE UNCHANGED attempt
  BY <1>3 DEF Start, StartsNothing, Fresh
<1>4. ASSUME NEW status \in Finished, NEW action, NEW row, Finish(a, status, action, row) PROVE Start
  BY <1>2, <1>4, FinishStartsNothing DEF Start
<1>5. CASE Heartbeat(p)
  <2>1. \A b \in Attempt : attempt'[b].status = attempt[b].status
    BY <1>5 DEF Heartbeat, TypeInv, TypeOK, AttemptRow
  <2> QED BY <2>1 DEF Start, StartsNothing, Fresh
<1>6. CASE ExecBegin(p)
  BY <1>0, <1>3, <1>4, <1>6 DEF ExecBegin
<1>7. CASE ExecComplete(p)
  <2>1. \E action, row : Finish(a, "completed", action, row)
    BY <1>7 DEF ExecComplete
  <2> QED BY <1>0, <1>4, <2>1
<1>8. CASE ExecFail(p)
  BY <1>0, <1>4, <1>8 DEF ExecFail
<1>9. CASE ExecBlock(p)
  <2>1. \E action, row : Finish(a, "failed", action, row)
    BY <1>9 DEF ExecBlock
  <2> QED BY <1>0, <1>4, <2>1
<1>10. CASE ExecAborted(p)
  BY <1>0, <1>4, <1>10 DEF ExecAborted
<1> QED BY <1>3, <1>5, <1>6, <1>7, <1>8, <1>9, <1>10 DEF Execute, Deadline, tables

\* Everything else leaves the status of every attempt alone.
LEMMA EveryStart == TypeInv /\ [Next]_vars => Start
<1> SUFFICES ASSUME TypeInv, [Next]_vars PROVE Start
  OBVIOUS
<1>1. CASE UNCHANGED attempt
  BY <1>1 DEF Start, StartsNothing, Fresh
<1>2. CASE \A a \in Attempt : attempt'[a].status = attempt[a].status
  BY <1>2 DEF Start, StartsNothing, Fresh
<1>3. ASSUME NEW j \in Job, Edit(j) PROVE UNCHANGED attempt
  BY <1>3 DEF Edit, SavePosting, SaveContext, PasteFallback, TrackJob, Track, PublishManual, CaptureInputs
<1>4. ASSUME NEW p \in Proc, Lifecycle(p) PROVE UNCHANGED attempt
  BY <1>4 DEF Lifecycle, Dispose, Exit, Restart, tables
<1>5. ASSUME NEW a \in Attempt, Pipeline(a)
      PROVE  \A b \in Attempt : attempt'[b].status = attempt[b].status
  BY <1>5 DEF Pipeline, SaveCheckpoint, PublishArtifact, PipelineEnd, tables, TypeInv, TypeOK, AttemptRow
<1>6. Tick => \A b \in Attempt : attempt'[b].status = attempt[b].status
  BY DEF Tick, TypeInv, TypeOK, AttemptRow
<1>7. StartAutomatic \/ PauseAfterCurrent => UNCHANGED attempt
  BY DEF StartAutomatic, PauseAfterCurrent
<1> QED BY <1>1, <1>2, <1>3, <1>4, <1>5, <1>6, <1>7, UserStart, DrainStart, ExecuteStart DEF Next, vars

\* Whatever the processes interleave, no attempt starts while processing is
\* stopped or paused: drain and every request read the control row in the
\* transaction that claims.
THEOREM NothingEverStartsWhileHalted == Spec => NothingStartsWhileHalted
<1>1. TypeInv /\ [Next]_vars =>
        [\A a \in Attempt :
           attempt[a].status = "none" /\ attempt'[a].status = "active" => ~Halted]_vars
  <2> SUFFICES ASSUME TypeInv, [Next]_vars,
                      NEW a \in Attempt, attempt[a].status = "none", attempt'[a].status = "active"
               PROVE  ~Halted
    OBVIOUS
  <2>1. ~StartsNothing
    BY DEF StartsNothing, Fresh
  <2> QED BY <2>1, EveryStart DEF Start, Launches, DrainStarts, MayClaim, Automatic
<1> QED BY <1>1, TypeInvariant, PTL DEF Spec, NothingStartsWhileHalted

-----------------------------------------------------------------------------
(* What drain claims *)

\* The actions that end an attempt or take a job out of the queue.
EndAction == {"block", "fit_complete", "complete", "fail", "interrupt", "cancel"}

\* They never leave the job queued or preparing, and are no business of tracking.
LEMMA EndedRow ==
  ASSUME TypeInv, NEW row \in JobRow, NEW action \in EndAction,
         row.current_attempt # NONE => attempt[row.current_attempt].status # "none"
  PROVE  /\ Prepared(row, action).preparation_state \notin {"queued", "preparing"}
         /\ Prepared(row, action).archived = row.archived
         /\ Prepared(row, action).applied = row.applied
<1>1. CASE RestoresFitState(row, action)
  <2> DEFINE captured == input[attempt[row.current_attempt].input]
  <2>1. captured \in InputRow
    BY <1>1 DEF TypeInv, TypeOK, Bound, RestoresFitState, JobRow
  <2>2. captured.return_state \notin {"queued", "preparing"}
    BY <2>1 DEF InputRow
  <2> HIDE DEF captured
  <2>3. Prepared(row, action) =
          [row EXCEPT !.preparation_state = captured.return_state,
                      !.missing_inputs = captured.return_missing,
                      !.recovery = captured.return_recovery]
    BY <1>1 DEF Prepared, captured
  <2> QED BY <2>2, <2>3 DEF JobRow
<1>2. CASE ~RestoresFitState(row, action)
  <2>1. EdgeTo(action) \notin {"queued", "preparing"}
    BY DEF EdgeTo, EndAction
  <2> QED BY <1>2, <2>1 DEF Prepared, JobRow
<1> QED BY <1>1, <1>2

\* A job that is queued after recovery was not recovered.
LEMMA QueuedIsUntouched ==
  ASSUME TypeInv, NEW S, NEW action \in EndAction, NEW j \in Job,
         Released(S, action)[j].preparation_state = "queued"
  PROVE  Released(S, action)[j] = job[j]
<1>1. /\ job[j] \in JobRow
      /\ job[j].current_attempt # NONE => attempt[job[j].current_attempt].status # "none"
  BY DEF TypeInv, TypeOK, Bound
<1>2. Prepared(job[j], action).preparation_state # "queued"
  BY <1>1, EndedRow
<1> QED BY <1>2 DEF Released

\* No worker that picked a job begins to execute.
PickedStay == \A p \in Proc : ~(proc[p].pc = "picked" /\ proc'[p].pc = "exec")

LEMMA WorkerStays ==
  ASSUME TypeInv, NEW p \in Proc, NEW w, w.pc # "exec" \/ w.pc = proc[p].pc,
         proc' = [proc EXCEPT ![p] = w]
  PROVE  PickedStay
  BY DEF PickedStay, TypeInv, TypeOK

LEMMA SameWorkers == UNCHANGED proc => PickedStay
  BY DEF PickedStay

\* Firing a signal, and leaving execute, are no claims.
LEMMA OtherWorkers ==
  ASSUME TypeInv, NEW p \in Proc
  PROVE  /\ \A S : proc' = Aborting(p, S) => PickedStay
         /\ proc' = [proc EXCEPT ![p].aborted = TRUE] => PickedStay
         /\ proc' = [proc EXCEPT ![p] = Settled(p)] => PickedStay
         /\ proc' = [proc EXCEPT ![p] = Idle(p)] => PickedStay
<1>1. proc \in [Proc -> Worker] /\ proc[p] \in Worker
  BY DEF TypeInv, TypeOK
<1>2. Idle(p).pc = "idle" /\ Settled(p).pc \in {"idle", "loop"}
  BY IdleWorker DEF TypeInv
<1>3. proc' = [proc EXCEPT ![p].aborted = TRUE] => PickedStay
  BY <1>1 DEF PickedStay, Worker
<1> QED BY <1>1, <1>2, <1>3, WorkerStays, SameWorkers DEF Aborting

LEMMA OnlyDrainClaims ==
  TypeInv /\ [Next]_vars => PickedStay \/ \E p \in Proc : DrainClaim(p)
<1> SUFFICES ASSUME TypeInv, [Next]_vars PROVE PickedStay \/ \E p \in Proc : DrainClaim(p)
  OBVIOUS
<1>0. proc \in [Proc -> Worker]
  BY DEF TypeInv, TypeOK
<1>1. ASSUME NEW p \in Proc, NEW x \in {"idle", "loop", "launched", "picked", "exec"},
             x # "exec", NEW w \in Worker, w.pc = x, proc' = [proc EXCEPT ![p] = w]
      PROVE  PickedStay
  BY <1>1, WorkerStays
<1>2. ASSUME NEW p \in Proc, User(p) PROVE PickedStay
  <2>1. ASSUME NEW j \in Job, NEW i \in Input, NEW a \in Attempt, ClaimAndLaunch(p, j, i, a)
        PROVE  PickedStay
    BY <1>0, <2>1 DEF ClaimAndLaunch, PickedStay, Worker
  <2>2. ASSUME NEW j \in Job, QueueOnly(j) PROVE PickedStay
    BY <2>2, SameWorkers DEF QueueOnly
  <2>3. StopProcessing(p) => PickedStay
    BY OtherWorkers DEF StopProcessing
  <2>4. ASSUME NEW j \in Job, CancelJob(p, j) PROVE PickedStay
    BY <2>4, OtherWorkers DEF CancelJob
  <2>5. ASSUME NEW j \in Job, NEW i \in Input, AssessFit(p, j, i) PROVE PickedStay
    BY <2>1, <2>5 DEF AssessFit
  <2>6. ASSUME NEW j \in Job, NEW i \in Input, NEW action, Request(p, j, i, action) PROVE PickedStay
    BY <2>1, <2>2, <2>6 DEF Request
  <2> QED BY <1>2, <2>3, <2>4, <2>5, <2>6 DEF User
<1>3. ASSUME NEW p \in Proc, Wake(p) \/ DrainPick(p) PROVE PickedStay
  <2>1. Wake(p) => PickedStay
    BY <1>0 DEF Wake, PickedStay, Worker
  <2>2. ASSUME NEW j \in Job, NEW i \in Input, Pick(p, j, i) PROVE PickedStay
    BY <1>0, <2>2 DEF Pick, PickedStay, Worker
  <2>3. DrainPick(p) => PickedStay
    BY <2>2, OtherWorkers, SameWorkers DEF DrainPick, BlockUnresolved
  <2> QED BY <1>3, <2>1, <2>3
<1>4. ASSUME NEW p \in Proc, Execute(p) PROVE PickedStay
  <2>1. ExecBegin(p) => PickedStay
    BY OtherWorkers, SameWorkers DEF ExecBegin
  <2>2. Heartbeat(p) \/ Deadline(p) => PickedStay
    BY OtherWorkers, SameWorkers DEF Heartbeat, Deadline
  <2>3. ExecComplete(p) \/ ExecFail(p) \/ ExecBlock(p) => PickedStay
    BY OtherWorkers DEF ExecComplete, ExecFail, ExecBlock, Settling
  <2>4. ExecAborted(p) => PickedStay
    BY OtherWorkers DEF ExecAborted
  <2> QED BY <1>4, <2>1, <2>2, <2>3, <2>4 DEF Execute
<1>5. ASSUME NEW p \in Proc, Lifecycle(p) PROVE PickedStay
  <2>1. Idle(p).pc = "idle" /\ Idle(p) \in Worker
    BY IdleWorker DEF TypeInv
  <2>2. Exit(p) => PickedStay
    BY <1>0, <2>1 DEF Exit, PickedStay, Worker
  <2>3. Dispose(p) \/ Restart(p) => PickedStay
    BY <1>0 DEF Dispose, Restart, PickedStay, Worker
  <2> QED BY <1>5, <2>2, <2>3 DEF Lifecycle
<1>6. ASSUME NEW j \in Job, Edit(j) PROVE PickedStay
  BY <1>6, SameWorkers DEF Edit, SavePosting, SaveContext, PasteFallback, TrackJob, Track, PublishManual,
     CaptureInputs
<1>7. ASSUME NEW a \in Attempt, Pipeline(a) PROVE PickedStay
  BY <1>7, SameWorkers DEF Pipeline, SaveCheckpoint, PublishArtifact, PipelineEnd
<1>8. Tick \/ StartAutomatic \/ PauseAfterCurrent \/ UNCHANGED vars => PickedStay
  BY SameWorkers DEF Tick, StartAutomatic, PauseAfterCurrent, vars
<1> QED BY <1>2, <1>3, <1>4, <1>5, <1>6, <1>7, <1>8 DEF Next, Drain

\* What a drain claims is still queued, and neither archived nor applied to,
\* although it read the job in an earlier transaction.
THEOREM DrainOnlyClaimsEligible == Spec => DrainClaimsEligible
<1>1. TypeInv /\ [Next]_vars =>
        [\A p \in Proc : proc[p].pc = "picked" /\ proc'[p].pc = "exec" =>
           /\ job[proc[p].job].preparation_state = "queued"
           /\ ~job[proc[p].job].archived /\ ~job[proc[p].job].applied]_vars
  <2> SUFFICES ASSUME TypeInv, [Next]_vars,
                      NEW p \in Proc, proc[p].pc = "picked", proc'[p].pc = "exec"
               PROVE  /\ job[proc[p].job].preparation_state = "queued"
                      /\ ~job[proc[p].job].archived /\ ~job[proc[p].job].applied
    OBVIOUS
  <2>1. PICK q \in Proc : DrainClaim(q)
    BY OnlyDrainClaims DEF PickedStay
  <2>2. proc \in [Proc -> Worker] /\ Idle(q).pc = "idle"
    BY IdleWorker DEF TypeInv, TypeOK
  <2>3. q = p
    BY <2>1, <2>2 DEF DrainClaim
  <2>4. Eligible(Released(Expired, "interrupt")[proc[p].job])
    BY <2>1, <2>2, <2>3 DEF DrainClaim, MayClaim
  <2>5. proc[p].job \in Job
    BY DEF TypeInv, Bound
  <2>6. Released(Expired, "interrupt")[proc[p].job] = job[proc[p].job]
    BY <2>4, <2>5, QueuedIsUntouched DEF Eligible, EndAction
  <2> QED BY <2>4, <2>6 DEF Eligible
<1> QED BY <1>1, TypeInvariant, PTL DEF Spec, DrainClaimsEligible

-----------------------------------------------------------------------------
(* Who executes an attempt *)

\* A worker leaves what it executes only when that may not write, or when its process ends.
WorkersStay ==
  \A p \in Proc, a \in Attempt : Supervises(p, a) =>
    Supervises(p, a)' \/ proc'[p].up = "down" \/ ~Fenced(a)'

\* An attempt that starts has a worker.
StartsAreRun == \A a \in Fresh : attempt'[a].status # "none" => \E p \in Proc : Supervises(p, a)'

LEMMA UnmovedStay == UNCHANGED proc => WorkersStay
  BY DEF WorkersStay, Supervises, Executing

LEMMA OneMoves ==
  ASSUME TypeInv, NEW p \in Proc, NEW w, proc' = [proc EXCEPT ![p] = w],
         \A a \in Attempt : Supervises(p, a) =>
           (w.pc \in {"exec", "launched"} /\ w.attempt = a) \/ w.up = "down" \/ ~Fenced(a)'
  PROVE  WorkersStay
  BY DEF WorkersStay, Supervises, Executing, TypeInv, TypeOK

\* Firing a signal moves no worker.
LEMMA AbortedStay ==
  ASSUME TypeInv, NEW p \in Proc
  PROVE  /\ proc' = [proc EXCEPT ![p].aborted = TRUE] => WorkersStay
         /\ \A S : proc' = Aborting(p, S) => WorkersStay
<1>1. proc \in [Proc -> Worker]
  BY DEF TypeInv, TypeOK
<1>2. proc' = [proc EXCEPT ![p].aborted = TRUE] => WorkersStay
  BY <1>1 DEF WorkersStay, Supervises, Executing, Worker
<1> QED BY <1>2, UnmovedStay DEF Aborting

\* After it is finished an attempt may not write: it is closed, or had lost the fence before.
LEMMA FinishedIsUnfenced ==
  ASSUME TypeInv, NEW a \in Attempt, NEW status \in Finished, NEW action, NEW row,
         Finish(a, status, action, row), UNCHANGED control
  PROVE  ~Fenced(a)'
<1>1. CASE Fenced(a)
  <2>1. attempt' = Closed({a}, status) /\ attempt[a] \in AttemptRow
    BY <1>1 DEF Finish, TypeInv, TypeOK
  <2>2. attempt'[a].status = status
    BY <2>1 DEF Closed, AttemptRow
  <2> QED BY <2>2 DEF Fenced, Finished
<1>2. CASE ~Fenced(a)
  BY <1>2 DEF Finish, Fenced
<1> QED BY <1>1, <1>2

LEMMA LeavesFinished ==
  ASSUME TypeInv, NEW p \in Proc, Executing(p), NEW status \in Finished, NEW action, NEW row,
         Finish(proc[p].attempt, status, action, row), UNCHANGED control,
         NEW w, proc' = [proc EXCEPT ![p] = w]
  PROVE  WorkersStay
<1>1. proc[p].attempt \in Attempt
  BY DEF TypeInv, Bound
<1>2. PICK a \in Attempt : a = proc[p].attempt
  BY <1>1
<1>3. ~Fenced(a)'
  BY <1>2, FinishedIsUnfenced
<1>4. \A b \in Attempt : Supervises(p, b) => b = a
  BY <1>2 DEF Supervises
<1> QED BY <1>3, <1>4, OneMoves

LEMMA ExecuteStays == ASSUME TypeInv, NEW p \in Proc, Execute(p) PROVE WorkersStay
<1> DEFINE a == proc[p].attempt
<1>0. {"interrupted", "completed", "failed"} \subseteq Finished
  BY DEF Finished, AttemptStatus
<1>1. Executing(p)
  BY DEF Execute, ExecBegin, Heartbeat, Deadline, ExecComplete, ExecFail, ExecBlock,
         ExecAborted, Settling
<1>2. ASSUME NEW status \in Finished, NEW action, NEW row, Finish(a, status, action, row),
             UNCHANGED control, proc' = [proc EXCEPT ![p] = Settled(p)]
      PROVE  WorkersStay
  BY <1>1, <1>2, LeavesFinished
<1>3. ExecBegin(p) => WorkersStay
  BY <1>0, <1>2, UnmovedStay DEF ExecBegin
<1>4. Heartbeat(p) \/ Deadline(p) => WorkersStay
  BY UnmovedStay, AbortedStay DEF Heartbeat, Deadline
<1>5. CASE ExecComplete(p)
  <2>1. \E action, row : Finish(a, "completed", action, row)
    BY <1>5 DEF ExecComplete
  <2> QED BY <1>0, <1>2, <1>5, <2>1 DEF ExecComplete, Settling
<1>6. CASE ExecFail(p)
  BY <1>0, <1>2, <1>6 DEF ExecFail, Settling
<1>7. CASE ExecBlock(p)
  <2>1. \E action, row : Finish(a, "failed", action, row)
    BY <1>7 DEF ExecBlock
  <2> QED BY <1>0, <1>2, <1>7, <2>1 DEF ExecBlock, Settling
<1>8. CASE ExecAborted(p)
  BY <1>0, <1>2, <1>8 DEF ExecAborted
<1> QED BY <1>3, <1>4, <1>5, <1>6, <1>7, <1>8 DEF Execute

\* Drain, and the launch of a request, begin with a worker that executes nothing.
LEMMA DrainStays == ASSUME TypeInv, NEW p \in Proc, Drain(p) PROVE WorkersStay
<1>1. ~Executing(p)
  BY DEF Drain, Wake, DrainPick, DrainClaim, Executing
<1>2. ASSUME NEW w, proc' = [proc EXCEPT ![p] = w] PROVE WorkersStay
  BY <1>1, <1>2, OneMoves DEF Supervises
<1>3. Wake(p) => WorkersStay
  BY <1>1 DEF Wake, WorkersStay, Supervises, Executing, TypeInv, TypeOK
<1>4. CASE DrainPick(p)
  <2>1. ASSUME NEW j, NEW i, Pick(p, j, i) PROVE WorkersStay
    BY <1>1, <2>1 DEF Pick, WorkersStay, Supervises, Executing, TypeInv, TypeOK
  <2> QED BY <1>2, <1>4, <2>1, UnmovedStay DEF DrainPick, BlockUnresolved
<1>5. DrainClaim(p) => WorkersStay
  BY <1>2 DEF DrainClaim
<1> QED BY <1>3, <1>4, <1>5 DEF Drain

LEMMA UserStays == ASSUME TypeInv, NEW p \in Proc, User(p) PROVE WorkersStay
<1>1. ASSUME NEW j \in Job, NEW i \in Input, NEW a \in Attempt, ClaimAndLaunch(p, j, i, a)
      PROVE  WorkersStay
  BY <1>1 DEF ClaimAndLaunch, WorkersStay, Supervises, Executing, TypeInv, TypeOK
<1>2. StopProcessing(p) => WorkersStay
  BY AbortedStay DEF StopProcessing
<1>3. ASSUME NEW j \in Job, CancelJob(p, j) PROVE WorkersStay
  BY <1>3, AbortedStay DEF CancelJob
<1>4. ASSUME NEW j \in Job, NEW i \in Input, AssessFit(p, j, i) PROVE WorkersStay
  BY <1>1, <1>4 DEF AssessFit
<1>5. ASSUME NEW j \in Job, NEW i \in Input, NEW action, Request(p, j, i, action) PROVE WorkersStay
  BY <1>1, <1>5, UnmovedStay DEF Request, QueueOnly
<1> QED BY <1>2, <1>3, <1>4, <1>5 DEF User

LEMMA EveryWorkerStays == TypeInv /\ [Next]_vars => WorkersStay
<1> SUFFICES ASSUME TypeInv, [Next]_vars PROVE WorkersStay
  OBVIOUS
<1>1. ASSUME NEW p \in Proc, Lifecycle(p) PROVE WorkersStay
  <2>1. Dispose(p) \/ Restart(p) => WorkersStay
    BY DEF Dispose, Restart, WorkersStay, Supervises, Executing, TypeInv, TypeOK, Worker
  <2>2. Exit(p) => WorkersStay
    BY DEF Exit, Idle, WorkersStay, Supervises, Executing, TypeInv, TypeOK, Worker
  <2> QED BY <1>1, <2>1, <2>2 DEF Lifecycle
<1>2. ASSUME NEW j \in Job, Edit(j) PROVE UNCHANGED proc
  BY <1>2 DEF Edit, SavePosting, SaveContext, PasteFallback, TrackJob, Track, PublishManual, CaptureInputs
<1>3. ASSUME NEW a \in Attempt, Pipeline(a) PROVE UNCHANGED proc
  BY <1>3 DEF Pipeline, SaveCheckpoint, PublishArtifact, PipelineEnd
<1>4. Tick \/ StartAutomatic \/ PauseAfterCurrent \/ UNCHANGED vars => UNCHANGED proc
  BY DEF Tick, StartAutomatic, PauseAfterCurrent, vars
<1> QED BY <1>1, <1>2, <1>3, <1>4, UnmovedStay, UserStays, DrainStays, ExecuteStays DEF Next

LEMMA EveryStartIsRun == TypeInv /\ [Next]_vars => StartsAreRun
<1> SUFFICES ASSUME TypeInv, [Next]_vars PROVE StartsAreRun
  OBVIOUS
<1>0. attempt \in [Attempt -> AttemptRow] /\ proc \in [Proc -> Worker]
  BY DEF TypeInv, TypeOK
<1>1. CASE StartsNothing
  BY <1>1 DEF StartsAreRun, StartsNothing
<1>2. ASSUME NEW p \in Proc, NEW j \in Job, NEW i \in Input, NEW a \in Attempt, Launches(p, j, i, a)
      PROVE  StartsAreRun
  <2>1. Supervises(p, a)'
    BY <1>0, <1>2 DEF Launches, ClaimAndLaunch, Supervises, Executing, Worker
  <2>2. \A b \in Fresh : b # a => attempt'[b].status = "none"
    BY <1>0, <1>2 DEF Launches, ClaimAndLaunch, Fresh
  <2> QED BY <2>1, <2>2 DEF StartsAreRun
<1>3. ASSUME NEW p \in Proc, NEW a \in Attempt, DrainStarts(p, a) PROVE StartsAreRun
  <2>1. Supervises(p, a)'
    BY <1>0, <1>3 DEF DrainStarts, Supervises, Executing, Worker, Idle
  <2>2. \A b \in Fresh : b # a => attempt'[b].status = "none"
    BY <1>0, <1>3 DEF DrainStarts, Closed, Expired, Active, Fresh
  <2> QED BY <2>1, <2>2 DEF StartsAreRun
<1> QED BY <1>1, <1>2, <1>3, EveryStart DEF Start

\* No attempt that may write is orphaned while its process lives: what a request or
\* drain claims is executed, and a worker leaves it finished or fenced off.
THEOREM ClaimsAreAlwaysRun == Spec => ClaimsAreRun
<1>1. TypeInv /\ [Next]_vars =>
        [\A a \in Attempt :
           Fenced(a)' /\ (a \in Fresh \/ \E p \in Proc : Supervises(p, a)) =>
             \E p \in Proc : Supervises(p, a)' \/ (Supervises(p, a) /\ proc'[p].up = "down")]_vars
  <2> SUFFICES ASSUME TypeInv, [Next]_vars, NEW a \in Attempt, Fenced(a)',
                      a \in Fresh \/ \E p \in Proc : Supervises(p, a)
               PROVE  \E p \in Proc : Supervises(p, a)' \/ (Supervises(p, a) /\ proc'[p].up = "down")
    OBVIOUS
  <2>1. CASE a \in Fresh
    <3>1. attempt'[a].status # "none"
      BY DEF Fenced
    <3> QED BY <2>1, <3>1, EveryStartIsRun DEF StartsAreRun
  <2>2. ASSUME NEW p \in Proc, Supervises(p, a)
        PROVE  Supervises(p, a)' \/ proc'[p].up = "down"
    BY <2>2, EveryWorkerStays DEF WorkersStay
  <2> QED BY <2>1, <2>2
<1> QED BY <1>1, TypeInvariant, PTL DEF Spec, ClaimsAreRun

-----------------------------------------------------------------------------
(* The invariant of the rows *)

Published(j) == \E a \in Attempt : attempt[a].job = j /\ attempt[a].artifact

\* What a row of job j may show.
GoodRow(j, row) ==
  /\ row.preparation_state = "resume_ready" => row.recovery # "stale_inputs" /\ Published(j)
  /\ row.archived => row.preparation_state \notin {"queued", "preparing"}

\* An attempt works, and drain will claim, from a snapshot of the job itself.
Matching ==
  /\ \A a \in Attempt : attempt[a].status # "none" => input[attempt[a].input].job = attempt[a].job
  /\ \A p \in Proc : proc[p].pc = "picked" => input[proc[p].input].job = proc[p].job

\* A snapshot that returns a ready resume was taken of a job that has one.
GoodReturn(i) ==
  input[i].return_state = "resume_ready" =>
    input[i].return_recovery # "stale_inputs" /\ Published(input[i].job)

StateInv ==
  /\ Matching
  /\ \A i \in Input : GoodReturn(i)
  /\ \A j \in Job : GoodRow(j, job[j])

\* The row an ending action writes is good, if a completed resume is published.
LEMMA EndedRowIsGood ==
  ASSUME TypeInv, StateInv, NEW j \in Job, NEW row \in JobRow, NEW action \in EndAction,
         row.current_attempt = job[j].current_attempt,
         action = "complete" => Published(j)
  PROVE  GoodRow(j, Prepared(row, action))
<1>1. row.current_attempt # NONE => /\ attempt[row.current_attempt].status # "none"
                                    /\ attempt[row.current_attempt].job = j
  BY DEF TypeInv, Bound
<1>2. Prepared(row, action).preparation_state \notin {"queued", "preparing"}
  BY <1>1, EndedRow
<1>3. CASE RestoresFitState(row, action)
  <2> DEFINE i == attempt[row.current_attempt].input
  <2>1. /\ row.current_attempt \in Attempt
        /\ attempt[row.current_attempt].status # "none"
        /\ attempt[row.current_attempt].job = j
    BY <1>1, <1>3 DEF RestoresFitState, JobRow
  <2>2. i \in Input /\ input[i].job = j
    BY <2>1 DEF TypeInv, Bound, StateInv, Matching
  <2>3. GoodReturn(i)
    BY <2>2 DEF StateInv
  <2> HIDE DEF i
  <2>4. Prepared(row, action) =
          [row EXCEPT !.preparation_state = input[i].return_state,
                      !.missing_inputs = input[i].return_missing,
                      !.recovery = input[i].return_recovery]
    BY <1>3 DEF Prepared, i
  <2>5. /\ Prepared(row, action).preparation_state = input[i].return_state
        /\ Prepared(row, action).recovery = input[i].return_recovery
    BY <2>4 DEF JobRow
  <2> QED BY <1>2, <2>2, <2>3, <2>5 DEF GoodRow, GoodReturn
<1>4. CASE ~RestoresFitState(row, action)
  <2>1. EdgeTo(action) = "resume_ready" => action = "complete"
    BY DEF EdgeTo, EndAction
  <2>2. /\ Prepared(row, action).preparation_state = EdgeTo(action)
        /\ action = "complete" => Prepared(row, action).recovery = "none"
    BY <1>4 DEF Prepared, RecoveryAfter, JobRow
  <2> QED BY <1>2, <2>1, <2>2 DEF GoodRow
<1> QED BY <1>3, <1>4

LEMMA ReleasedIsGood ==
  ASSUME TypeInv, StateInv, NEW S, NEW action \in EndAction \ {"complete"}, NEW j \in Job
  PROVE  GoodRow(j, Released(S, action)[j])
<1>1. job[j] \in JobRow /\ GoodRow(j, job[j])
  BY DEF TypeInv, TypeOK, StateInv
<1>2. GoodRow(j, Prepared(job[j], action))
  BY <1>1, EndedRowIsGood
<1> QED BY <1>1, <1>2 DEF Released

-----------------------------------------------------------------------------
(* Every step writes good rows *)

RowsGood == \A j \in Job : GoodRow(j, job'[j])

LEMMA SameRowsAreGood == ASSUME StateInv, UNCHANGED job PROVE RowsGood
  BY DEF StateInv, RowsGood

LEMMA OneRowIsGood ==
  ASSUME TypeInv, StateInv, NEW j \in Job, NEW row, job' = [job EXCEPT ![j] = row], GoodRow(j, row)
  PROVE  RowsGood
  BY DEF StateInv, RowsGood, TypeInv, TypeOK

LEMMA EditRows == ASSUME TypeInv, OwnershipInv, StateInv, NEW j \in Job, Edit(j) PROVE RowsGood
<1>1. /\ job[j] \in JobRow
      /\ job \in [Job -> JobRow]
      /\ GoodRow(j, job[j])
  BY DEF TypeInv, TypeOK, StateInv
<1>2. CASE SavePosting(j)
  <2> DEFINE posted == [job[j] EXCEPT !.posting = @ + 1, !.missing_inputs = @ \ {"posting_text"}]
             row == IF job[j].current_attempt # NONE
                    THEN [posted EXCEPT !.recovery = "stale_inputs", !.preparation_state = "needs_input"]
                    ELSE IF /\ job[j].preparation_state = "needs_input"
                            /\ job[j].missing_inputs \ {"posting_text"} = {}
                    THEN [posted EXCEPT !.preparation_state = "saved"]
                    ELSE posted
  <2>1. job' = [job EXCEPT ![j] = row]
    BY <1>2 DEF SavePosting
  <2>2. \/ row.preparation_state \in {"needs_input", "saved"}
        \/ /\ row.preparation_state = job[j].preparation_state
           /\ row.recovery = job[j].recovery /\ row.archived = job[j].archived
    BY <1>1 DEF JobRow
  <2> HIDE DEF row
  <2>3. GoodRow(j, row)
    BY <1>1, <2>2 DEF GoodRow
  <2> QED BY <2>1, <2>3, OneRowIsGood
<1>3. CASE SaveContext(j)
  <2> DEFINE row == [job[j] EXCEPT !.recovery = "stale_inputs", !.preparation_state = "needs_input"]
  <2>1. job' = [job EXCEPT ![j] = row] /\ row.preparation_state = "needs_input"
    BY <1>1, <1>3 DEF SaveContext, JobRow
  <2> HIDE DEF row
  <2> QED BY <2>1, OneRowIsGood DEF GoodRow
<1>4. CASE PasteFallback(j)
  <2> DEFINE row == [job[j] EXCEPT !.posting = @ + 1, !.missing_inputs = @ \ {"posting_text"}]
  <2>1. job' = [job EXCEPT ![j] = row] /\ row.preparation_state = "needs_input"
    BY <1>1, <1>4 DEF PasteFallback, JobRow
  <2> HIDE DEF row
  <2> QED BY <2>1, OneRowIsGood DEF GoodRow
<1>5. CASE TrackJob(j)
  <2>1. \E x \in BOOLEAN : \/ job' = [job EXCEPT ![j] = [job[j] EXCEPT !.archived = x]]
                           \/ job' = [job EXCEPT ![j] = [job[j] EXCEPT !.applied = x]]
    BY <1>1, <1>5 DEF TrackJob, Track
  <2>2. PICK row : /\ job' = [job EXCEPT ![j] = row]
                   /\ row.recovery = job[j].recovery
                   /\ row.preparation_state = job[j].preparation_state
    BY <1>1, <2>1 DEF JobRow
  <2>3. GoodRow(j, row)
    BY <1>1, <1>5, <2>2 DEF GoodRow, TrackJob
  <2> QED BY <2>2, <2>3, OneRowIsGood
<1>6. CASE PublishManual(j)
  <2> DEFINE row == [job[j] EXCEPT !.preparation_state = "resume_ready", !.recovery = "none"]
  <2>1. /\ job' = [job EXCEPT ![j] = row]
        /\ row.preparation_state = "resume_ready" /\ row.recovery = "none"
    BY <1>1, <1>6 DEF PublishManual, JobRow
  <2>2. Published(j)
    BY <1>6 DEF PublishManual, Published
  <2> HIDE DEF row
  <2> QED BY <2>1, <2>2, OneRowIsGood DEF GoodRow
<1>7. ASSUME NEW i \in Input, CaptureInputs(j, i) PROVE RowsGood
  BY <1>7, SameRowsAreGood DEF CaptureInputs
<1> QED BY <1>2, <1>3, <1>4, <1>5, <1>6, <1>7 DEF Edit

\* A claimed job is preparing, and was not archived.
LEMMA ClaimedIsGood ==
  ASSUME NEW j \in Job, NEW row \in JobRow, NEW a, ~row.archived
  PROVE  GoodRow(j, Claimed(row, a))
<1>1. Claimed(row, a).preparation_state = "preparing" /\ ~Claimed(row, a).archived
  BY DEF Claimed, EdgeTo, JobRow
<1> QED BY <1>1 DEF GoodRow

LEMMA LaunchedRows ==
  ASSUME TypeInv, StateInv, NEW p \in Proc, NEW j \in Job, NEW i \in Input, NEW a \in Attempt,
         ClaimAndLaunch(p, j, i, a), ~job[j].archived
  PROVE  RowsGood
<1> DEFINE row == [job[j] EXCEPT !.missing_inputs = {}]
<1>1. job \in [Job -> JobRow] /\ row \in JobRow /\ ~row.archived
  BY DEF TypeInv, TypeOK, JobRow
<1>2. job' = [job EXCEPT ![j] = Claimed(row, a)]
  BY <1>1 DEF ClaimAndLaunch
<1> HIDE DEF row
<1>3. GoodRow(j, Claimed(row, a))
  BY <1>1, ClaimedIsGood
<1> QED BY <1>2, <1>3, OneRowIsGood

LEMMA UserRows == ASSUME TypeInv, StateInv, NEW p \in Proc, User(p) PROVE RowsGood
<1>0. "cancel" \in EndAction \ {"complete"}
  BY DEF EndAction
<1>1. CASE StopProcessing(p)
  BY <1>0, <1>1, ReleasedIsGood DEF StopProcessing, RowsGood
<1>2. ASSUME NEW j \in Job, CancelJob(p, j) PROVE RowsGood
  <2>1. job \in [Job -> JobRow] /\ job' = [job EXCEPT ![j] = Prepared(job[j], "cancel")]
    BY <1>2 DEF CancelJob, TypeInv, TypeOK
  <2>2. GoodRow(j, Prepared(job[j], "cancel"))
    BY <1>0, <2>1, EndedRowIsGood
  <2> QED BY <2>1, <2>2, OneRowIsGood
<1>3. ASSUME NEW j \in Job, NEW i \in Input, AssessFit(p, j, i) PROVE RowsGood
  BY <1>3, LaunchedRows DEF AssessFit
<1>4. ASSUME NEW j \in Job, NEW i \in Input, NEW action, Request(p, j, i, action) PROVE RowsGood
  <2>1. CASE QueueOnly(j)
    <3> DEFINE row == [job[j] EXCEPT !.missing_inputs = {}, !.preparation_state = "queued"]
    <3>1. /\ job' = [job EXCEPT ![j] = row]
          /\ row.preparation_state = "queued" /\ ~row.archived
      BY <1>4, <2>1 DEF QueueOnly, Request, JobRow, TypeInv, TypeOK
    <3> HIDE DEF row
    <3> QED BY <3>1, OneRowIsGood DEF GoodRow
  <2> QED BY <1>4, <2>1, LaunchedRows DEF Request
<1> QED BY <1>1, <1>2, <1>3, <1>4 DEF User

LEMMA DrainRows == ASSUME TypeInv, StateInv, NEW p \in Proc, Drain(p) PROVE RowsGood
<1>0. {"interrupt", "block"} \subseteq EndAction \ {"complete"} /\ "interrupt" \in Action \ {"claim"}
  BY DEF EndAction, Action
<1>1. CASE job' = Released(Expired, "interrupt")
  BY <1>0, <1>1, ReleasedIsGood DEF RowsGood
<1>2. CASE Wake(p)
  BY <1>1, <1>2 DEF Wake
<1>3. CASE DrainPick(p)
  <2>1. ASSUME NEW j \in Job, BlockUnresolved(j) PROVE RowsGood
    <3> DEFINE row == [Prepared(job[j], "block") EXCEPT !.missing_inputs = {"blocker"}]
    <3>1. job[j] \in JobRow /\ job' = [job EXCEPT ![j] = row]
      BY <2>1 DEF BlockUnresolved, TypeInv, TypeOK
    <3>2. Prepared(job[j], "block") \in JobRow /\ GoodRow(j, Prepared(job[j], "block"))
      BY <1>0, <3>1, EndedRowIsGood, PreparedRow DEF TypeInv, TypeOK, Bound, Action
    <3>3. GoodRow(j, row)
      BY <3>2 DEF GoodRow, JobRow
    <3> HIDE DEF row
    <3> QED BY <3>1, <3>3, OneRowIsGood
  <2> QED BY <1>3, <2>1, SameRowsAreGood DEF DrainPick
<1>4. ASSUME NEW a \in Attempt, DrainStarts(p, a) PROVE RowsGood
  <2> DEFINE jobs == Released(Expired, "interrupt")
             j == proc[p].job
  <2>1. j \in Job
    BY <1>4 DEF DrainStarts, TypeInv, Bound
  <2>2. /\ jobs \in [Job -> JobRow]
        /\ job' = [jobs EXCEPT ![j] = Claimed(jobs[j], a)]
        /\ ~jobs[j].archived
    BY <1>0, <1>4, <2>1, ReleasedRows DEF DrainStarts, MayClaim, Eligible
  <2>3. \A k \in Job : GoodRow(k, jobs[k])
    BY <1>0, ReleasedIsGood
  <2> HIDE DEF jobs, j
  <2>4. GoodRow(j, Claimed(jobs[j], a))
    BY <2>1, <2>2, ClaimedIsGood
  <2> QED BY <2>1, <2>2, <2>3, <2>4 DEF RowsGood
<1>5. CASE DrainClaim(p)
  <2>1. ASSUME NEW a \in Fresh,
               MayClaim(Released(Expired, "interrupt")[proc[p].job]),
               attempt' = [Closed(Expired, "interrupted") EXCEPT ![a] =
                             NewAttempt(proc[p].job, proc[p].input)],
               job' = [Released(Expired, "interrupt") EXCEPT ![proc[p].job] = Claimed(@, a)],
               proc' = [proc EXCEPT ![p] = [Idle(p) EXCEPT !.pc = "exec", !.attempt = a]]
        PROVE  RowsGood
    <3>1. DrainStarts(p, a) /\ a \in Attempt
      BY <1>5, <2>1 DEF DrainClaim, DrainStarts, Fresh
    <3> QED BY <1>4, <3>1
  <2> QED BY <1>1, <1>5, <2>1, SameRowsAreGood DEF DrainClaim
<1> QED BY <1>2, <1>3, <1>5 DEF Drain

LEMMA ExecuteRows ==
  ASSUME TypeInv, OwnershipInv, StateInv, NEW p \in Proc, Execute(p)
  PROVE  RowsGood
<1> DEFINE a == proc[p].attempt
           j == attempt[a].job
<1>1. Executing(p)
  BY DEF Execute, ExecBegin, Heartbeat, Deadline, ExecComplete, ExecFail, ExecBlock,
         ExecAborted, Settling
<1>2. a \in Attempt /\ j \in Job /\ job[j] \in JobRow
  BY <1>1 DEF TypeInv, TypeOK, Bound
<1>3. ASSUME NEW status, NEW action \in EndAction, NEW row \in JobRow,
             row.current_attempt = job[j].current_attempt, action = "complete" => Published(j),
             Finish(a, status, action, row)
      PROVE  RowsGood
  <2>1. GoodRow(j, Prepared(row, action))
    BY <1>2, <1>3, EndedRowIsGood
  <2> QED BY <1>2, <1>3, <2>1, OneRowIsGood, SameRowsAreGood DEF Finish
<1>4. {"interrupt", "fail", "block", "fit_complete", "complete"} \subseteq EndAction
  BY DEF EndAction
<1>5. CASE ExecBegin(p)
  BY <1>2, <1>3, <1>4, <1>5, SameRowsAreGood DEF ExecBegin
<1>6. CASE Heartbeat(p) \/ Deadline(p)
  BY <1>6, SameRowsAreGood DEF Heartbeat, Deadline, tables
<1>7. CASE ExecComplete(p)
  <2> DEFINE action == IF Kind(a) = "fit" THEN "fit_complete" ELSE "complete"
  <2>1. Finish(a, "completed", action, job[j])
    BY <1>7 DEF ExecComplete
  <2>2. action = "complete" => Published(j)
    BY <1>2, <1>7 DEF ExecComplete, Backed, Published
  <2>3. action \in EndAction
    BY <1>4
  <2> HIDE DEF action
  <2> QED BY <1>2, <1>3, <2>1, <2>2, <2>3
<1>8. CASE ExecFail(p)
  BY <1>2, <1>3, <1>4, <1>8 DEF ExecFail
<1>9. CASE ExecBlock(p)
  <2>1. PICK kind \in Recovery \ {"none"} :
          Finish(a, "failed", "block", [job[j] EXCEPT !.recovery = kind, !.missing_inputs = {"blocker"}])
    BY <1>9 DEF ExecBlock
  <2> DEFINE row == [job[j] EXCEPT !.recovery = kind, !.missing_inputs = {"blocker"}]
  <2>2. row \in JobRow /\ row.current_attempt = job[j].current_attempt
    BY <1>2 DEF JobRow
  <2> HIDE DEF row
  <2>3. Finish(a, "failed", "block", row)
    BY <2>1 DEF row
  <2> QED BY <1>3, <1>4, <2>2, <2>3
<1>10. CASE ExecAborted(p)
  BY <1>2, <1>3, <1>4, <1>10 DEF ExecAborted
<1> QED BY <1>5, <1>6, <1>7, <1>8, <1>9, <1>10 DEF Execute

LEMMA EveryStepWritesGoodRows ==
  ASSUME TypeInv, OwnershipInv, StateInv, [Next]_vars
  PROVE  RowsGood
<1>1. ASSUME NEW p \in Proc, Lifecycle(p) PROVE UNCHANGED job
  BY <1>1 DEF Lifecycle, Dispose, Exit, Restart, tables
<1>2. ASSUME NEW a \in Attempt, Pipeline(a) PROVE UNCHANGED job
  BY <1>2 DEF Pipeline, SaveCheckpoint, PublishArtifact, PipelineEnd, tables
<1>3. Tick \/ StartAutomatic \/ PauseAfterCurrent \/ UNCHANGED vars => UNCHANGED job
  BY DEF Tick, StartAutomatic, PauseAfterCurrent, vars
<1> QED BY <1>1, <1>2, <1>3, SameRowsAreGood, EditRows, UserRows, DrainRows, ExecuteRows DEF Next

-----------------------------------------------------------------------------
(* What a step leaves behind: attempts that began, and captured snapshots *)

LEMMA AttemptsStay ==
  ASSUME TypeInv, OwnershipInv, [Next]_vars
  PROVE  /\ \A a \in Attempt \ Fresh : /\ attempt'[a].job = attempt[a].job
                                       /\ attempt'[a].input = attempt[a].input
         /\ \A j \in Job : Published(j) => Published(j)'
<1>1. \A a \in Attempt \ Fresh : /\ attempt'[a].job = attempt[a].job
                                 /\ attempt'[a].input = attempt[a].input
                                 /\ attempt[a].artifact => attempt'[a].artifact
  BY EveryStepHasKind DEF StepKind, Ends, LinksKept, Produces, Starts, OutputKept
<1>2. \A a \in Fresh : ~attempt[a].artifact
  BY DEF OwnershipInv, FreshIsEmpty
<1> QED BY <1>1, <1>2 DEF Published

\* A captured snapshot is never written again, and a new one returns a ready
\* resume only of a job that has it.
NewInput(i) ==
  /\ input[i].job = NONE
  /\ input'[i].return_state = "resume_ready" =>
       /\ input'[i].job \in Job
       /\ job[input'[i].job].preparation_state = "resume_ready"
       /\ input'[i].return_recovery # "stale_inputs"

InputsStay == \A i \in Input : input'[i] = input[i] \/ NewInput(i)

LEMMA SnapshotInput ==
  ASSUME TypeInv, NEW j \in Job, NEW i \in Input, SnapshotPosting(j, i)
  PROVE  InputsStay /\ input'[i].job = j
<1>1. /\ input \in [Input -> InputRow] /\ input[i].job = NONE
      /\ input' = [input EXCEPT ![i] = [NoInput EXCEPT !.job = j, !.posting = job[j].posting]]
  BY DEF SnapshotPosting, FreshInput, TypeInv, TypeOK
<1>2. input'[i].job = j /\ input'[i].return_state = "saved"
  BY <1>1 DEF NoInput
<1> QED BY <1>1, <1>2 DEF InputsStay, NewInput

LEMMA FitInputIsNew ==
  ASSUME TypeInv, StateInv, NEW p \in Proc, NEW j \in Job, NEW i \in Input, AssessFit(p, j, i)
  PROVE  InputsStay
<1>1. /\ input \in [Input -> InputRow] /\ input[i].job = NONE
      /\ input' = [input EXCEPT ![i] = FitInput(j)]
  BY DEF AssessFit, FreshInput, TypeInv, TypeOK
<1>2. /\ FitInput(j).job = j
      /\ FitInput(j).return_state = "resume_ready" => job[j].preparation_state = "resume_ready"
      /\ FitInput(j).return_recovery \in {job[j].recovery, "none"}
  BY DEF FitInput, ReturnState
<1>3. job[j].preparation_state = "resume_ready" => job[j].recovery # "stale_inputs"
  BY DEF StateInv, GoodRow
<1>4. NewInput(i)
  BY <1>1, <1>2, <1>3 DEF NewInput
<1> QED BY <1>1, <1>4 DEF InputsStay

\* What a process picks is a snapshot of the job it picks.
PicksMatch ==
  \A p \in Proc : proc'[p].pc = "picked" =>
    \/ proc[p].pc = "picked" /\ proc'[p].job = proc[p].job /\ proc'[p].input = proc[p].input
    \/ proc'[p].input \in Input /\ input'[proc'[p].input].job = proc'[p].job

LEMMA SameInputs == UNCHANGED input => InputsStay
  BY DEF InputsStay

LEMMA NobodyPicks ==
  ASSUME TypeInv, NEW p \in Proc, NEW w, w.pc # "picked", proc' = [proc EXCEPT ![p] = w]
  PROVE  PicksMatch
  BY DEF PicksMatch, TypeInv, TypeOK

LEMMA SamePicks == UNCHANGED proc => PicksMatch
  BY DEF PicksMatch

LEMMA OtherPicks ==
  ASSUME TypeInv, NEW p \in Proc
  PROVE  /\ \A S : proc' = Aborting(p, S) => PicksMatch
         /\ proc' = [proc EXCEPT ![p].aborted = TRUE] => PicksMatch
         /\ proc' = [proc EXCEPT ![p] = Settled(p)] => PicksMatch
         /\ proc' = [proc EXCEPT ![p] = Idle(p)] => PicksMatch
<1>1. proc \in [Proc -> Worker] /\ proc[p] \in Worker
  BY DEF TypeInv, TypeOK
<1>2. Idle(p).pc = "idle" /\ Settled(p).pc \in {"idle", "loop"}
  BY IdleWorker DEF TypeInv
<1>3. proc' = [proc EXCEPT ![p].aborted = TRUE] => PicksMatch
  BY <1>1 DEF PicksMatch, Worker
<1> QED BY <1>1, <1>2, <1>3, NobodyPicks, SamePicks DEF Aborting

LEMMA UserInputs ==
  ASSUME TypeInv, StateInv, NEW p \in Proc, User(p)
  PROVE  InputsStay /\ PicksMatch
<1>0. proc \in [Proc -> Worker]
  BY DEF TypeInv, TypeOK
<1>1. ASSUME NEW j \in Job, NEW i \in Input, NEW a \in Attempt, ClaimAndLaunch(p, j, i, a)
      PROVE  PicksMatch
  BY <1>0, <1>1 DEF ClaimAndLaunch, PicksMatch, Worker
<1>2. StopProcessing(p) => UNCHANGED input /\ PicksMatch
  BY OtherPicks DEF StopProcessing
<1>3. ASSUME NEW j \in Job, CancelJob(p, j) PROVE UNCHANGED input /\ PicksMatch
  BY <1>3, OtherPicks DEF CancelJob
<1>4. ASSUME NEW j \in Job, NEW i \in Input, AssessFit(p, j, i) PROVE InputsStay /\ PicksMatch
  BY <1>1, <1>4, FitInputIsNew DEF AssessFit
<1>5. ASSUME NEW j \in Job, NEW i \in Input, NEW action, Request(p, j, i, action)
      PROVE  UNCHANGED input /\ PicksMatch
  BY <1>1, <1>5, SamePicks DEF Request, QueueOnly
<1> QED BY <1>2, <1>3, <1>4, <1>5, SameInputs DEF User

LEMMA DrainInputs ==
  ASSUME TypeInv, StateInv, NEW p \in Proc, Drain(p)
  PROVE  InputsStay /\ PicksMatch
<1>0. proc \in [Proc -> Worker]
  BY DEF TypeInv, TypeOK
<1>1. Wake(p) => UNCHANGED input /\ PicksMatch
  BY <1>0 DEF Wake, PicksMatch, Worker
<1>2. CASE DrainPick(p)
  <2>1. ASSUME NEW j \in Job, NEW i \in Input, PicksInput(j, i), Pick(p, j, i)
        PROVE  InputsStay /\ PicksMatch
    <3>1. InputsStay /\ input'[i].job = j
      <4>1. CASE job[j].current_attempt # NONE
        <5>1. UNCHANGED input /\ i = attempt[job[j].current_attempt].input
          BY <2>1, <4>1 DEF PicksInput
        <5>2. /\ job[j].current_attempt \in Attempt
              /\ attempt[job[j].current_attempt].status # "none"
              /\ attempt[job[j].current_attempt].job = j
          BY <4>1 DEF TypeInv, TypeOK, JobRow, Bound
        <5>3. input[i].job = j
          BY <5>1, <5>2 DEF StateInv, Matching
        <5> QED BY <5>1, <5>3, SameInputs
      <4>2. CASE job[j].current_attempt = NONE
        BY <2>1, <4>2, SnapshotInput DEF PicksInput
      <4> QED BY <4>1, <4>2
    <3>2. PicksMatch
      BY <1>0, <2>1, <3>1 DEF Pick, PicksMatch, Worker
    <3> QED BY <3>1, <3>2
  <2>2. ASSUME NEW j \in Job, BlockUnresolved(j) PROVE UNCHANGED input /\ PicksMatch
    BY <2>2, SamePicks DEF BlockUnresolved
  <2>3. proc' = [proc EXCEPT ![p] = Idle(p)] /\ UNCHANGED input => InputsStay /\ PicksMatch
    BY OtherPicks, SameInputs
  <2> QED BY <1>2, <2>1, <2>2, <2>3, SameInputs DEF DrainPick
<1>3. CASE DrainClaim(p)
  <2>1. Idle(p) \in Worker /\ Idle(p).pc = "idle"
    BY IdleWorker DEF TypeInv
  <2>2. ASSUME NEW a, proc' = [proc EXCEPT ![p] = [Idle(p) EXCEPT !.pc = "exec", !.attempt = a]]
        PROVE  PicksMatch
    <3>1. [Idle(p) EXCEPT !.pc = "exec", !.attempt = a].pc = "exec"
      BY <2>1 DEF Worker
    <3> QED BY <2>2, <3>1, NobodyPicks
  <2> QED BY <1>3, <2>2, OtherPicks, SameInputs DEF DrainClaim
<1> QED BY <1>1, <1>2, <1>3, SameInputs DEF Drain

LEMMA EveryStepsInputs ==
  ASSUME TypeInv, StateInv, [Next]_vars
  PROVE  InputsStay /\ PicksMatch
<1>0. proc \in [Proc -> Worker]
  BY DEF TypeInv, TypeOK
<1>1. ASSUME NEW p \in Proc, Execute(p) PROVE UNCHANGED input /\ PicksMatch
  <2>1. ExecBegin(p) => UNCHANGED input /\ PicksMatch
    BY OtherPicks, SamePicks DEF ExecBegin
  <2>2. Heartbeat(p) \/ Deadline(p) => UNCHANGED input /\ PicksMatch
    BY OtherPicks, SamePicks DEF Heartbeat, Deadline, tables
  <2>3. ExecComplete(p) \/ ExecFail(p) \/ ExecBlock(p) => UNCHANGED input /\ PicksMatch
    BY OtherPicks DEF ExecComplete, ExecFail, ExecBlock, Settling
  <2>4. ExecAborted(p) => UNCHANGED input /\ PicksMatch
    BY OtherPicks DEF ExecAborted
  <2> QED BY <1>1, <2>1, <2>2, <2>3, <2>4 DEF Execute
<1>2. ASSUME NEW p \in Proc, Lifecycle(p) PROVE UNCHANGED input /\ PicksMatch
  <2>1. Idle(p).pc = "idle" /\ Idle(p) \in Worker
    BY IdleWorker DEF TypeInv
  <2>2. Exit(p) => PicksMatch
    BY <1>0, <2>1 DEF Exit, PicksMatch, Worker
  <2>3. Dispose(p) \/ Restart(p) => PicksMatch
    BY <1>0 DEF Dispose, Restart, PicksMatch, Worker
  <2> QED BY <1>2, <2>2, <2>3 DEF Lifecycle, Dispose, Restart, Exit, tables
<1>3. ASSUME NEW j \in Job, Edit(j) PROVE InputsStay /\ PicksMatch
  <2>1. ASSUME NEW i \in Input, CaptureInputs(j, i) PROVE InputsStay /\ UNCHANGED proc
    BY <2>1, SnapshotInput DEF CaptureInputs
  <2> QED BY <1>3, <2>1, SameInputs, SamePicks DEF Edit, SavePosting, SaveContext, PasteFallback, TrackJob,
       Track, PublishManual
<1>4. ASSUME NEW a \in Attempt, Pipeline(a) PROVE UNCHANGED <<input, proc>>
  BY <1>4 DEF Pipeline, SaveCheckpoint, PublishArtifact, PipelineEnd, tables
<1>5. Tick \/ StartAutomatic \/ PauseAfterCurrent \/ UNCHANGED vars => UNCHANGED <<input, proc>>
  BY DEF Tick, StartAutomatic, PauseAfterCurrent, vars
<1> QED BY <1>1, <1>2, <1>3, <1>4, <1>5, UserInputs, DrainInputs, SameInputs, SamePicks DEF Next

\* An attempt that starts works from a snapshot of its job.
LEMMA StartsMatch ==
  ASSUME TypeInv, StateInv, [Next]_vars,
         NEW a \in Fresh, attempt'[a].status # "none"
  PROVE  attempt'[a].input \in Input /\ input'[attempt'[a].input].job = attempt'[a].job
<1>0. a \in Attempt /\ attempt[a].status = "none" /\ attempt \in [Attempt -> AttemptRow]
  BY DEF Fresh, TypeInv, TypeOK
<1>1. ASSUME NEW p \in Proc, NEW j \in Job, NEW i \in Input, NEW b \in Attempt, Launches(p, j, i, b)
      PROVE  attempt'[a].input \in Input /\ input'[attempt'[a].input].job = attempt'[a].job
  <2>1. attempt' = [attempt EXCEPT ![b] = NewAttempt(j, i)] /\ input'[i].job = j
    BY <1>1 DEF Launches, ClaimAndLaunch
  <2>2. a = b
    BY <1>0, <2>1
  <2> QED BY <1>0, <2>1, <2>2 DEF NewAttempt
<1>2. ASSUME NEW p \in Proc, NEW b \in Attempt, DrainStarts(p, b)
      PROVE  attempt'[a].input \in Input /\ input'[attempt'[a].input].job = attempt'[a].job
  <2> DEFINE attempts == Closed(Expired, "interrupted")
  <2>1. /\ attempt' = [attempts EXCEPT ![b] = NewAttempt(proc[p].job, proc[p].input)]
        /\ proc[p].pc = "picked" /\ UNCHANGED input
    BY <1>2 DEF DrainStarts
  <2>2. /\ attempts \in [Attempt -> AttemptRow]
        /\ attempts[a].status = "none"
    BY <1>0, ClosedRows DEF Expired, Active, TypeInv, AttemptStatus
  <2> HIDE DEF attempts
  <2>3. a = b
    BY <1>0, <2>1, <2>2
  <2>4. proc[p].input \in Input /\ input[proc[p].input].job = proc[p].job
    BY <2>1 DEF TypeInv, Bound, StateInv, Matching
  <2> QED BY <1>0, <2>1, <2>2, <2>3, <2>4 DEF NewAttempt
<1> QED BY <1>1, <1>2, EveryStart DEF Start, StartsNothing

-----------------------------------------------------------------------------
(* The invariant is inductive *)

LEMMA StateInit == Init => StateInv
<1> SUFFICES ASSUME Init PROVE StateInv
  OBVIOUS
<1>1. Matching
  BY DEF Init, Matching, NoJobAttempt
<1>2. \A i \in Input : GoodReturn(i)
  BY DEF Init, GoodReturn, NoInput
<1>3. \A j \in Job : GoodRow(j, job[j])
  <2>1. \A j \in Job : job[j].preparation_state \in {"saved", "needs_input"}
    BY DEF Init, Intake
  <2> QED BY <2>1 DEF GoodRow
<1> QED BY <1>1, <1>2, <1>3 DEF StateInv

LEMMA StateNext == TypeInv /\ TypeInv' /\ OwnershipInv /\ StateInv /\ [Next]_vars => StateInv'
<1> SUFFICES ASSUME TypeInv, TypeInv', OwnershipInv, StateInv, [Next]_vars PROVE StateInv'
  OBVIOUS
<1>1. InputsStay /\ PicksMatch /\ RowsGood
  BY EveryStepsInputs, EveryStepWritesGoodRows
<1>2. \A i \in Input : input[i].job # NONE => input'[i] = input[i]
  BY <1>1 DEF InputsStay, NewInput
<1>3. \A j \in Job : Published(j) => Published(j)'
  BY AttemptsStay
<1>4. ASSUME NEW a \in Attempt, attempt'[a].status # "none"
      PROVE  input'[attempt'[a].input].job = attempt'[a].job
  <2>1. CASE a \in Fresh
    BY <1>4, <2>1, StartsMatch
  <2>2. CASE a \notin Fresh
    <3>1. /\ attempt'[a].job = attempt[a].job /\ attempt'[a].input = attempt[a].input
          /\ attempt[a].status # "none"
      BY <2>2, AttemptsStay DEF Fresh
    <3>2. /\ attempt[a].job \in Job /\ attempt[a].input \in Input
          /\ input[attempt[a].input].job = attempt[a].job
      BY <3>1 DEF TypeInv, Bound, StateInv, Matching
    <3> QED BY <1>2, <3>1, <3>2, ConstantsAssumption
  <2> QED BY <2>1, <2>2
<1>5. ASSUME NEW p \in Proc, proc'[p].pc = "picked"
      PROVE  input'[proc'[p].input].job = proc'[p].job
  <2>1. CASE /\ proc[p].pc = "picked"
             /\ proc'[p].job = proc[p].job /\ proc'[p].input = proc[p].input
    <3>1. /\ proc[p].job \in Job /\ proc[p].input \in Input
          /\ input[proc[p].input].job = proc[p].job
      BY <2>1 DEF TypeInv, Bound, StateInv, Matching
    <3> QED BY <1>2, <2>1, <3>1, ConstantsAssumption
  <2> QED BY <1>1, <1>5, <2>1 DEF PicksMatch
<1>6. Matching'
  BY <1>4, <1>5 DEF Matching
<1>7. ASSUME NEW i \in Input, input'[i].return_state = "resume_ready"
      PROVE  /\ input'[i].return_recovery # "stale_inputs"
             /\ \E a \in Attempt : attempt'[a].job = input'[i].job /\ attempt'[a].artifact
  <2>0. \A j \in Job : Published(j) => \E a \in Attempt : attempt'[a].job = j /\ attempt'[a].artifact
    BY <1>3 DEF Published
  <2>1. CASE input'[i] = input[i]
    <3>1. GoodReturn(i)
      BY DEF StateInv
    <3>2. input[i].return_recovery # "stale_inputs" /\ Published(input[i].job)
      BY <1>7, <2>1, <3>1 DEF GoodReturn
    <3>3. PICK a \in Attempt : attempt[a].job = input[i].job /\ attempt[a].artifact
      BY <3>2 DEF Published
    <3>4. attempt[a].status # "none" /\ input[i].job \in Job
      BY <3>3 DEF OwnershipInv, FreshIsEmpty, Fresh, TypeInv, Bound
    <3> QED BY <2>0, <2>1, <3>2, <3>4
  <2>2. CASE NewInput(i)
    <3>1. /\ input'[i].job \in Job
          /\ input'[i].return_recovery # "stale_inputs"
          /\ Published(input'[i].job)
      BY <1>7, <2>2 DEF NewInput, StateInv, GoodRow
    <3> QED BY <2>0, <3>1
  <2> QED BY <1>1, <2>1, <2>2 DEF InputsStay
<1>8. \A i \in Input : GoodReturn(i)'
  BY <1>7 DEF GoodReturn, Published
<1>9. \A j \in Job : GoodRow(j, job[j])'
  BY <1>1, <1>3 DEF RowsGood, GoodRow
<1> QED BY <1>6, <1>8, <1>9 DEF StateInv

LEMMA StateInvariant == Spec => []StateInv
  BY TypeInvariant, OwnershipInvariant, StateInit, StateNext, PTL DEF Spec

-----------------------------------------------------------------------------
(* The theorems *)

\* A job that shows a ready resume has a published artifact, also when an
\* assessment, a cancellation or a finalized edit wrote the state.
THEOREM ReadyAlwaysPublished == Spec => []ReadyIsPublished
<1>1. StateInv => ReadyIsPublished
  BY DEF StateInv, GoodRow, Published, ReadyIsPublished
<1> QED BY <1>1, StateInvariant, PTL

\* A ready resume never carries the marker that its inputs went stale, although
\* a snapshot may hand back a recovery marker captured long ago.
THEOREM ReadyNeverMarkedStale == Spec => []ReadyIsNotMarkedStale
<1>1. StateInv => ReadyIsNotMarkedStale
  BY DEF StateInv, GoodRow, ReadyIsNotMarkedStale
<1> QED BY <1>1, StateInvariant, PTL

\* An archived job is neither queued nor in preparation: admission and claim
\* both recheck it.
THEOREM ArchivedStaysInert == Spec => []ArchivedIsInert
<1>1. StateInv => ArchivedIsInert
  BY DEF StateInv, GoodRow, ArchivedIsInert
<1> QED BY <1>1, StateInvariant, PTL

-----------------------------------------------------------------------------
(* An assessment returns what it borrowed *)

Borrows(a) ==
  a \in Active /\ Kind(a) = "fit" /\ input[attempt[a].input].return_state = "resume_ready"

Returns ==
  \A a \in Attempt : Borrows(a) /\ attempt'[a].status # "active" =>
    job'[attempt[a].job].preparation_state = "resume_ready"

\* Every way to end the attempt, except completing a preparation, restores.
LEMMA RestoredRow ==
  ASSUME TypeInv, NEW a \in Attempt, Borrows(a), NEW action \in EndAction \ {"complete"},
         NEW row \in JobRow, row.current_attempt = a
  PROVE  Prepared(row, action).preparation_state = "resume_ready"
<1> DEFINE captured == input[attempt[row.current_attempt].input]
<1>1. /\ action \in {"fit_complete", "fail", "block", "interrupt", "cancel"}
      /\ row.current_attempt # NONE
      /\ captured.kind = "fit" /\ captured.return_state = "resume_ready"
  BY ConstantsAssumption DEF EndAction, Borrows, Kind
<1>2. RestoresFitState(row, action)
  BY <1>1 DEF RestoresFitState
<1> HIDE DEF captured
<1>3. Prepared(row, action) =
        [row EXCEPT !.preparation_state = captured.return_state,
                    !.missing_inputs = captured.return_missing,
                    !.recovery = captured.return_recovery]
  BY <1>2 DEF Prepared, captured
<1> QED BY <1>1, <1>3 DEF JobRow

\* The job of an active attempt, as ownership has it.
LEMMA OwnedRow ==
  ASSUME TypeInv, OwnershipInv, NEW a \in Active
  PROVE  /\ a \in Attempt /\ attempt[a].job \in Job
         /\ job[attempt[a].job] \in JobRow
         /\ job[attempt[a].job].current_attempt = a
  BY DEF Active, OwnershipInv, OwnershipAgrees, TypeInv, TypeOK

LEMMA ReleasedReturns ==
  ASSUME TypeInv, OwnershipInv, NEW S \in SUBSET Active, NEW action \in EndAction \ {"complete"},
         NEW a \in S, Borrows(a)
  PROVE  Released(S, action)[attempt[a].job].preparation_state = "resume_ready"
<1>1. /\ attempt[a].job \in Job
      /\ Prepared(job[attempt[a].job], action).preparation_state = "resume_ready"
  BY OwnedRow, RestoredRow
<1> QED BY <1>1 DEF Released

LEMMA StatusKeptReturns ==
  ASSUME \A a \in Active : attempt'[a].status = attempt[a].status
  PROVE  Returns
  BY DEF Returns, Borrows, Active

LEMMA CloseAndReleaseReturns ==
  ASSUME TypeInv, OwnershipInv, NEW S \in SUBSET Active, NEW status,
         NEW action \in EndAction \ {"complete"},
         attempt' = Closed(S, status), job' = Released(S, action)
  PROVE  Returns
<1> SUFFICES ASSUME NEW a \in Attempt, Borrows(a), attempt'[a].status # "active"
             PROVE  job'[attempt[a].job].preparation_state = "resume_ready"
  BY DEF Returns
<1>1. a \in S
  BY DEF Borrows, Active, Closed
<1> QED BY <1>1, ReleasedReturns

LEMMA FinishReturns ==
  ASSUME TypeInv, OwnershipInv, NEW b \in Attempt, attempt[b].status # "none", NEW status,
         NEW action \in EndAction, action = "complete" => Kind(b) # "fit",
         NEW row \in JobRow, row.current_attempt = job[attempt[b].job].current_attempt,
         Finish(b, status, action, row)
  PROVE  Returns
<1>1. CASE Fenced(b)
  <2> SUFFICES ASSUME NEW a \in Attempt, Borrows(a), attempt'[a].status # "active"
               PROVE  job'[attempt[a].job].preparation_state = "resume_ready"
    BY DEF Returns
  <2>1. /\ attempt' = Closed({b}, status)
        /\ job' = [job EXCEPT ![attempt[b].job] = Prepared(row, action)]
        /\ b \in Active
    BY <1>1 DEF Finish, Fenced, Active
  <2>2. a = b
    BY <2>1 DEF Borrows, Active, Closed
  <2>3. action # "complete"
    BY <2>2 DEF Borrows
  <2>4. attempt[b].job \in Job /\ row.current_attempt = b
    BY <2>1, OwnedRow
  <2>5. Prepared(row, action).preparation_state = "resume_ready"
    BY <2>2, <2>3, <2>4, RestoredRow
  <2> QED BY <2>1, <2>2, <2>4, <2>5 DEF TypeInv, TypeOK
<1>2. CASE ~Fenced(b)
  BY <1>2, StatusKeptReturns DEF Finish
<1> QED BY <1>1, <1>2

LEMMA UserReturns == ASSUME TypeInv, OwnershipInv, NEW p \in Proc, User(p) PROVE Returns
<1>0. "cancel" \in EndAction \ {"complete"}
  BY DEF EndAction
<1>1. CASE StopProcessing(p)
  BY <1>0, <1>1, CloseAndReleaseReturns DEF StopProcessing
<1>2. ASSUME NEW j \in Job, CancelJob(p, j) PROVE Returns
  <2> SUFFICES ASSUME NEW a \in Attempt, Borrows(a), attempt'[a].status # "active"
               PROVE  job'[attempt[a].job].preparation_state = "resume_ready"
    BY DEF Returns
  <2>1. a \in Active /\ attempt[a].job = j
    BY <1>2 DEF Borrows, Active, CancelJob, Closed
  <2>2. job' = [job EXCEPT ![j] = Prepared(job[j], "cancel")] /\ job \in [Job -> JobRow]
    BY <1>2 DEF CancelJob, TypeInv, TypeOK
  <2>3. Prepared(job[j], "cancel").preparation_state = "resume_ready"
    BY <1>0, <2>1, OwnedRow, RestoredRow
  <2> QED BY <2>1, <2>2, <2>3
<1>3. ASSUME Active = {} PROVE Returns
  BY <1>3 DEF Returns, Borrows
<1>4. ASSUME NEW j \in Job, NEW i \in Input, AssessFit(p, j, i) PROVE Returns
  BY <1>3, <1>4 DEF AssessFit, SlotFree
<1>5. ASSUME NEW j \in Job, NEW i \in Input, NEW action, Request(p, j, i, action) PROVE Returns
  BY <1>3, <1>5 DEF Request, SlotFree
<1> QED BY <1>1, <1>2, <1>4, <1>5 DEF User

LEMMA DrainReturns == ASSUME TypeInv, OwnershipInv, NEW p \in Proc, Drain(p) PROVE Returns
<1>0. "interrupt" \in EndAction \ {"complete"} /\ Expired \in SUBSET Active
  BY DEF EndAction, Expired
<1>1. CASE job' = Released(Expired, "interrupt") /\ attempt' = Closed(Expired, "interrupted")
  BY <1>0, <1>1, CloseAndReleaseReturns
<1>2. CASE UNCHANGED attempt
  BY <1>2, StatusKeptReturns
<1>3. ASSUME NEW b \in Attempt, DrainStarts(p, b) PROVE Returns
  <2> DEFINE jobs == Released(Expired, "interrupt")
             j == proc[p].job
  <2> SUFFICES ASSUME NEW a \in Attempt, Borrows(a)
               PROVE  job'[attempt[a].job].preparation_state = "resume_ready"
    BY DEF Returns
  <2>1. a \in Active /\ Expired = Active /\ attempt[a].job \in Job
    BY <1>0, <1>3, OwnedRow DEF DrainStarts, MayClaim, Borrows
  <2>2. jobs[attempt[a].job].preparation_state = "resume_ready"
    BY <1>0, <2>1, ReleasedReturns
  <2>3. jobs[j].preparation_state = "queued" /\ job' = [jobs EXCEPT ![j] = Claimed(@, b)]
    BY <1>3 DEF DrainStarts, MayClaim, Eligible
  <2>4. j # attempt[a].job /\ DOMAIN jobs = Job
    BY <2>2, <2>3 DEF Released
  <2> HIDE DEF jobs, j
  <2> QED BY <2>1, <2>2, <2>3, <2>4
<1>4. CASE Wake(p)
  BY <1>1, <1>4 DEF Wake
<1>5. CASE DrainPick(p)
  BY <1>2, <1>5 DEF DrainPick
<1>6. CASE DrainClaim(p)
  <2>1. ASSUME NEW a \in Fresh,
               MayClaim(Released(Expired, "interrupt")[proc[p].job]),
               attempt' = [Closed(Expired, "interrupted") EXCEPT ![a] =
                             NewAttempt(proc[p].job, proc[p].input)],
               job' = [Released(Expired, "interrupt") EXCEPT ![proc[p].job] = Claimed(@, a)],
               proc' = [proc EXCEPT ![p] = [Idle(p) EXCEPT !.pc = "exec", !.attempt = a]]
        PROVE  Returns
    <3>1. DrainStarts(p, a) /\ a \in Attempt
      BY <1>6, <2>1 DEF DrainClaim, DrainStarts, Fresh
    <3> QED BY <1>3, <3>1
  <2> QED BY <1>1, <1>2, <1>6, <2>1 DEF DrainClaim
<1> QED BY <1>4, <1>5, <1>6 DEF Drain

LEMMA ExecuteReturns == ASSUME TypeInv, OwnershipInv, NEW p \in Proc, Execute(p) PROVE Returns
<1> DEFINE a == proc[p].attempt
           row == job[attempt[a].job]
<1>1. Executing(p)
  BY DEF Execute, ExecBegin, Heartbeat, Deadline, ExecComplete, ExecFail, ExecBlock,
         ExecAborted, Settling
<1>2. a \in Attempt /\ attempt[a].status # "none" /\ row \in JobRow
  BY <1>1 DEF TypeInv, TypeOK, Bound
<1>3. {"interrupt", "fail", "block", "fit_complete"} \subseteq EndAction \ {"complete"}
      /\ "complete" \in EndAction
  BY DEF EndAction
<1>4. ASSUME NEW status, NEW action \in EndAction \ {"complete"}, Finish(a, status, action, row)
      PROVE  Returns
  BY <1>2, <1>4, FinishReturns
<1>5. CASE UNCHANGED attempt
  BY <1>5, StatusKeptReturns
<1>6. CASE ExecBegin(p)
  BY <1>3, <1>4, <1>5, <1>6 DEF ExecBegin
<1>7. CASE Heartbeat(p)
  <2>1. \A b \in Active : attempt'[b].status = attempt[b].status
    BY <1>7 DEF Heartbeat, TypeInv, TypeOK, AttemptRow, Active
  <2> QED BY <2>1, StatusKeptReturns
<1>8. CASE ExecComplete(p)
  <2> DEFINE action == IF Kind(a) = "fit" THEN "fit_complete" ELSE "complete"
  <2>1. Finish(a, "completed", action, row)
    BY <1>8 DEF ExecComplete
  <2>2. action \in EndAction /\ (action = "complete" => Kind(a) # "fit")
    BY <1>3
  <2> HIDE DEF action
  <2> QED BY <1>2, <2>1, <2>2, FinishReturns
<1>9. CASE ExecFail(p)
  BY <1>3, <1>4, <1>9 DEF ExecFail
<1>10. CASE ExecBlock(p)
  <2>1. PICK kind \in Recovery \ {"none"} :
          Finish(a, "failed", "block", [row EXCEPT !.recovery = kind, !.missing_inputs = {"blocker"}])
    BY <1>10 DEF ExecBlock
  <2> DEFINE blocked == [row EXCEPT !.recovery = kind, !.missing_inputs = {"blocker"}]
  <2>2. blocked \in JobRow /\ blocked.current_attempt = row.current_attempt
    BY <1>2 DEF JobRow
  <2> HIDE DEF blocked
  <2>3. Finish(a, "failed", "block", blocked)
    BY <2>1 DEF blocked
  <2> QED BY <1>2, <1>3, <2>2, <2>3, FinishReturns
<1>11. CASE ExecAborted(p)
  BY <1>3, <1>4, <1>11 DEF ExecAborted
<1> QED BY <1>5, <1>6, <1>7, <1>8, <1>9, <1>10, <1>11 DEF Execute, Deadline, tables

LEMMA EveryStepReturns == ASSUME TypeInv, OwnershipInv, [Next]_vars PROVE Returns
<1>1. CASE UNCHANGED attempt
  BY <1>1, StatusKeptReturns
<1>2. ASSUME NEW j \in Job, Edit(j) PROVE UNCHANGED attempt
  BY <1>2 DEF Edit, SavePosting, SaveContext, PasteFallback, TrackJob, Track, PublishManual, CaptureInputs
<1>3. ASSUME NEW p \in Proc, Lifecycle(p) PROVE UNCHANGED attempt
  BY <1>3 DEF Lifecycle, Dispose, Exit, Restart, tables
<1>4. ASSUME NEW a \in Attempt, Pipeline(a) PROVE \A b \in Active : attempt'[b].status = attempt[b].status
  BY <1>4 DEF Pipeline, SaveCheckpoint, PublishArtifact, PipelineEnd, tables, TypeInv, TypeOK,
     AttemptRow, Active
<1>5. Tick => \A b \in Active : attempt'[b].status = attempt[b].status
  BY DEF Tick, TypeInv, TypeOK, AttemptRow, Active
<1>6. StartAutomatic \/ PauseAfterCurrent => UNCHANGED attempt
  BY DEF StartAutomatic, PauseAfterCurrent
<1> QED BY <1>1, <1>2, <1>3, <1>4, <1>5, <1>6, UserReturns, DrainReturns, ExecuteReturns,
           StatusKeptReturns DEF Next, vars

\* However an assessment of a ready resume ends - completed, failed, blocked,
\* stopped, cancelled or expired - its job shows the resume as ready again.
THEOREM FitAlwaysReturnsReady == Spec => FitReturnsReady
<1>1. TypeInv /\ OwnershipInv /\ [Next]_vars =>
        [\A a \in Active :
           (/\ Kind(a) = "fit"
            /\ input[attempt[a].input].return_state = "resume_ready"
            /\ attempt'[a].status # "active")
           => job'[attempt[a].job].preparation_state = "resume_ready"]_vars
  BY EveryStepReturns DEF Returns, Borrows, Active
<1> QED BY <1>1, TypeInvariant, OwnershipInvariant, PTL DEF Spec, FitReturnsReady

=============================================================================
