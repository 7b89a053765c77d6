------------------------------ MODULE JobQueue ------------------------------
(***************************************************************************)
(* The durable preparation queue of packages/cli/src/jobs: the SQLite      *)
(* repository (repository.ts), the worker that drains it (worker.ts) and    *)
(* the service that admits requests (service.ts).                           *)
(*                                                                         *)
(* Every repository method is one IMMEDIATE transaction, so it is one       *)
(* action here.  Several processes (the UI server, the headless command)    *)
(* share the database; between two transactions of one process any other   *)
(* process may act.  A process may crash, be restarted, or be suspended     *)
(* past its lease.                                                          *)
(***************************************************************************)
EXTENDS Naturals, FiniteSets

CONSTANTS
  Job,          \* job rows
  Attempt,      \* identifiers an attempt row can be given
  Input,        \* identifiers an input snapshot can be given
  Proc,         \* operating-system processes that open the database
  Draining,     \* those whose worker drains the queue (automaticDrain)
  MaxLease,     \* length of a lease, in ticks of the clock
  MaxPosting,   \* bound: posting snapshots captured per job
  MaxGen,       \* bound: how often processing is stopped
  Tracking,     \* bound: the tracking actions users take
  NONE          \* the null reference

ASSUME ConstantsAssumption ==
  /\ NONE \notin Job \cup Attempt \cup Input \cup Proc
  /\ Draining \subseteq Proc
  /\ MaxLease \in Nat \ {0}
  /\ MaxPosting \in Nat \ {0}
  /\ MaxGen \in Nat
  /\ Tracking \subseteq {"archive", "restore", "applied", "unapply"}

VARIABLES
  job,          \* the jobs table
  attempt,      \* the attempts table, with its checkpoint and artifact rows
  input,        \* the input_snapshots table
  control,      \* the worker_control row
  proc,         \* in-memory state of each process's JobWorker
  run           \* the process in which an attempt's pipeline promise is alive

vars == <<job, attempt, input, control, proc, run>>
tables == <<job, attempt, input, control>>

-----------------------------------------------------------------------------
(* Records *)

PreparationState == {"saved", "queued", "preparing", "needs_input",
                     "resume_ready", "failed", "interrupted", "cancelled"}
Recovery == {"none", "setup", "review", "stale_inputs"}
AttemptStatus == {"none", "active", "completed", "failed", "interrupted", "cancelled"}

JobRow == [preparation_state : PreparationState,
           posting : 0..MaxPosting,          \* newest posting snapshot, 0 = none
           current_attempt : Attempt \cup {NONE},
           recovery : Recovery,
           missing_inputs : SUBSET {"posting_text", "blocker"},
           archived : BOOLEAN,
           applied : BOOLEAN]

AttemptRow == [status : AttemptStatus,
               job : Job \cup {NONE},
               input : Input \cup {NONE},
               stop_generation : 0..MaxGen,
               lease : 0..MaxLease,          \* ticks left before it expires
               checkpoint : BOOLEAN,         \* its stage output is saved
               artifact : BOOLEAN]           \* a passed artifact is published

\* A fit assessment (and a material draft) also records where to return to.
InputRow == [job : Job \cup {NONE},
             kind : {"resume", "fit"},
             posting : 0..MaxPosting,
             return_state : {"saved", "resume_ready", "needs_input"},
             return_missing : SUBSET {"posting_text", "blocker"},
             return_recovery : Recovery \ {"setup"}]

Control == [enabled : BOOLEAN, pause : BOOLEAN, stopped : BOOLEAN,
            stop_generation : 0..MaxGen]

WorkerPc == {"idle", "loop", "picked", "exec", "launched"}
Worker == [up : {"down", "up", "closing"},
           pc : WorkerPc,
           job : Job \cup {NONE},            \* drain's choice and what it read
           input : Input \cup {NONE},
           stop_generation : 0..MaxGen,
           attempt : Attempt \cup {NONE},    \* the attempt execute supervises
           aborted : BOOLEAN]                \* its AbortController fired

TypeOK ==
  /\ job \in [Job -> JobRow]
  /\ attempt \in [Attempt -> AttemptRow]
  /\ input \in [Input -> InputRow]
  /\ control \in Control
  /\ proc \in [Proc -> Worker]
  /\ run \in [Attempt -> Proc \cup {NONE}]

-----------------------------------------------------------------------------
(* preparationEdges of core/src/jobs/transitions.ts, without the skip and   *)
(* override edges, which no caller in the program takes                     *)

EdgeFrom(action) ==
  CASE action = "prepare" -> {"saved"}
    [] action = "claim" -> {"queued"}
    [] action = "block" -> {"queued", "preparing"}
    [] action \in {"fit_complete", "complete", "fail", "interrupt"} -> {"preparing"}
    [] action = "cancel" -> {"queued", "preparing", "needs_input"}
    [] action = "resume" -> {"needs_input"}
    [] action = "retry" -> {"failed", "interrupted", "cancelled"}
    [] action = "reprepare" -> {"resume_ready"}

EdgeTo(action) ==
  CASE action \in {"prepare", "resume", "retry", "reprepare"} -> "queued"
    [] action = "claim" -> "preparing"
    [] action = "block" -> "needs_input"
    [] action = "fit_complete" -> "saved"
    [] action = "complete" -> "resume_ready"
    [] action = "fail" -> "failed"
    [] action = "interrupt" -> "interrupted"
    [] action = "cancel" -> "cancelled"

CanMove(row, action) == row.preparation_state \in EdgeFrom(action)

\* Fault: an assessment that is interrupted, blocked or cancelled returns nothing.
RestoresWhenComplete(row, action) ==
  /\ action = "fit_complete"
  /\ row.current_attempt # NONE
  /\ input[attempt[row.current_attempt].input].kind = "fit"

\* A fit assessment gives the job back the state it was captured in: always
\* when it completes, and otherwise when it had borrowed a ready resume.
RestoresFitState(row, action) ==
  /\ action \in {"fit_complete", "fail", "block", "interrupt", "cancel"}
  /\ row.current_attempt # NONE
  /\ LET captured == input[attempt[row.current_attempt].input]
     IN  /\ captured.kind = "fit"
         /\ action = "fit_complete" \/ captured.return_state = "resume_ready"

\* Fault: the hint survives a completed preparation.
RecoveryKept(row, action) == row.recovery
\* Only completing a preparation clears the recovery hint.
RecoveryAfter(row, action) == IF action = "complete" THEN "none" ELSE row.recovery

\* The row JobsRepository.preparation writes for an action.
Prepared(row, action) ==
  IF RestoresFitState(row, action)
  THEN LET captured == input[attempt[row.current_attempt].input]
       IN [row EXCEPT !.preparation_state = captured.return_state,
                      !.missing_inputs = captured.return_missing,
                      !.recovery = captured.return_recovery]
  ELSE [row EXCEPT !.preparation_state = EdgeTo(action),
                   !.recovery = RecoveryAfter(row, action)]

-----------------------------------------------------------------------------
(* Attempts, leases and the ownership fence *)

Active == {a \in Attempt : attempt[a].status = "active"}
Expired == {a \in Active : attempt[a].lease = 0}
Fresh == {a \in Attempt : attempt[a].status = "none"}
FreshInput == {i \in Input : input[i].job = NONE}

\* The check every admission makes of active().
SlotFree == Active = {}

Halted == control.stopped \/ control.pause
Automatic == control.enabled /\ ~Halted

\* Fault: the fence trusts the lease and forgets the status.
FencedByLease(a) ==
  /\ job[attempt[a].job].current_attempt = a
  /\ attempt[a].stop_generation = control.stop_generation
  /\ attempt[a].lease > 0
\* JobsRepository.fenced: the attempt may still write.
Fenced(a) ==
  /\ attempt[a].status = "active"
  /\ job[attempt[a].job].current_attempt = a
  /\ attempt[a].stop_generation = control.stop_generation
  /\ attempt[a].lease > 0

\* Both tables after every attempt in S is closed with this status.
Closed(S, status) ==
  [a \in Attempt |-> IF a \in S THEN [attempt[a] EXCEPT !.status = status] ELSE attempt[a]]
\* The jobs those attempts were preparing, after the action.
Released(S, action) ==
  [j \in Job |-> IF \E a \in S : attempt[a].job = j THEN Prepared(job[j], action)
                                                    ELSE job[j]]

\* The row inserted by claimJob.
NewAttempt(j, i) ==
  [status |-> "active", job |-> j, input |-> i,
   stop_generation |-> control.stop_generation, lease |-> MaxLease,
   checkpoint |-> FALSE, artifact |-> FALSE]
Claimed(row, a) == [row EXCEPT !.current_attempt = a, !.preparation_state = EdgeTo("claim")]

-----------------------------------------------------------------------------
(* Processes.  A handler of a process runs only when its JavaScript is not  *)
(* inside the synchronous part of drain or of the head of execute.          *)

Idle(p) == [proc[p] EXCEPT !.pc = "idle", !.job = NONE, !.input = NONE,
                           !.stop_generation = 0, !.attempt = NONE, !.aborted = FALSE]
Executing(p) == proc[p].pc \in {"exec", "launched"}
Responsive(p) ==
  /\ proc[p].up = "up"
  /\ proc[p].pc = "idle" \/ (Executing(p) /\ run[proc[p].attempt] = p)

\* Fault: the worker forgets to clear its draining promise.
SettledStillBusy(p) == [proc[p] EXCEPT !.up = IF @ = "closing" THEN "down" ELSE @]
\* What a worker does after execute returns: a drained attempt continues the
\* loop, a launched one leaves the worker idle (to be woken), and a disposed
\* worker ends with its process.
Settled(p) ==
  [Idle(p) EXCEPT !.pc = IF proc[p].up = "up" /\ proc[p].pc = "exec" THEN "loop" ELSE "idle",
                  !.up = IF @ = "closing" THEN "down" ELSE @]
\* No pipeline outlives its process.
Ended(p) == [a \in Attempt |-> IF run[a] = p THEN NONE ELSE run[a]]
Aborting(p, S) ==
  IF Executing(p) /\ S # {} THEN [proc EXCEPT ![p].aborted = TRUE] ELSE proc

-----------------------------------------------------------------------------
(* Initial state: jobs taken in with or without posting text *)

NoJobAttempt ==
  [status |-> "none", job |-> NONE, input |-> NONE, stop_generation |-> 0,
   lease |-> 0, checkpoint |-> FALSE, artifact |-> FALSE]
NoInput ==
  [job |-> NONE, kind |-> "resume", posting |-> 0, return_state |-> "saved",
   return_missing |-> {}, return_recovery |-> "none"]
Intake(posted) ==
  [preparation_state |-> IF posted THEN "saved" ELSE "needs_input",
   posting |-> IF posted THEN 1 ELSE 0, current_attempt |-> NONE,
   recovery |-> "none", missing_inputs |-> IF posted THEN {} ELSE {"posting_text"},
   archived |-> FALSE, applied |-> FALSE]

Init ==
  /\ \E posted \in [Job -> BOOLEAN] : job = [j \in Job |-> Intake(posted[j])]
  /\ attempt = [a \in Attempt |-> NoJobAttempt]
  /\ input = [i \in Input |-> NoInput]
  /\ control = [enabled |-> FALSE, pause |-> FALSE, stopped |-> FALSE, stop_generation |-> 0]
  /\ proc = [p \in Proc |-> [up |-> "up", pc |-> "idle", job |-> NONE, input |-> NONE,
                             stop_generation |-> 0, attempt |-> NONE, aborted |-> FALSE]]
  /\ run = [a \in Attempt |-> NONE]

-----------------------------------------------------------------------------
(* Editing a job (no process state involved) *)

\* saveDetails with another posting text.
SavePosting(j) ==
  LET row == job[j]
      left == row.missing_inputs \ {"posting_text"}
      posted == [row EXCEPT !.posting = @ + 1, !.missing_inputs = left]
  IN /\ row.preparation_state \notin {"queued", "preparing"}
     /\ row.posting < MaxPosting
     /\ job' = [job EXCEPT ![j] =
          IF row.current_attempt # NONE
          THEN [posted EXCEPT !.recovery = "stale_inputs", !.preparation_state = "needs_input"]
          ELSE IF row.preparation_state = "needs_input" /\ left = {}
          THEN [posted EXCEPT !.preparation_state = "saved"]
          ELSE posted]
     /\ UNCHANGED <<attempt, input, control, proc, run>>

\* saveDetails with another company or role only.
SaveContext(j) ==
  /\ job[j].preparation_state \notin {"queued", "preparing"}
  /\ job[j].current_attempt # NONE
  /\ job' = [job EXCEPT ![j].recovery = "stale_inputs", ![j].preparation_state = "needs_input"]
  /\ UNCHANGED <<attempt, input, control, proc, run>>

\* commitIntakeCapture with a fallback: pasted text for a job saved without any.
PasteFallback(j) ==
  /\ job[j].preparation_state = "needs_input"
  /\ "posting_text" \in job[j].missing_inputs
  /\ job[j].posting < MaxPosting
  /\ job' = [job EXCEPT ![j].posting = @ + 1, ![j].missing_inputs = @ \ {"posting_text"}]
  /\ UNCHANGED <<attempt, input, control, proc, run>>

\* trackJob: archive, restore, mark applied or not applied.
Track(j) ==
  /\ \/ \E t \in Tracking \cap {"archive", "restore"} :
          job' = [job EXCEPT ![j].archived = (t = "archive")]
     \/ /\ "applied" \in Tracking
        /\ job' = [job EXCEPT ![j].applied = TRUE]
     \/ /\ "unapply" \in Tracking
        /\ job[j].applied
        /\ job' = [job EXCEPT ![j].applied = FALSE]
  /\ UNCHANGED <<attempt, input, control, proc, run>>

\* Fault: a queued job may be tracked.
TrackJobUnlessPreparing(j) == job[j].preparation_state # "preparing" /\ Track(j)
TrackJob(j) == job[j].preparation_state \notin {"queued", "preparing"} /\ Track(j)

\* JobArtifactsService.captureInputs: an immutable snapshot of the current posting.
SnapshotPosting(j, i) ==
  /\ job[j].posting > 0
  /\ i \in FreshInput
  /\ input' = [input EXCEPT ![i] = [NoInput EXCEPT !.job = j, !.posting = job[j].posting]]

CaptureInputs(j, i) == SnapshotPosting(j, i) /\ UNCHANGED <<job, attempt, control, proc, run>>

\* publishManualArtifact: a finalized edit of the newest passed artifact.
PublishManual(j) ==
  /\ \E a \in Attempt : attempt[a].job = j /\ attempt[a].artifact
  /\ ~ \E a \in Active : attempt[a].job = j
  /\ job[j].recovery # "stale_inputs"
  /\ job' = [job EXCEPT ![j].preparation_state = "resume_ready", ![j].recovery = "none"]
  /\ UNCHANGED <<attempt, input, control, proc, run>>

-----------------------------------------------------------------------------
(* Worker control *)

\* startAutomaticPreparation; the wake that follows it is the action Wake.
StartAutomatic ==
  /\ control' = [control EXCEPT !.enabled = TRUE, !.pause = FALSE, !.stopped = FALSE]
  /\ UNCHANGED <<job, attempt, input, proc, run>>

PauseAfterCurrent ==
  /\ control' = [control EXCEPT !.pause = TRUE]
  /\ UNCHANGED <<job, attempt, input, proc, run>>

\* JobsService.stopProcessing: cancel everything active, then abort this
\* process's own execution.  Other processes find out at their next fence.
StopProcessing(p) ==
  /\ Responsive(p)
  /\ control.stop_generation < MaxGen
  /\ control' = [enabled |-> FALSE, pause |-> FALSE, stopped |-> TRUE,
                 stop_generation |-> control.stop_generation + 1]
  /\ attempt' = Closed(Active, "cancelled")
  /\ job' = Released(Active, "cancel")
  /\ proc' = Aborting(p, {p})
  /\ UNCHANGED <<input, run>>

\* JobsService.cancelJob.
CancelJob(p, j) ==
  LET mine == {a \in Active : attempt[a].job = j}
  IN /\ Responsive(p)
     /\ CanMove(job[j], "cancel")
     /\ attempt' = Closed(mine, "cancelled")
     /\ job' = [job EXCEPT ![j] = Prepared(@, "cancel")]
     /\ proc' = Aborting(p, mine)
     /\ UNCHANGED <<input, control, run>>

-----------------------------------------------------------------------------
(* Admission: requestPreparation, which claims at once unless halted *)

\* The explicit action a request names; "none" prepares a saved job or
\* takes over one that is already queued.
Queueable(row, action) ==
  \/ action = "none" /\ row.preparation_state = "queued"
  \/ action = "none" /\ row.preparation_state = "saved" /\ ~Halted
  \/ action \in {"resume", "retry", "reprepare"} /\ CanMove(row, action)

\* Fault: the request claims although the worker is busy, and its launch throws.
ClaimWhileBusy(p, j, i, a) ==
  /\ a \in Fresh
  /\ attempt' = [attempt EXCEPT ![a] = NewAttempt(j, i)]
  /\ job' = [job EXCEPT ![j] = Claimed([@ EXCEPT !.missing_inputs = {}], a)]
  /\ proc' = IF proc[p].pc = "idle"
             THEN [proc EXCEPT ![p].pc = "launched", ![p].attempt = a]
             ELSE proc
\* Claim for a request in process p and launch its execution there.
ClaimAndLaunch(p, j, i, a) ==
  /\ proc[p].pc = "idle"
  /\ a \in Fresh
  /\ attempt' = [attempt EXCEPT ![a] = NewAttempt(j, i)]
  /\ job' = [job EXCEPT ![j] = Claimed([@ EXCEPT !.missing_inputs = {}], a)]
  /\ proc' = [proc EXCEPT ![p].pc = "launched", ![p].attempt = a]

\* Halted: the job is queued but the requested input is recorded nowhere.
QueueOnly(j) ==
  /\ job' = [job EXCEPT ![j].missing_inputs = {}, ![j].preparation_state = "queued"]
  /\ UNCHANGED <<attempt, proc>>

Request(p, j, i, action) ==
  /\ Responsive(p)
  /\ ~job[j].archived
  /\ input[i].job = j /\ input[i].kind = "resume"
  /\ job[j].posting > 0 => input[i].posting = job[j].posting
  /\ ~ /\ job[j].recovery = "stale_inputs"
       /\ job[j].current_attempt # NONE
       /\ attempt[job[j].current_attempt].input = i
  /\ SlotFree
  /\ Queueable(job[j], action)
  /\ \/ Halted /\ QueueOnly(j)
     \/ ~Halted /\ \E a \in Attempt : ClaimAndLaunch(p, j, i, a)
  /\ UNCHANGED <<input, control, run>>

\* What JobFit.capture and JobMaterials.capture record of the job.
ReturnState(row) ==
  IF row.preparation_state = "resume_ready" THEN "resume_ready"
  ELSE IF row.preparation_state = "needs_input" /\ row.recovery # "setup"
  THEN "needs_input" ELSE "saved"

FitInput(j) ==
  LET row == job[j]
  IN [job |-> j, kind |-> "fit", posting |-> row.posting,
      return_state |-> ReturnState(row),
      return_missing |-> IF row.recovery = "setup" THEN {} ELSE row.missing_inputs,
      return_recovery |-> IF row.recovery = "setup" THEN "none" ELSE row.recovery]

\* assessFit: capture and admission in one transaction, then launch.
AssessFit(p, j, i) ==
  /\ Responsive(p)
  /\ ~Halted
  /\ SlotFree
  /\ ~job[j].archived
  /\ job[j].posting > 0
  /\ i \in FreshInput
  /\ input' = [input EXCEPT ![i] = FitInput(j)]
  /\ \E a \in Attempt : ClaimAndLaunch(p, j, i, a)
  /\ UNCHANGED <<control, run>>

-----------------------------------------------------------------------------
(* The worker: drain *)

\* Fault: a drain that does not recover.
WakeWithoutRecovery(p) ==
  /\ proc[p].up = "up" /\ proc[p].pc = "idle"
  /\ proc' = [proc EXCEPT ![p].pc = IF p \in Draining THEN "loop" ELSE "idle"]
  /\ UNCHANGED <<tables, run>>

\* A drain begins, on the reconcile timer or on an explicit wake, by
\* interrupting the attempts whose lease ran out: recoverExpiredAttempts.
Wake(p) ==
  /\ proc[p].up = "up" /\ proc[p].pc = "idle"
  /\ attempt' = Closed(Expired, "interrupted")
  /\ job' = Released(Expired, "interrupt")
  /\ proc' = [proc EXCEPT ![p].pc = IF p \in Draining THEN "loop" ELSE "idle"]
  /\ UNCHANGED <<input, control, run>>

\* Jobs an automatic drain may take.
Eligible(row) ==
  /\ ~row.archived
  /\ row.preparation_state = "queued"
  /\ row.missing_inputs = {}
  /\ ~row.applied

\* The input drain claims a job with.
PicksInput(j, i) ==
  IF job[j].current_attempt # NONE
  THEN i = attempt[job[j].current_attempt].input /\ UNCHANGED input
  ELSE SnapshotPosting(j, i)

Pick(p, j, i) ==
  proc' = [proc EXCEPT ![p].pc = "picked", ![p].job = j, ![p].input = i,
                       ![p].stop_generation = control.stop_generation]

BlockUnresolved(j) ==
  /\ job' = [job EXCEPT ![j] = [Prepared(@, "block") EXCEPT !.missing_inputs = {"blocker"}]]
  /\ UNCHANGED <<input, proc>>

\* The reads of one iteration: control, active attempts, the first eligible
\* job and the input of its prior attempt.  Without a prior attempt
\* resolveInput captures the current posting, or the job is blocked when that
\* fails (no posting, resume, template or runner).
DrainPick(p) ==
  /\ proc[p].pc = "loop"
  /\ IF Automatic /\ SlotFree /\ \E j \in Job : Eligible(job[j])
     THEN \E j \in Job :
            /\ Eligible(job[j])
            /\ \/ \E i \in Input : PicksInput(j, i) /\ Pick(p, j, i) /\ UNCHANGED job
               \/ job[j].current_attempt = NONE /\ BlockUnresolved(j)
     ELSE proc' = [proc EXCEPT ![p] = Idle(p)] /\ UNCHANGED <<job, input>>
  /\ UNCHANGED <<attempt, control, run>>

\* Fault: claimJob trusts what drain read of the control row.
MayClaimEnabled(row) == Active \ Expired = {} /\ Eligible(row)
\* What claimJob requires of the control row, the slot and the job, once
\* expired attempts are recovered.
MayClaim(row) == Automatic /\ Active \ Expired = {} /\ Eligible(row)

\* claimJob in automatic mode.  It recovers expired attempts first, and a
\* refusal still commits that recovery; a changed stop generation throws.
DrainClaim(p) ==
  LET j == proc[p].job
      jobs == Released(Expired, "interrupt")
      attempts == Closed(Expired, "interrupted")
      may == MayClaim(jobs[j])
  IN /\ proc[p].pc = "picked"
     /\ \/ /\ proc[p].stop_generation # control.stop_generation
           /\ proc' = [proc EXCEPT ![p] = Idle(p)]
           /\ UNCHANGED <<job, attempt>>
        \/ /\ proc[p].stop_generation = control.stop_generation
           /\ ~may
           /\ job' = jobs /\ attempt' = attempts
           /\ proc' = [proc EXCEPT ![p] = Idle(p)]
        \/ /\ proc[p].stop_generation = control.stop_generation
           /\ may
           /\ \E a \in Fresh :
                /\ attempt' = [attempts EXCEPT ![a] = NewAttempt(j, proc[p].input)]
                /\ job' = [jobs EXCEPT ![j] = Claimed(@, a)]
                /\ proc' = [proc EXCEPT ![p] = [Idle(p) EXCEPT !.pc = "exec", !.attempt = a]]
     /\ UNCHANGED <<input, control, run>>

-----------------------------------------------------------------------------
(* The worker: execute, and the pipeline it supervises *)

Supervises(p, a) == Executing(p) /\ proc[p].attempt = a
Kind(a) == input[attempt[a].input].kind

\* transitionPreparation under the fence; a lost fence writes nothing.
Finish(a, status, action, row) ==
  IF Fenced(a)
  THEN /\ attempt' = Closed({a}, status)
       /\ job' = [job EXCEPT ![attempt[a].job] = Prepared(row, action)]
  ELSE UNCHANGED <<job, attempt>>

\* The head of execute: leave at once when not current, else start the pipeline.
ExecBegin(p) ==
  LET a == proc[p].attempt
  IN /\ Executing(p) /\ run[a] = NONE
     /\ IF Fenced(a) /\ proc[p].up = "up"
        THEN run' = [run EXCEPT ![a] = p] /\ UNCHANGED <<job, attempt, proc>>
        ELSE /\ Finish(a, "interrupted", "interrupt", job[attempt[a].job])
             /\ proc' = [proc EXCEPT ![p] = Settled(p)]
             /\ run' = IF proc[p].up = "closing" THEN Ended(p) ELSE run
     /\ UNCHANGED <<input, control>>

Heartbeat(p) ==
  LET a == proc[p].attempt
  IN /\ Executing(p) /\ run[a] = p
     /\ IF Fenced(a)
        THEN attempt' = [attempt EXCEPT ![a].lease = MaxLease] /\ UNCHANGED proc
        ELSE proc' = [proc EXCEPT ![p].aborted = TRUE] /\ UNCHANGED attempt
     /\ UNCHANGED <<job, input, control, run>>

\* The deadline timer of the attempt's policy.
Deadline(p) ==
  /\ Executing(p) /\ run[proc[p].attempt] = p
  /\ ~proc[p].aborted
  /\ proc' = [proc EXCEPT ![p].aborted = TRUE]
  /\ UNCHANGED <<tables, run>>

\* The pipeline saves a stage, under the fence.  It may belong to an attempt
\* whose supervisor has already given it up.
SaveCheckpoint(a) ==
  /\ run[a] # NONE
  /\ ~attempt[a].checkpoint
  /\ Fenced(a)
  /\ attempt' = [attempt EXCEPT ![a].checkpoint = TRUE]
  /\ UNCHANGED <<job, input, control, proc, run>>

\* publishArtifact, under the fence.
PublishArtifact(a) ==
  /\ run[a] # NONE
  /\ Kind(a) = "resume"
  /\ attempt[a].checkpoint /\ ~attempt[a].artifact
  /\ Fenced(a)
  /\ attempt' = [attempt EXCEPT ![a].artifact = TRUE]
  /\ UNCHANGED <<job, input, control, proc, run>>

\* A pipeline nobody supervises any more ends.
PipelineEnd(a) ==
  /\ run[a] # NONE
  /\ ~Supervises(run[a], a)
  /\ run' = [run EXCEPT ![a] = NONE]
  /\ UNCHANGED <<tables, proc>>

\* The supervised pipeline's promise settles; the signal has not fired.
Settling(p) ==
  LET a == proc[p].attempt
  IN /\ Executing(p) /\ run[a] = p /\ ~proc[p].aborted
     /\ run' = [run EXCEPT ![a] = NONE]
     /\ proc' = [proc EXCEPT ![p] = Settled(p)]
     /\ UNCHANGED <<input, control>>

\* Fault: any saved stage will do.
BackedByStage(a) == attempt[a].checkpoint
\* What transitionPreparation demands before it completes an attempt; without
\* it the completion throws and the attempt fails.
Backed(a) == IF Kind(a) = "fit" THEN attempt[a].checkpoint ELSE attempt[a].artifact

ExecComplete(p) ==
  LET a == proc[p].attempt
  IN /\ Settling(p)
     /\ Backed(a)
     /\ Finish(a, "completed", IF Kind(a) = "fit" THEN "fit_complete" ELSE "complete",
               job[attempt[a].job])

ExecFail(p) ==
  LET a == proc[p].attempt
  IN Settling(p) /\ Finish(a, "failed", "fail", job[attempt[a].job])

\* The pipeline threw PreparationBlocked with a recovery kind.
ExecBlock(p) ==
  LET a == proc[p].attempt
      row == job[attempt[a].job]
  IN /\ Settling(p)
     /\ \E kind \in Recovery \ {"none"} :
          Finish(a, "failed", "block",
                 [row EXCEPT !.recovery = kind, !.missing_inputs = {"blocker"}])

\* The signal fired: abortable rejects while the pipeline may still be alive.
ExecAborted(p) ==
  LET a == proc[p].attempt
      row == job[attempt[a].job]
  IN /\ Executing(p) /\ run[a] = p /\ proc[p].aborted
     /\ IF proc[p].up = "closing" THEN Finish(a, "interrupted", "interrupt", row)
                                  ELSE Finish(a, "failed", "fail", row)
     /\ proc' = [proc EXCEPT ![p] = Settled(p)]
     /\ run' = IF proc[p].up = "closing" THEN Ended(p) ELSE run
     /\ UNCHANGED <<input, control>>

-----------------------------------------------------------------------------
(* Time, shutdown and crashes *)

\* A tick of the clock; a suspended process misses its heartbeats.
Tick ==
  /\ \E a \in Active : attempt[a].lease > 0
  /\ attempt' = [a \in Attempt |->
       IF a \in Active /\ attempt[a].lease > 0
       THEN [attempt[a] EXCEPT !.lease = @ - 1] ELSE attempt[a]]
  /\ UNCHANGED <<job, input, control, proc, run>>

\* JobWorker.dispose while an attempt executes: abort it and wait for it.
Dispose(p) ==
  /\ proc[p].up = "up" /\ Executing(p)
  /\ proc' = [proc EXCEPT ![p].up = "closing", ![p].aborted = TRUE]
  /\ UNCHANGED <<tables, run>>

\* The process ends, by crashing or by dispose with an idle worker.
Exit(p) ==
  /\ proc[p].up # "down"
  /\ proc' = [proc EXCEPT ![p] = [Idle(p) EXCEPT !.up = "down"]]
  /\ run' = Ended(p)
  /\ UNCHANGED tables

\* A new process on the same database: initialize wakes a drain.
Restart(p) ==
  /\ proc[p].up = "down"
  /\ proc' = [proc EXCEPT ![p].up = "up"]
  /\ UNCHANGED <<tables, run>>

-----------------------------------------------------------------------------
Edit(j) ==
  \/ SavePosting(j) \/ SaveContext(j) \/ PasteFallback(j) \/ TrackJob(j)
  \/ PublishManual(j)
  \/ \E i \in Input : CaptureInputs(j, i)

User(p) ==
  \/ StopProcessing(p)
  \/ \E j \in Job : CancelJob(p, j)
  \/ \E j \in Job, i \in Input :
       \/ AssessFit(p, j, i)
       \/ \E action \in {"none", "resume", "retry", "reprepare"} : Request(p, j, i, action)

Drain(p) == Wake(p) \/ DrainPick(p) \/ DrainClaim(p)

Execute(p) ==
  \/ ExecBegin(p) \/ Heartbeat(p) \/ Deadline(p)
  \/ ExecComplete(p) \/ ExecFail(p) \/ ExecBlock(p) \/ ExecAborted(p)

Pipeline(a) == SaveCheckpoint(a) \/ PublishArtifact(a) \/ PipelineEnd(a)

Lifecycle(p) == Dispose(p) \/ Exit(p) \/ Restart(p)

Next ==
  \/ \E j \in Job : Edit(j)
  \/ StartAutomatic \/ PauseAfterCurrent
  \/ \E p \in Proc : User(p) \/ Drain(p) \/ Execute(p) \/ Lifecycle(p)
  \/ \E a \in Attempt : Pipeline(a)
  \/ Tick

Spec == Init /\ [][Next]_vars

-----------------------------------------------------------------------------
(* Safety *)

\* The attempts table and the jobs table agree on who is working: an active
\* attempt is the current attempt of a preparing job, and a preparing job has
\* one.  Every close, recovery, cancel and stop has to write both rows.
OwnershipAgrees ==
  /\ \A a \in Active : /\ attempt[a].job \in Job
                         /\ job[attempt[a].job].preparation_state = "preparing"
                         /\ job[attempt[a].job].current_attempt = a
  /\ \A j \in Job : job[j].preparation_state = "preparing" => job[j].current_attempt \in Active

\* One workspace, one worker: whatever the processes interleave, at most one
\* attempt is active (the claim gate alone, without the unique index).
SingleActive == \A a, b \in Active : a = b

\* A job shows a ready resume only when a passed artifact of it is published,
\* also when a fit assessment handed the state back or an edit was finalized.
ReadyIsPublished ==
  \A j \in Job : job[j].preparation_state = "resume_ready" =>
    \E a \in Attempt : attempt[a].job = j /\ attempt[a].artifact

\* A ready resume never carries the marker that its inputs went stale.
ReadyIsNotMarkedStale ==
  \A j \in Job : job[j].preparation_state = "resume_ready" => job[j].recovery # "stale_inputs"

\* An archived job is neither queued nor in preparation, although archiving and
\* admission check each other in separate transactions.
ArchivedIsInert ==
  \A j \in Job : job[j].archived => job[j].preparation_state \notin {"queued", "preparing"}

\* The refinement mapping: the active attempt owns the slot.
slotOwner == IF Active = {} THEN NONE ELSE CHOOSE a \in Attempt : a \in Active
slotOutcome ==
  [a \in Attempt |-> IF attempt[a].status \in {"none", "active"} THEN NONE ELSE attempt[a].status]
slotOutput ==
  [a \in Attempt |-> (IF attempt[a].checkpoint THEN {"checkpoint"} ELSE {})
                       \cup (IF attempt[a].artifact THEN {"artifact"} ELSE {})]

Slot == INSTANCE PreparationSlot WITH
  Outcome <- AttemptStatus \ {"none", "active"},
  Output <- {"checkpoint", "artifact"},
  owner <- slotOwner, outcome <- slotOutcome, output <- slotOutput

\* The queue implements the single slot: attempts take it one at a time,
\* leave checkpoints and artifacts only while they hold it, and keep their
\* first outcome, whatever zombie pipelines, recoveries and stops do later.
ImplementsSlot == Slot!Spec

\* A fit assessment borrows a ready resume and gives it back however it ends:
\* completed, failed, blocked, cancelled, stopped or expired.
FitReturnsReady ==
  [][\A a \in Active :
       (/\ Kind(a) = "fit"
        /\ input[attempt[a].input].return_state = "resume_ready"
        /\ attempt'[a].status # "active")
       => job'[attempt[a].job].preparation_state = "resume_ready"]_vars

\* Nothing starts while processing is stopped or paused, although drain read
\* the control row before it claims and every request is a separate write.
NothingStartsWhileHalted ==
  [][\A a \in Attempt :
       attempt[a].status = "none" /\ attempt'[a].status = "active" => ~Halted]_vars

\* No attempt is orphaned while its process lives: one that is claimed has a worker that
\* executes it, and the worker leaves it only when it may not write any more, although
\* a request claims in the database and launches in memory, drain claims what it picked
\* before, and stops, expiries and shutdowns come in between.
ClaimsAreRun ==
  [][\A a \in Attempt :
       Fenced(a)' /\ (a \in Fresh \/ \E p \in Proc : Supervises(p, a)) =>
         \E p \in Proc : Supervises(p, a)' \/ (Supervises(p, a) /\ proc'[p].up = "down")]_vars

\* A job that was archived, applied to, cancelled or edited between drain's
\* reads and its claim is not prepared.
DrainClaimsEligible ==
  [][\A p \in Proc : proc[p].pc = "picked" /\ proc'[p].pc = "exec" =>
       /\ job[proc[p].job].preparation_state = "queued"
       /\ ~job[proc[p].job].archived /\ ~job[proc[p].job].applied]_vars

-----------------------------------------------------------------------------
(* Liveness.  The worker's timers fire and its promises settle; users,      *)
(* pipelines and crashes owe nothing, and a pipeline need not ever answer.   *)

Fairness ==
  /\ WF_vars(Tick)
  /\ \A p \in Proc :
       /\ WF_vars(Wake(p) \/ DrainPick(p) \/ DrainClaim(p))
       /\ WF_vars(ExecBegin(p) \/ ExecAborted(p))
       /\ WF_vars(Deadline(p))

FairSpec == Spec /\ Fairness

\* Some server ends up staying alive; everything else may crash for ever.
ServerStays == \E p \in Draining : <>[](proc[p].up = "up")

\* No attempt stays active for ever, whatever becomes of its owner: it ends by
\* itself, by its deadline, or by the expiry of a lease nobody renews.
AttemptsEnd == ServerStays => \A a \in Attempt : a \in Active ~> a \notin Active

\* While automatic preparation stays on and the slot is free, no eligible job
\* is left waiting: every wait of the drain loop is followed by another wake.
QueueDrains ==
  ServerStays =>
    ~ <>[](/\ Automatic /\ Fresh # {} /\ Active = {}
           /\ \E j \in Job : Eligible(job[j]))
=============================================================================
