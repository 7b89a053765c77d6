---------------------------- MODULE TailoringRun ----------------------------
(***************************************************************************)
(* The tailoring runs of packages/cli/src/tailoring/orchestrator.ts: four  *)
(* steps, each made by a model from the steps before it, then edited,      *)
(* applied and approved by a person, and completed as a resume.  One       *)
(* server; its handlers are synchronous but for two awaits: startStep      *)
(* waits for the runner's detection, and execute for its answer.           *)
(*                                                                         *)
(* What is published goes through the journal, which DraftJournal models:  *)
(* here it happens at once, or an interruption leaves it planned, and then *)
(* nothing else touches the run until it is recovered.                     *)
(***************************************************************************)
EXTENDS Naturals, Sequences, FiniteSets

CONSTANTS
  Run,          \* runs of the workspace
  Call,         \* bound: startStep requests that are open at once
  MaxEdits,     \* bound: edits of drafts, discards, changes of files and of the base resume
  MaxFaults,    \* bound: interrupted publications and crashes
  NONE

ASSUME RunAssumption ==
  /\ NONE \notin Run \cup Call
  /\ MaxEdits \in Nat /\ MaxFaults \in Nat

VARIABLES
  run,      \* the files of each run and its draft
  plan,     \* what an interrupted publication will make of a run, NONE without one
  call,     \* the startStep requests and the executions they launched
  inFlight, \* the execution that holds the flight
  edits, faults

vars == <<run, plan, call, inFlight, edits, faults>>

-----------------------------------------------------------------------------
(* Steps *)

Step == {"analysis", "alignment", "proposals", "brief"}
Editable == Step \ {"brief"}
Index == [analysis |-> 1, alignment |-> 2, proposals |-> 3, brief |-> 4]
Before(step) == {s \in Step : Index[s] < Index[step]}
Later(step) == {s \in Step : Index[s] > Index[step]}
PREVIOUS_STEP(step) == {s \in Step : Index[s] + 1 = Index[step]}

Status == {"pending", "running", "done", "approved", "stale", "error"}
HAS_OUTPUT == {"done", "approved", "stale"}

\* What is on disk for a run: status of its steps in the manifest, which step files
\* are there, which steps the draft has changed without applying them, what the
\* last change of the base left to review, whether it was completed, and whether
\* somebody changed a step file without the program.  The other two compare
\* contents, which the program does not: current, the steps whose content was made
\* from, or checked by a person against, what the steps before it and the base
\* contain now; and resume, whether resume.yaml is the present proposals applied to
\* the present base.
Files == [status : [Step -> Status], has : SUBSET Step, unapplied : SUBSET Editable,
          staleSteps : SUBSET Step, review : BOOLEAN, completed : BOOLEAN, outside : BOOLEAN,
          current : SUBSET Step, resume : {"none", "current", "old"}]

Created == [status |-> [s \in Step |-> "pending"], has |-> {}, unapplied |-> {},
            staleSteps |-> {}, review |-> FALSE, completed |-> FALSE, outside |-> FALSE,
            current |-> {}, resume |-> "none"]

Idle == [at |-> "idle", run |-> NONE, step |-> NONE, current |-> FALSE, cancelled |-> FALSE]
Calls == [at : {"idle", "detect", "execute"}, run : Run \cup {NONE}, step : Step \cup {NONE},
          current : BOOLEAN, cancelled : BOOLEAN]

Init ==
  /\ run = [r \in Run |-> Created]
  /\ plan = [r \in Run |-> NONE]
  /\ call = [c \in Call |-> Idle]
  /\ inFlight = NONE
  /\ edits = 0 /\ faults = 0

-----------------------------------------------------------------------------
(* What the handlers look at *)

Running(r) == \E s \in Step : run[r].status[s] = "running"
Flying(r) == inFlight # NONE /\ call[inFlight].run = r
NotRunning(r) == ~Flying(r) /\ ~Running(r)

\* assertSettled: no unresolved operation, no unapplied edit, no foreign change.
Settled(r) == plan[r] = NONE /\ run[r].unapplied = {} /\ ~run[r].outside

UpstreamReviewed(r, step) ==
  /\ run[r].staleSteps \cap (Before(step) \cup {step}) = {}
  /\ step \in {"proposals", "brief"} => ~run[r].review

PreviousApproved(r, step) == \A p \in PREVIOUS_STEP(step) : run[r].status[p] = "approved"

\* Contents a step is validated against, or a prompt is built from.
Needs(step) == IF step = "brief" THEN {"analysis", "alignment"} ELSE Before(step)
Available(r, step) == Needs(step) \subseteq run[r].has

-----------------------------------------------------------------------------
(* Changing the files of a run *)

markDownstreamStale(status, step) ==
  [s \in Step |-> IF s \in Later(step) /\ status[s] \in HAS_OUTPUT \cup {"error"}
                    THEN "stale" ELSE status[s]]

\* publishStep: new content of a step, with the manifest that says it is done.
Published(rec, step, status, current) ==
  [rec EXCEPT !.status = [status EXCEPT ![step] = "done"],
              !.has = @ \cup {step},
              !.staleSteps = @ \ {step},
              !.current = (@ \ (Later(step) \cup {step})) \cup {s \in {step} : current},
              !.resume = IF step = "proposals" /\ @ # "none" THEN "old" ELSE @]

\* A request that waits for its runner is refused when the draft moved meanwhile: it
\* is over as soon as that is certain.
Moved(r) ==
  [c \in Call |-> IF call[c].run = r /\ call[c].at = "detect" THEN Idle ELSE call[c]]

\* What an execution was given is no longer what those steps contain.
Overtaken(r, steps) ==
  [c \in Call |-> IF call[c].run = r /\ call[c].step \in steps
                    THEN [Moved(r)[c] EXCEPT !.current = FALSE] ELSE Moved(r)[c]]

\* The journal publishes a record at once, or is interrupted and keeps it planned.
Journalled(r, rec, client) ==
  \/ /\ run' = [run EXCEPT ![r] = rec]
     /\ UNCHANGED <<plan, faults>>
  \/ /\ faults < MaxFaults
     /\ faults' = faults + 1
     /\ plan' = [plan EXCEPT ![r] = [files |-> rec, client |-> client]]
     /\ UNCHANGED run

-----------------------------------------------------------------------------
(* startStep *)

\* A request takes any free place: which one makes no difference.
FreeCall == CHOOSE c \in Call : call[c].at = "idle"

\* Up to the detection of the runner.
StartStep(r, step) ==
  /\ \E c \in Call : call[c].at = "idle"
  /\ Settled(r)
  /\ inFlight = NONE
  /\ PreviousApproved(r, step)
  /\ call' = [call EXCEPT ![FreeCall] = [Idle EXCEPT !.at = "detect", !.run = r, !.step = step]]
  /\ UNCHANGED <<run, plan, inFlight, edits, faults>>

\* Fault: the flight is not looked at again.
MayClaimInFlight(c) ==
  LET r == call[c].run
  IN  /\ Settled(r) /\ ~run[r].completed
      /\ PreviousApproved(r, call[c].step) /\ Available(r, call[c].step)
\* The checks after the detection: the run is settled and its draft did not move,
\* the step before is still approved, the prompt can be built, no flight was
\* claimed, and the draft is open when the manifest is saved.
MayClaim(c) ==
  LET r == call[c].run
  IN  /\ Settled(r) /\ ~run[r].completed
      /\ PreviousApproved(r, call[c].step) /\ Available(r, call[c].step)
      /\ inFlight = NONE
Claim(c) ==
  /\ call[c].at = "detect"
  /\ MayClaim(c)
  /\ inFlight' = c
  /\ run' = [run EXCEPT ![call[c].run].status[call[c].step] = "running"]
  /\ call' = [call EXCEPT ![c].at = "execute", ![c].current = TRUE]
  /\ UNCHANGED <<plan, edits, faults>>

\* No runner, no consent, or one of the checks fails.
Refused(c) ==
  /\ call[c].at = "detect"
  /\ call' = [call EXCEPT ![c] = Idle]
  /\ UNCHANGED <<run, plan, inFlight, edits, faults>>

cancel(r) ==
  /\ Flying(r)
  /\ call' = [call EXCEPT ![inFlight].cancelled = TRUE]
  /\ UNCHANGED <<run, plan, inFlight, edits, faults>>

-----------------------------------------------------------------------------
(* execute: the model is asked, once more if its answer does not match the schema *)

\* The finally clause releases the flight if it is still this execution's.
Landed(c) == IF inFlight = c THEN NONE ELSE inFlight

\* The draft follows what was generated where the person changed nothing.
Merged(unapplied, step) ==
  IF step \in unapplied THEN {unapplied, unapplied \ {step}} ELSE {unapplied}

\* What a valid answer makes of the run.
Output(c, unapplied) ==
  LET rec == run[call[c].run]
      step == call[c].step
  IN  [Published(rec, step, markDownstreamStale(rec.status, step), call[c].current)
         EXCEPT !.unapplied = unapplied, !.review = @ /\ step # "proposals"]

MayPublish(c) ==
  LET r == call[c].run
  IN  /\ call[c].at = "execute"
      /\ plan[r] = NONE /\ ~run[r].outside /\ ~run[r].completed
      /\ Available(r, call[c].step)

\* A valid answer is published, if no artifact was changed meanwhile, cancelled or not.
Generated(c) ==
  /\ MayPublish(c)
  /\ \E unapplied \in Merged(run[call[c].run].unapplied, call[c].step) :
       run' = [run EXCEPT ![call[c].run] = Output(c, unapplied)]
  /\ inFlight' = Landed(c)
  /\ call' = [Moved(call[c].run) EXCEPT ![c] = Idle]
  /\ UNCHANGED <<plan, edits, faults>>

\* The publication is interrupted: the error cannot be saved over the plan, and the
\* step is left running until the plan is recovered.
GeneratedHalfway(c) ==
  /\ MayPublish(c)
  /\ faults < MaxFaults
  /\ \E unapplied \in Merged(run[call[c].run].unapplied, call[c].step) :
       plan' = [plan EXCEPT ![call[c].run] = [files |-> Output(c, unapplied), client |-> FALSE]]
  /\ faults' = faults + 1
  /\ inFlight' = Landed(c)
  /\ call' = [call EXCEPT ![c] = Idle]
  /\ UNCHANGED <<run, edits>>

\* What the catch clause makes of the step.
Ended(c) ==
  LET r == call[c].run
  IN  IF ~call[c].cancelled THEN "error"
      ELSE IF call[c].step \in run[r].has THEN "stale" ELSE "pending"
\* The runner fails, times out or was aborted, or its answer is not valid.
Failed(c) ==
  LET r == call[c].run
  IN  /\ call[c].at = "execute"
      /\ run' = IF plan[r] = NONE /\ ~run[r].completed
                  THEN [run EXCEPT ![r].status[call[c].step] = Ended(c)]
                  ELSE run
      /\ inFlight' = Landed(c)
      /\ call' = [call EXCEPT ![c] = Idle]
      /\ UNCHANGED <<plan, edits, faults>>

-----------------------------------------------------------------------------
(* What a person does to a run *)

\* The draft in the browser differs from what was applied, or no longer does.
SaveDraft(r, unapplied) ==
  /\ edits < MaxEdits
  /\ plan[r] = NONE /\ ~run[r].completed
  /\ run' = [run EXCEPT ![r].unapplied = unapplied]
  /\ call' = Moved(r)
  /\ edits' = edits + 1
  /\ UNCHANGED <<plan, inFlight, faults>>

\* The proposals that a change of the base left to review, after the person decided.
Decided(rec, step) == IF step = "proposals" /\ rec.review THEN BOOLEAN ELSE {rec.review}

\* Whether a change of step stales what follows.
Restales(status, step) == status[step] = "approved" \/ step # "proposals"
Edited(rec, step) ==
  Published(rec, step,
    IF Restales(rec.status, step) THEN markDownstreamStale(rec.status, step) ELSE rec.status, TRUE)

saveStep(r, step) ==
  /\ edits < MaxEdits
  /\ NotRunning(r) /\ Settled(r) /\ ~run[r].completed
  /\ step # "brief" /\ run[r].status[step] \in HAS_OUTPUT
  /\ Available(r, step)
  /\ \E review \in Decided(run[r], step) :
       Journalled(r, [Edited(run[r], step) EXCEPT !.review = review], FALSE)
  /\ call' = Overtaken(r, Later(step))
  /\ edits' = edits + 1
  /\ UNCHANGED inFlight

applyDraft(r, step) ==
  /\ edits < MaxEdits
  /\ NotRunning(r) /\ plan[r] = NONE /\ ~run[r].outside /\ ~run[r].completed
  /\ step # "brief"
  /\ step \in run[r].has \cup run[r].unapplied
  /\ run[r].unapplied \cap Before(step) = {}
  /\ Available(r, step)
  /\ \E review \in Decided(run[r], step) :
       Journalled(r, [Edited(run[r], step) EXCEPT !.review = review, !.unapplied = @ \ {step}], TRUE)
  /\ call' = Overtaken(r, Later(step))
  /\ edits' = edits + 1
  /\ UNCHANGED inFlight

\* DraftService.discard: back to what was applied.
discard(r) ==
  /\ edits < MaxEdits
  /\ plan[r] = NONE /\ ~run[r].outside /\ ~run[r].completed
  /\ Journalled(r, [run[r] EXCEPT !.unapplied = {}], TRUE)
  /\ call' = Moved(r)
  /\ edits' = edits + 1
  /\ UNCHANGED inFlight

-----------------------------------------------------------------------------
(* Approval, completion and a changed base *)

MayApprove(r, step) ==
  /\ Settled(r) /\ ~run[r].completed /\ NotRunning(r)
  /\ UpstreamReviewed(r, step)
  /\ run[r].status[step] = "done"

\* Fault: an existing resume.yaml is kept.
WrittenOnce(rec, step) ==
  IF step = "proposals" /\ rec.resume = "none" THEN [rec EXCEPT !.resume = "current"] ELSE rec
\* Approved proposals are applied to the base before the manifest says so.
Written(rec, step) == IF step = "proposals" THEN [rec EXCEPT !.resume = "current"] ELSE rec

approveStep(r, step) ==
  /\ MayApprove(r, step)
  /\ run' = [run EXCEPT ![r] = [Written(@, step) EXCEPT !.status[step] = "approved"]]
  /\ UNCHANGED <<plan, call, inFlight, edits, faults>>

\* prepareCompletion, and the publication of the completed record.
MayComplete(r) ==
  /\ Settled(r) /\ ~run[r].completed /\ NotRunning(r)
  /\ UpstreamReviewed(r, "brief")
  /\ run[r].status["proposals"] = "approved"
  /\ run[r].resume # "none"
finalize(r) ==
  /\ MayComplete(r)
  /\ \E client \in BOOLEAN : Journalled(r, [run[r] EXCEPT !.completed = TRUE], client)
  /\ call' = Moved(r)
  /\ UNCHANGED <<inFlight, edits>>

\* Fault: a step that is running is not in the way of a new base.
MaySyncAnyTime(r) == plan[r] = NONE /\ ~run[r].outside /\ ~run[r].completed
MaySync(r) == plan[r] = NONE /\ ~run[r].outside /\ ~run[r].completed /\ ~Running(r)

Rebased == {"alignment", "proposals", "brief"}
\* DraftService.sync: the base resume is replaced by its present version, the
\* proposals are moved to it, and everything made from the base is to be reviewed.
sync(r) ==
  /\ edits < MaxEdits
  /\ MaySync(r)
  /\ \E review \in {FALSE, run[r].has \cap {"proposals"} # {}},
        unapplied \in {run[r].unapplied, run[r].unapplied \ {"proposals"}} :
       Journalled(r,
         [run[r] EXCEPT
            !.status = [s \in Step |-> IF s \in Rebased THEN "stale" ELSE @[s]],
            !.has = @ \cup (run[r].unapplied \cap {"proposals"}),
            !.unapplied = unapplied,
            !.staleSteps = Rebased,
            !.review = review,
            !.current = @ \ Rebased,
            !.resume = IF @ = "none" THEN @ ELSE "old"], TRUE)
  /\ call' = Overtaken(r, Rebased)
  /\ edits' = edits + 1
  /\ UNCHANGED inFlight

-----------------------------------------------------------------------------
(* Interruptions *)

\* Somebody changes a step file without the program, or restores it.
Outside(r) ==
  /\ edits < MaxEdits
  /\ run[r].has # {} \/ run[r].outside
  /\ run' = [run EXCEPT ![r].outside = ~@]
  /\ edits' = edits + 1
  /\ UNCHANGED <<plan, call, inFlight, faults>>

\* A client repeats its operation, and the journal finishes what it planned.
Retried(r) ==
  /\ plan[r] # NONE /\ plan[r].client /\ ~run[r].outside
  /\ run' = [run EXCEPT ![r] = plan[r].files]
  /\ plan' = [plan EXCEPT ![r] = NONE]
  /\ UNCHANGED <<call, inFlight, edits, faults>>

\* recoverInterrupted: no execution survived, so no step is running.
\* Fault: the manifests are left as they are.
RecoverNothing(rec) == rec
recoverInterrupted(rec) ==
  [rec EXCEPT !.status = [s \in Step |-> IF @[s] = "running" THEN "error" ELSE @[s]]]

\* A start of the server recovers the plans first, but for those in stuck, which
\* conflict or fail again and keep their run as it is.
Restarted(files) ==
  \E stuck \in SUBSET {r \in Run : plan[r] # NONE} :
    /\ \A r \in Run : plan[r] # NONE /\ run[r].outside => r \in stuck
    /\ run' = [r \in Run |-> IF r \in stuck THEN files[r]
                            ELSE IF plan[r] = NONE THEN recoverInterrupted(files[r])
                            ELSE recoverInterrupted(plan[r].files)]
    /\ plan' = [r \in Run |-> IF r \in stuck THEN plan[r] ELSE NONE]
    /\ call' = [c \in Call |-> Idle]
    /\ inFlight' = NONE

\* The server dies, or is started again because an operation waits to be recovered.
Crash ==
  /\ faults < MaxFaults \/ \E r \in Run : plan[r] # NONE
  /\ faults' = IF faults < MaxFaults THEN faults + 1 ELSE faults
  /\ Restarted(run)
  /\ UNCHANGED edits

\* The server dies when resume.yaml is written and the approval is not.
CrashInApproval(r) ==
  /\ faults < MaxFaults
  /\ faults' = faults + 1
  /\ MayApprove(r, "proposals")
  /\ Restarted([run EXCEPT ![r] = Written(@, "proposals")])
  /\ UNCHANGED edits

-----------------------------------------------------------------------------

Execution(c) ==
  Generated(c) \/ GeneratedHalfway(c) \/ Failed(c)
Server(c) == Claim(c) \/ Refused(c) \/ Execution(c)
Person(r) ==
  \/ \E s \in Step : StartStep(r, s)
  \/ cancel(r) \/ discard(r) \/ finalize(r) \/ sync(r) \/ Outside(r) \/ Retried(r)
  \/ \E s \in Step : saveStep(r, s) \/ applyDraft(r, s) \/ approveStep(r, s)
  \/ \E s \in Editable : SaveDraft(r, run[r].unapplied \cup {s}) \/ SaveDraft(r, run[r].unapplied \ {s})
Next ==
  \/ \E c \in Call : Server(c)
  \/ \E r \in Run : Person(r) \/ CrashInApproval(r)
  \/ Crash

Spec == Init /\ [][Next]_vars

\* Promises settle: detections answer, and a run of the model ends at the latest
\* when its timer aborts it.
Fairness == \A c \in Call :
  /\ WF_vars(Claim(c) \/ Refused(c))
  /\ WF_vars(Generated(c) \/ GeneratedHalfway(c) \/ Failed(c))
FairSpec == Spec /\ Fairness

-----------------------------------------------------------------------------
(* Properties *)

TypeOK ==
  /\ run \in [Run -> Files]
  /\ plan \in [Run -> {NONE} \cup [files : Files, client : BOOLEAN]]
  /\ call \in [Call -> Calls]
  /\ inFlight \in Call \cup {NONE}
  /\ edits \in 0..MaxEdits /\ faults \in 0..MaxFaults

\* One model is asked at a time, by the execution that holds the flight: not by two
\* requests that both waited for their runner when the flight was free.
OneFlight == \A c \in Call : call[c].at = "execute" => inFlight = c

\* A step that may be built upon was made from, or checked by a person against, what
\* the steps before it and the base contain now, however edits, failed and
\* cancelled runs, changes of the base and interruptions followed each other.  The
\* brief is not promised this: nothing is made from it.
ReviewedIsCurrent ==
  \A r \in Run, s \in Editable : run[r].status[s] \in {"done", "approved"} => s \in run[r].current

\* A completed resume is the approved proposals, applied to the base they are for.
CompletedIsApproved ==
  [][\A r \in Run : run'[r].completed /\ ~run[r].completed =>
       run'[r].resume = "current" /\ "proposals" \in run'[r].current]_vars

\* A run does not stay busy: its execution ends, or a restart ends it.  Where an
\* operation was interrupted the error may never be saved, and is not promised.
RunsEnd ==
  \A r \in Run : [](plan[r] = NONE) => (Running(r) ~> ~Running(r))

=============================================================================
