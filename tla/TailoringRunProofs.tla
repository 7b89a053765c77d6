------------------------- MODULE TailoringRunProofs -------------------------
(***************************************************************************)
(* The safety properties of TailoringRun, for any number of runs, requests, *)
(* edits and interruptions.                                                *)
(***************************************************************************)
EXTENDS TailoringRun, TLAPS

\* A place is free, or holds a request for a step of a run.
Placed ==
  \A c \in Call : \/ call[c] = Idle
                  \/ call[c].at # "idle" /\ call[c].run \in Run /\ call[c].step \in Step

FlightInv == OneFlight /\ (inFlight # NONE => call[inFlight].at = "execute")

\* A step is running, on disk and in what a plan will make of the run, as long as it
\* is executed, and what it was given is what the steps before it contain.
Executing ==
  \A c \in Call : call[c].at = "execute" =>
    /\ call[c].current
    /\ run[call[c].run].status[call[c].step] = "running"
    /\ plan[call[c].run] # NONE =>
         plan[call[c].run].files.status[call[c].step] = "running"

\* The files of a run agree with its manifest.
FilesCurrent(rec) ==
  /\ \A s \in Editable : rec.status[s] \in {"done", "approved"} => s \in rec.current
  /\ rec.status["proposals"] = "approved" => rec.resume = "current"
  /\ rec.completed => rec.status["proposals"] = "approved"

Contents == \A r \in Run : FilesCurrent(run[r]) /\ (plan[r] # NONE => FilesCurrent(plan[r].files))

RunInv == TypeOK /\ Placed /\ FlightInv /\ Executing /\ Contents

-----------------------------------------------------------------------------
(* What becomes of the files of a run *)

LEMMA StaledStatus ==
  ASSUME NEW status \in [Step -> Status], NEW step \in Step
  PROVE  /\ markDownstreamStale(status, step) \in [Step -> Status]
         /\ \A s \in Step : markDownstreamStale(status, step)[s] \in {status[s], "stale"}
         /\ \A s \in Later(step) : markDownstreamStale(status, step)[s] \notin {"done", "approved"}
BY DEF markDownstreamStale, Later, Status, HAS_OUTPUT

LEMMA PublishedFiles ==
  ASSUME NEW rec \in Files, NEW step \in Step, NEW status \in [Step -> Status], NEW current \in BOOLEAN
  PROVE  /\ Published(rec, step, status, current) \in Files
         /\ Published(rec, step, status, current).status = [status EXCEPT ![step] = "done"]
         /\ Published(rec, step, status, current).completed = rec.completed
         /\ Published(rec, step, status, current).current =
              (rec.current \ (Later(step) \cup {step})) \cup {s \in {step} : current}
         /\ step # "proposals" => Published(rec, step, status, current).resume = rec.resume
<1>1. [status EXCEPT ![step] = "done"] \in [Step -> Status]
  BY DEF Status
<1>2. (rec.current \ (Later(step) \cup {step})) \cup {s \in {step} : current} \in SUBSET Step
  BY DEF Files
<1>3. (IF step = "proposals" /\ rec.resume # "none" THEN "old" ELSE rec.resume) \in {"none", "current", "old"}
  BY DEF Files
<1> QED BY <1>1, <1>2, <1>3 DEF Published, Files

\* New content of a step keeps the files current, when what follows is staled.
LEMMA PublishedCurrent ==
  ASSUME NEW rec \in Files, FilesCurrent(rec), ~rec.completed,
         NEW step \in Step, NEW status \in [Step -> Status],
         \A s \in Step : status[s] \in {rec.status[s], "stale"},
         \A s \in Later(step) \cap Editable : status[s] \notin {"done", "approved"}
  PROVE  FilesCurrent(Published(rec, step, status, TRUE))
<1> DEFINE new == Published(rec, step, status, TRUE)
<1>0. /\ new.status = [status EXCEPT ![step] = "done"]
      /\ ~new.completed
      /\ new.current = (rec.current \ (Later(step) \cup {step})) \cup {step}
      /\ step # "proposals" => new.resume = rec.resume
  BY DEF Published, Files
<1> HIDE DEF new
<1>1. ASSUME NEW s \in Editable, new.status[s] \in {"done", "approved"} PROVE s \in new.current
  <2>1. CASE s = step BY <2>1, <1>0
  <2>2. CASE s # step
    <3>1. new.status[s] = status[s] /\ s \in Step BY <2>2, <1>0 DEF Editable
    <3>2. s \notin Later(step) BY <3>1, <1>1
    <3>3. rec.status[s] \in {"done", "approved"} BY <3>1, <1>1
    <3> QED BY <3>2, <3>3, <2>2, <1>0 DEF FilesCurrent
  <2> QED BY <2>1, <2>2
<1>2. ASSUME new.status["proposals"] = "approved" PROVE new.resume = "current"
  <2>1. step # "proposals" BY <1>0, <1>2
  <2>2. "proposals" \in Step BY DEF Step
  <2>3. status["proposals"] = "approved" BY <2>1, <2>2, <1>0, <1>2
  <2>4. rec.status["proposals"] = "approved" BY <2>2, <2>3
  <2> QED BY <2>1, <2>4, <1>0 DEF FilesCurrent
<1> QED BY <1>0, <1>1, <1>2 DEF FilesCurrent, new

LEMMA EditedFiles ==
  ASSUME NEW rec \in Files, FilesCurrent(rec), ~rec.completed, NEW step \in Editable
  PROVE  Edited(rec, step) \in Files /\ FilesCurrent(Edited(rec, step)) /\ ~Edited(rec, step).completed
<1> DEFINE status == IF Restales(rec.status, step) THEN markDownstreamStale(rec.status, step) ELSE rec.status
<1>1. step \in Step /\ rec.status \in [Step -> Status] BY DEF Editable, Files
<1>2. /\ status \in [Step -> Status]
      /\ \A s \in Step : status[s] \in {rec.status[s], "stale"}
  BY <1>1, StaledStatus
<1>3. \A s \in Later(step) \cap Editable : status[s] \notin {"done", "approved"}
  <2>1. CASE Restales(rec.status, step) BY <2>1, <1>1, StaledStatus
  <2>2. CASE ~Restales(rec.status, step)
    <3>1. step = "proposals" BY <2>2 DEF Restales
    <3> QED BY <3>1 DEF Later, Index, Editable, Step
  <2> QED BY <2>1, <2>2
<1>4. Edited(rec, step) = Published(rec, step, status, TRUE) BY DEF Edited
<1> HIDE DEF status
<1>5. Published(rec, step, status, TRUE) \in Files
  BY <1>1, <1>2, PublishedFiles
<1>6. FilesCurrent(Published(rec, step, status, TRUE))
  BY <1>1, <1>2, <1>3, PublishedCurrent
<1>7. ~Published(rec, step, status, TRUE).completed
  BY <1>1, <1>2 DEF Published, Files
<1> QED BY <1>4, <1>5, <1>6, <1>7

\* Fields that say nothing about contents may change freely.
LEMMA FlagsFiles ==
  ASSUME NEW rec \in Files, FilesCurrent(rec),
         NEW unapplied \in SUBSET Editable, NEW review \in BOOLEAN, NEW outside \in BOOLEAN
  PROVE  LET new == [rec EXCEPT !.unapplied = unapplied, !.review = review, !.outside = outside]
         IN  /\ new \in Files /\ FilesCurrent(new)
             /\ new.status = rec.status /\ new.completed = rec.completed
BY DEF Files, FilesCurrent

\* A step that is no longer settled says nothing about its contents either.
LEMMA UnsettledFiles ==
  ASSUME NEW rec \in Files, FilesCurrent(rec), ~rec.completed, NEW step \in Step,
         NEW status \in Status \ {"done", "approved"}
  PROVE  LET new == [rec EXCEPT !.status[step] = status]
         IN  new \in Files /\ FilesCurrent(new)
BY DEF Files, FilesCurrent, Editable

LEMMA RecoveredFiles ==
  ASSUME NEW rec \in Files, FilesCurrent(rec)
  PROVE  recoverInterrupted(rec) \in Files /\ FilesCurrent(recoverInterrupted(rec))
<1> DEFINE status == [s \in Step |-> IF rec.status[s] = "running" THEN "error" ELSE rec.status[s]]
<1>1. /\ status \in [Step -> Status]
      /\ \A s \in Step : status[s] \in {"done", "approved"} => rec.status[s] = status[s]
      /\ rec.status["proposals"] = "approved" => status["proposals"] = "approved"
  BY DEF Files, Status, Step
<1>2. recoverInterrupted(rec) = [rec EXCEPT !.status = status] BY DEF recoverInterrupted
<1> HIDE DEF status
<1>3. "proposals" \in Step /\ Editable \subseteq Step BY DEF Step, Editable
<1> QED BY <1>1, <1>2, <1>3 DEF Files, FilesCurrent

LEMMA WrittenFiles ==
  ASSUME NEW rec \in Files, FilesCurrent(rec), NEW step \in Step
  PROVE  /\ Written(rec, step) \in Files /\ FilesCurrent(Written(rec, step))
         /\ Written(rec, step).status = rec.status
         /\ Written(rec, step).completed = rec.completed
         /\ Written(rec, step).current = rec.current
         /\ step = "proposals" => Written(rec, step).resume = "current"
         /\ step # "proposals" => Written(rec, step) = rec
BY DEF Written, Files, FilesCurrent

-----------------------------------------------------------------------------
(* The steps *)

LEMMA IdleCalls == Idle \in Calls /\ Idle.at = "idle" /\ ~Idle.cancelled
BY DEF Idle, Calls

\* Every change of the files of one run, by the journal or at once: what is left to
\* show of a step is what it does to those files and to the flight.
LEMMA FilesChange ==
  ASSUME RunInv, NEW r \in Run, NEW rec \in Files, FilesCurrent(rec),
         NEW client, client \in BOOLEAN, Journalled(r, rec, client),
         call' \in [Call -> Calls], \A c \in Call : call'[c] = call[c] \/ call'[c] = Idle,
         inFlight' \in Call \cup {NONE}, FlightInv', edits' \in 0..MaxEdits,
         \A c \in Call : call'[c].at = "execute" /\ call'[c].run = r =>
           rec.status[call'[c].step] = "running"
  PROVE  RunInv'
<1>1. run' \in [Run -> Files] /\ faults' \in 0..MaxFaults
  BY RunAssumption DEF RunInv, TypeOK, Journalled
<1>2. plan' \in [Run -> {NONE} \cup [files : Files, client : BOOLEAN]]
  <2>1. [files |-> rec, client |-> client] \in [files : Files, client : BOOLEAN]
    OBVIOUS
  <2> QED BY <2>1 DEF RunInv, TypeOK, Journalled
<1>3. \A q \in Run : /\ run'[q] = run[q] \/ (q = r /\ run'[q] = rec)
                     /\ plan'[q] = plan[q] \/ (q = r /\ plan'[q].files = rec)
  BY DEF RunInv, TypeOK, Journalled
<1>4. Contents'
  BY <1>3 DEF RunInv, Contents, FilesCurrent
<1>5. Placed'
  BY DEF RunInv, Placed
<1>6. Executing'
  <2> SUFFICES ASSUME NEW c \in Call, call'[c].at = "execute"
               PROVE  /\ call'[c].current
                      /\ run'[call'[c].run].status[call'[c].step] = "running"
                      /\ plan'[call'[c].run] # NONE =>
                           plan'[call'[c].run].files.status[call'[c].step] = "running"
    BY DEF Executing
  <2>1. call'[c] = call[c] /\ call[c].run \in Run
    BY IdleCalls DEF RunInv, Placed
  <2> QED BY <2>1, <1>3 DEF RunInv, Executing
<1> QED BY <1>1, <1>2, <1>4, <1>5, <1>6 DEF RunInv, TypeOK

\* Where nothing of the run is executed, a change of its draft ends the requests that
\* wait and overtakes no execution.
LEMMA DraftMoved ==
  ASSUME RunInv, NEW r \in Run, NEW steps \in SUBSET Step,
         ~Flying(r) \/ ~Running(r) \/ steps = {},
         call' = Overtaken(r, steps) \/ call' = Moved(r), inFlight' = inFlight
  PROVE  /\ call' \in [Call -> Calls] /\ \A c \in Call : call'[c] = call[c] \/ call'[c] = Idle
         /\ inFlight' \in Call \cup {NONE} /\ FlightInv'
         /\ \A c \in Call : call[c].at = "execute" => call'[c] = call[c]
         /\ \A c \in Call : call'[c].at = "execute" => call[c] = call'[c]
<1>0. /\ call \in [Call -> Calls] /\ inFlight \in Call \cup {NONE}
      /\ \A c \in Call : call[c].at \in {"idle", "detect", "execute"}
  BY DEF RunInv, TypeOK, Calls
<1>1. ASSUME NEW c \in Call
      PROVE  /\ Moved(r)[c] = call[c] \/ (call[c].at = "detect" /\ Moved(r)[c] = Idle)
             /\ call[c].run = r /\ call[c].step \in steps => call[c].at = "detect"
  <2>1. ASSUME call[c].run = r, call[c].step \in steps PROVE call[c].at = "detect"
    <3>1. call[c] # Idle
      BY <2>1, RunAssumption DEF Idle
    <3>2. call[c].at # "idle" BY <3>1 DEF RunInv, Placed
    <3>3. ASSUME call[c].at = "execute" PROVE FALSE
      <4>1. inFlight = c /\ Flying(r)
        BY <2>1, <3>3, RunAssumption DEF RunInv, FlightInv, OneFlight, Flying
      <4>2. run[r].status[call[c].step] = "running"
        BY <2>1, <3>3 DEF RunInv, Executing
      <4>3. Running(r)
        BY <2>1, <4>2 DEF Running
      <4> QED BY <2>1, <4>1, <4>3
    <3> QED BY <3>2, <3>3, <1>0
  <2> QED BY <2>1 DEF Moved
<1>2. ASSUME NEW c \in Call
      PROVE  call'[c] = call[c] \/ (call[c].at = "detect" /\ call'[c] = Idle)
  <2>1. CASE call' = Moved(r) BY <2>1, <1>1
  <2>2. CASE call' = Overtaken(r, steps)
    <3>1. CASE call[c].run = r /\ call[c].step \in steps
      <4>1. call[c].at = "detect" BY <3>1, <1>1
      <4>2. Moved(r)[c] = Idle BY <3>1, <4>1 DEF Moved
      <4>3. call'[c] = [Idle EXCEPT !.current = FALSE] BY <2>2, <3>1, <4>2 DEF Overtaken
      <4> QED BY <4>1, <4>3 DEF Idle
    <3>2. CASE ~(call[c].run = r /\ call[c].step \in steps)
      <4>1. call'[c] = Moved(r)[c] BY <2>2, <3>2 DEF Overtaken
      <4> QED BY <4>1, <1>1
    <3> QED BY <3>1, <3>2
  <2> QED BY <2>1, <2>2
<1>3. call' \in [Call -> Calls]
  <2>1. call' = [c \in Call |-> call'[c]] BY DEF Overtaken, Moved
  <2>2. \A c \in Call : call'[c] \in Calls BY <1>0, <1>2, IdleCalls
  <2> QED BY <2>1, <2>2
<1>4. FlightInv'
  BY <1>0, <1>2, IdleCalls DEF RunInv, FlightInv, OneFlight
<1> QED BY <1>0, <1>2, <1>3, <1>4, IdleCalls

\* Some facts every step needs of the run it is about.
LEMMA RunFacts ==
  ASSUME RunInv, NEW r \in Run
  PROVE  /\ run[r] \in Files /\ FilesCurrent(run[r]) /\ run[r].status \in [Step -> Status]
         /\ run[r].unapplied \in SUBSET Editable /\ run[r].review \in BOOLEAN
         /\ run[r].outside \in BOOLEAN /\ run[r].completed \in BOOLEAN
         /\ \A c \in Call : call[c].at = "execute" /\ call[c].run = r =>
              /\ inFlight = c /\ Flying(r) /\ Running(r)
              /\ run[r].status[call[c].step] = "running"
<1>1. run[r] \in Files /\ FilesCurrent(run[r])
  BY DEF RunInv, TypeOK, Contents
<1>2. ASSUME NEW c \in Call, call[c].at = "execute", call[c].run = r
      PROVE  /\ inFlight = c /\ Flying(r) /\ Running(r)
             /\ run[r].status[call[c].step] = "running"
  <2>1. inFlight = c /\ run[r].status[call[c].step] = "running"
    BY <1>2 DEF RunInv, FlightInv, OneFlight, Executing
  <2>2. call[c].step \in Step
    BY <1>2, IdleCalls DEF RunInv, Placed
  <2> QED BY <2>1, <2>2, <1>2, RunAssumption DEF Flying, Running
<1> QED BY <1>1, <1>2 DEF Files

LEMMA SaveDraftStep ==
  ASSUME RunInv, NEW r \in Run, NEW unapplied \in SUBSET Editable, SaveDraft(r, unapplied)
  PROVE  RunInv'
<1> DEFINE rec == [run[r] EXCEPT !.unapplied = unapplied]
<1>1. /\ rec \in Files /\ FilesCurrent(rec) /\ rec.status = run[r].status
  BY RunFacts DEF Files, FilesCurrent
<1>2. Journalled(r, rec, FALSE)
  BY DEF SaveDraft, Journalled, RunInv, TypeOK
<1>3. call' = Moved(r) /\ inFlight' = inFlight /\ edits' \in 0..MaxEdits
  BY RunAssumption DEF SaveDraft, RunInv, TypeOK
<1> HIDE DEF rec
<1>4. /\ call' \in [Call -> Calls] /\ \A c \in Call : call'[c] = call[c] \/ call'[c] = Idle
      /\ inFlight' \in Call \cup {NONE} /\ FlightInv'
      /\ \A c \in Call : call'[c].at = "execute" => call[c] = call'[c]
  <2>1. PICK steps \in SUBSET Step : steps = {} OBVIOUS
  <2> QED BY <2>1, <1>3, DraftMoved
<1>5. \A c \in Call : call'[c].at = "execute" /\ call'[c].run = r =>
        rec.status[call'[c].step] = "running"
  BY <1>1, <1>4, RunFacts
<1> QED BY <1>1, <1>2, <1>3, <1>4, <1>5, FilesChange

LEMMA DiscardStep ==
  ASSUME RunInv, NEW r \in Run, discard(r)
  PROVE  RunInv'
<1> DEFINE rec == [run[r] EXCEPT !.unapplied = {}]
<1>1. /\ rec \in Files /\ FilesCurrent(rec) /\ rec.status = run[r].status
  BY RunFacts DEF Files, FilesCurrent
<1>2. Journalled(r, rec, TRUE)
  BY DEF discard
<1>3. call' = Moved(r) /\ inFlight' = inFlight /\ edits' \in 0..MaxEdits
  BY RunAssumption DEF discard, RunInv, TypeOK
<1> HIDE DEF rec
<1>4. /\ call' \in [Call -> Calls] /\ \A c \in Call : call'[c] = call[c] \/ call'[c] = Idle
      /\ inFlight' \in Call \cup {NONE} /\ FlightInv'
      /\ \A c \in Call : call'[c].at = "execute" => call[c] = call'[c]
  <2>1. PICK steps \in SUBSET Step : steps = {} OBVIOUS
  <2> QED BY <2>1, <1>3, DraftMoved
<1>5. \A c \in Call : call'[c].at = "execute" /\ call'[c].run = r =>
        rec.status[call'[c].step] = "running"
  BY <1>1, <1>4, RunFacts
<1> QED BY <1>1, <1>2, <1>3, <1>4, <1>5, FilesChange

\* What saveStep and applyDraft make of the files.
LEMMA EditStep ==
  ASSUME RunInv, NEW r \in Run, NEW step \in Editable, NotRunning(r), ~run[r].completed,
         NEW unapplied \in SUBSET Editable, NEW review \in BOOLEAN,
         NEW client, client \in BOOLEAN,
         Journalled(r, [Edited(run[r], step) EXCEPT !.review = review, !.unapplied = unapplied], client),
         call' = Overtaken(r, Later(step)), inFlight' = inFlight, edits' \in 0..MaxEdits
  PROVE  RunInv'
<1> DEFINE rec == [Edited(run[r], step) EXCEPT !.review = review, !.unapplied = unapplied]
<1>1. Edited(run[r], step) \in Files /\ FilesCurrent(Edited(run[r], step))
  BY RunFacts, EditedFiles
<1>2. rec \in Files /\ FilesCurrent(rec)
  BY <1>1 DEF Files, FilesCurrent
<1> HIDE DEF rec
<1>3. /\ call' \in [Call -> Calls] /\ \A c \in Call : call'[c] = call[c] \/ call'[c] = Idle
      /\ inFlight' \in Call \cup {NONE} /\ FlightInv'
      /\ \A c \in Call : call'[c].at = "execute" => call[c] = call'[c]
  BY DraftMoved DEF NotRunning, Later
<1>4. \A c \in Call : ~(call'[c].at = "execute" /\ call'[c].run = r)
  BY <1>3, RunFacts DEF NotRunning
<1>5. Journalled(r, rec, client)
  BY DEF rec
<1> QED BY <1>2, <1>3, <1>4, <1>5, FilesChange

LEMMA saveStepStep ==
  ASSUME RunInv, NEW r \in Run, NEW step \in Step, saveStep(r, step)
  PROVE  RunInv'
<1>1. step \in Editable
  BY DEF saveStep, Editable
<1>2. Decided(run[r], step) \subseteq BOOLEAN
  BY RunFacts DEF Decided
<1>3. PICK review \in Decided(run[r], step) :
        Journalled(r, [Edited(run[r], step) EXCEPT !.review = review], FALSE)
  BY DEF saveStep
<1>4. Edited(run[r], step) \in Files
  BY <1>1, RunFacts, EditedFiles DEF saveStep
<1>5. [Edited(run[r], step) EXCEPT !.review = review] =
        [Edited(run[r], step) EXCEPT !.review = review, !.unapplied = Edited(run[r], step).unapplied]
  BY <1>4 DEF Files
<1>6. Edited(run[r], step).unapplied \in SUBSET Editable
  BY <1>4 DEF Files
<1>7. edits' \in 0..MaxEdits
  BY RunAssumption DEF saveStep, RunInv, TypeOK
<1> QED BY <1>1, <1>2, <1>3, <1>5, <1>6, <1>7, EditStep DEF saveStep

LEMMA applyDraftStep ==
  ASSUME RunInv, NEW r \in Run, NEW step \in Step, applyDraft(r, step)
  PROVE  RunInv'
<1>1. step \in Editable
  BY DEF applyDraft, Editable
<1>2. Decided(run[r], step) \subseteq BOOLEAN
  BY RunFacts DEF Decided
<1>4. Edited(run[r], step) \in Files
  BY <1>1, RunFacts, EditedFiles DEF applyDraft
<1> DEFINE left == Edited(run[r], step).unapplied \ {step}
<1>3. PICK review \in Decided(run[r], step) :
        Journalled(r, [Edited(run[r], step) EXCEPT !.review = review, !.unapplied = left], TRUE)
  <2>1. \A review \in BOOLEAN : [Edited(run[r], step) EXCEPT !.review = review, !.unapplied = @ \ {step}] =
          [Edited(run[r], step) EXCEPT !.review = review, !.unapplied = left]
    BY <1>4 DEF Files
  <2> QED BY <2>1, <1>2 DEF applyDraft
<1>6. left \in SUBSET Editable
  BY <1>4 DEF Files
<1>7. edits' \in 0..MaxEdits
  BY RunAssumption DEF applyDraft, RunInv, TypeOK
<1> HIDE DEF left
<1> QED BY <1>1, <1>2, <1>3, <1>6, <1>7, EditStep DEF applyDraft

LEMMA finalizeStep ==
  ASSUME RunInv, NEW r \in Run, finalize(r)
  PROVE  RunInv'
<1> DEFINE rec == [run[r] EXCEPT !.completed = TRUE]
<1>1. /\ rec \in Files /\ FilesCurrent(rec)
  BY RunFacts DEF Files, FilesCurrent, finalize, MayComplete
<1>2. PICK client \in BOOLEAN : Journalled(r, rec, client)
  BY DEF finalize
<1>3. call' = Moved(r) /\ inFlight' = inFlight /\ edits' \in 0..MaxEdits
  BY RunAssumption DEF finalize, RunInv, TypeOK
<1> HIDE DEF rec
<1>4. /\ call' \in [Call -> Calls] /\ \A c \in Call : call'[c] = call[c] \/ call'[c] = Idle
      /\ inFlight' \in Call \cup {NONE} /\ FlightInv'
      /\ \A c \in Call : call'[c].at = "execute" => call[c] = call'[c]
  <2>1. PICK steps \in SUBSET Step : steps = {} OBVIOUS
  <2> QED BY <2>1, <1>3, DraftMoved
<1>5. \A c \in Call : ~(call'[c].at = "execute" /\ call'[c].run = r)
  BY <1>4, RunFacts DEF NotRunning, finalize, MayComplete
<1> QED BY <1>1, <1>2, <1>3, <1>4, <1>5, FilesChange

LEMMA syncStep ==
  ASSUME RunInv, NEW r \in Run, sync(r)
  PROVE  RunInv'
<1> DEFINE Merge(review, unapplied) ==
         [run[r] EXCEPT
            !.status = [s \in Step |-> IF s \in Rebased THEN "stale" ELSE run[r].status[s]],
            !.has = run[r].has \cup (run[r].unapplied \cap {"proposals"}),
            !.unapplied = unapplied,
            !.staleSteps = Rebased,
            !.review = review,
            !.current = run[r].current \ Rebased,
            !.resume = IF run[r].resume = "none" THEN run[r].resume ELSE "old"]
<1>1. ASSUME NEW review \in BOOLEAN, NEW unapplied \in SUBSET Editable
      PROVE  Merge(review, unapplied) \in Files /\ FilesCurrent(Merge(review, unapplied))
  <2> DEFINE status == [s \in Step |-> IF s \in Rebased THEN "stale" ELSE run[r].status[s]]
             has == run[r].has \cup (run[r].unapplied \cap {"proposals"})
             current == run[r].current \ Rebased
             resume == IF run[r].resume = "none" THEN run[r].resume ELSE "old"
  <2>1. /\ run[r] \in Files /\ FilesCurrent(run[r]) /\ ~run[r].completed
        /\ run[r].status \in [Step -> Status]
    BY RunFacts DEF sync, MaySync
  <2>2. /\ status \in [Step -> Status] /\ status["proposals"] = "stale"
        /\ \A s \in Editable : status[s] \in {"done", "approved"} =>
             s \notin Rebased /\ run[r].status[s] = status[s]
    BY <2>1 DEF Status, Step, Rebased, Editable
  <2>3. /\ has \in SUBSET Step /\ current \in SUBSET Step /\ Rebased \in SUBSET Step
        /\ resume \in {"none", "current", "old"}
    BY <2>1 DEF Files, Rebased, Step
  <2>4. \A s \in Editable : status[s] \in {"done", "approved"} => s \in current
    BY <2>1, <2>2 DEF FilesCurrent
  <2>5. Merge(review, unapplied) =
          [run[r] EXCEPT !.status = status, !.has = has, !.unapplied = unapplied,
                         !.staleSteps = Rebased, !.review = review, !.current = current,
                         !.resume = resume]
    OBVIOUS
  <2> HIDE DEF status, has, current, resume, Merge
  <2>6. Merge(review, unapplied) \in Files
    BY <2>1, <2>2, <2>3, <2>5 DEF Files
  <2>7. /\ Merge(review, unapplied).status = status /\ Merge(review, unapplied).current = current
        /\ ~Merge(review, unapplied).completed
    BY <2>1, <2>5 DEF Files
  <2> QED BY <2>2, <2>4, <2>6, <2>7 DEF FilesCurrent
<1>2. PICK review \in BOOLEAN, unapplied \in SUBSET Editable :
        Journalled(r, Merge(review, unapplied), TRUE)
  <2>1. /\ run[r].unapplied \in SUBSET Editable
        /\ run[r].unapplied \ {"proposals"} \in SUBSET Editable
        /\ (run[r].has \cap {"proposals"} # {}) \in BOOLEAN
    BY RunFacts
  <2> QED BY <2>1 DEF sync
<1>3. call' = Overtaken(r, Rebased) /\ inFlight' = inFlight /\ edits' \in 0..MaxEdits
  BY RunAssumption DEF sync, RunInv, TypeOK
<1>4. /\ call' \in [Call -> Calls] /\ \A c \in Call : call'[c] = call[c] \/ call'[c] = Idle
      /\ inFlight' \in Call \cup {NONE} /\ FlightInv'
      /\ \A c \in Call : call'[c].at = "execute" => call[c] = call'[c]
  BY <1>3, DraftMoved DEF sync, MaySync, Rebased, Step
<1>5. \A c \in Call : ~(call'[c].at = "execute" /\ call'[c].run = r)
  BY <1>4, RunFacts DEF sync, MaySync
<1> HIDE DEF Merge
<1> QED BY <1>1, <1>2, <1>3, <1>4, <1>5, FilesChange

\* Approval and changes outside touch neither the requests nor the flight.
LEMMA FilesOnly ==
  ASSUME RunInv, NEW r \in Run, NEW rec \in Files, FilesCurrent(rec), ~Flying(r) \/ rec.status = run[r].status,
         run' = [run EXCEPT ![r] = rec], edits' \in 0..MaxEdits,
         UNCHANGED <<plan, call, inFlight, faults>>
  PROVE  RunInv'
<1>1. Journalled(r, rec, FALSE)
  BY DEF Journalled
<1>2. /\ call' \in [Call -> Calls] /\ \A c \in Call : call'[c] = call[c]
      /\ inFlight' \in Call \cup {NONE} /\ FlightInv'
  BY DEF RunInv, TypeOK, FlightInv, OneFlight
<1>3. \A c \in Call : call'[c].at = "execute" /\ call'[c].run = r =>
        rec.status[call'[c].step] = "running"
  BY <1>2, RunFacts
<1> QED BY <1>1, <1>2, <1>3, FilesChange

LEMMA ApprovedFiles ==
  ASSUME RunInv, NEW r \in Run, NEW step \in Step, MayApprove(r, step)
  PROVE  LET rec == [Written(run[r], step) EXCEPT !.status[step] = "approved"]
         IN  rec \in Files /\ FilesCurrent(rec)
<1> DEFINE old == Written(run[r], step)
           rec == [old EXCEPT !.status[step] = "approved"]
<1>1. /\ old \in Files /\ FilesCurrent(old) /\ ~old.completed /\ old.status[step] = "done"
      /\ step = "proposals" => old.resume = "current"
  BY RunFacts, WrittenFiles DEF MayApprove
<1> HIDE DEF old
<1> QED BY <1>1 DEF Files, FilesCurrent, Editable, Status, Step, old

LEMMA approveStepStep ==
  ASSUME RunInv, NEW r \in Run, NEW step \in Step, approveStep(r, step)
  PROVE  RunInv'
<1> DEFINE rec == [Written(run[r], step) EXCEPT !.status[step] = "approved"]
<1>1. rec \in Files /\ FilesCurrent(rec)
  BY ApprovedFiles DEF approveStep
<1>2. run' = [run EXCEPT ![r] = rec]
  BY DEF approveStep
<1>3. edits' \in 0..MaxEdits
  BY DEF approveStep, RunInv, TypeOK
<1> HIDE DEF rec
<1> QED BY <1>1, <1>2, <1>3, FilesOnly DEF approveStep, MayApprove, NotRunning

LEMMA OutsideStep ==
  ASSUME RunInv, NEW r \in Run, Outside(r)
  PROVE  RunInv'
<1> DEFINE rec == [run[r] EXCEPT !.outside = ~run[r].outside]
<1>1. rec \in Files /\ FilesCurrent(rec) /\ rec.status = run[r].status
  BY RunFacts DEF Files, FilesCurrent
<1>2. run' = [run EXCEPT ![r] = rec]
  BY DEF Outside
<1>3. edits' \in 0..MaxEdits
  BY RunAssumption DEF Outside, RunInv, TypeOK
<1> HIDE DEF rec
<1> QED BY <1>1, <1>2, <1>3, FilesOnly DEF Outside

LEMMA RetriedStep ==
  ASSUME RunInv, NEW r \in Run, Retried(r)
  PROVE  RunInv'
<1>1. /\ plan[r].files \in Files /\ FilesCurrent(plan[r].files)
      /\ run \in [Run -> Files] /\ plan \in [Run -> {NONE} \cup [files : Files, client : BOOLEAN]]
  BY DEF Retried, RunInv, TypeOK, Contents
<1>2. TypeOK'
  BY <1>1 DEF Retried, RunInv, TypeOK
<1>3. /\ \A q \in Run : run'[q] = IF q = r THEN plan[r].files ELSE run[q]
      /\ \A q \in Run : plan'[q] = IF q = r THEN NONE ELSE plan[q]
  BY <1>1 DEF Retried
<1>4. Placed' /\ FlightInv'
  BY DEF Retried, RunInv, Placed, FlightInv, OneFlight
<1>5. Contents'
  BY <1>1, <1>3 DEF RunInv, Contents, FilesCurrent
<1>6. Executing'
  <2> SUFFICES ASSUME NEW c \in Call, call[c].at = "execute"
               PROVE  /\ call[c].current
                      /\ run'[call[c].run].status[call[c].step] = "running"
                      /\ plan'[call[c].run] # NONE =>
                           plan'[call[c].run].files.status[call[c].step] = "running"
    BY DEF Retried, Executing
  <2>1. call[c].run \in Run
    BY IdleCalls DEF RunInv, Placed
  <2> QED BY <2>1, <1>3 DEF Retried, RunInv, Executing
<1> QED BY <1>2, <1>4, <1>5, <1>6 DEF RunInv

\* A start of the server: no request and no flight survives it.
LEMMA RestartedInv ==
  ASSUME RunInv, NEW files \in [Run -> Files], \A r \in Run : FilesCurrent(files[r]),
         Restarted(files), faults' \in 0..MaxFaults, UNCHANGED edits
  PROVE  RunInv'
<1>1. PICK stuck \in SUBSET {r \in Run : plan[r] # NONE} :
        /\ run' = [r \in Run |-> IF r \in stuck THEN files[r]
                                 ELSE IF plan[r] = NONE THEN recoverInterrupted(files[r])
                                 ELSE recoverInterrupted(plan[r].files)]
        /\ plan' = [r \in Run |-> IF r \in stuck THEN plan[r] ELSE NONE]
  BY DEF Restarted
<1>2. \A r \in Run :
        /\ plan[r] # NONE => /\ plan[r] \in [files : Files, client : BOOLEAN]
                             /\ plan[r].files \in Files /\ FilesCurrent(plan[r].files)
        /\ files[r] \in Files
  BY DEF RunInv, TypeOK, Contents
<1>3. \A r \in Run : run'[r] \in Files /\ FilesCurrent(run'[r])
  BY <1>1, <1>2, RecoveredFiles
<1>4. /\ \A r \in Run : plan'[r] = NONE \/ (plan[r] # NONE /\ plan'[r] = plan[r])
      /\ run' = [r \in Run |-> run'[r]] /\ plan' = [r \in Run |-> plan'[r]]
  BY <1>1
<1>5. Contents'
  <2> SUFFICES ASSUME NEW r \in Run
               PROVE  FilesCurrent(run'[r]) /\ (plan'[r] # NONE => FilesCurrent(plan'[r].files))
    BY DEF Contents, FilesCurrent
  <2> QED BY <1>2, <1>3, <1>4
<1>6. call' = [c \in Call |-> Idle] /\ inFlight' = NONE
  BY DEF Restarted
<1>7. Placed' /\ FlightInv' /\ Executing'
  BY <1>6, IdleCalls DEF Placed, FlightInv, OneFlight, Executing
<1>8. TypeOK'
  <2>1. run' \in [Run -> Files]
    <3> HIDE DEF Files
    <3> QED BY <1>3, <1>4
  <2>2. plan' \in [Run -> {NONE} \cup [files : Files, client : BOOLEAN]]
    <3> DEFINE Plans == {NONE} \cup [files : Files, client : BOOLEAN]
    <3>1. \A r \in Run : plan'[r] \in Plans BY <1>2, <1>4
    <3>2. plan' = [r \in Run |-> plan'[r]] BY <1>4
    <3> HIDE DEF Plans
    <3>3. plan' \in [Run -> Plans] BY <3>1, <3>2
    <3> QED BY <3>3 DEF Plans
  <2> QED BY <2>1, <2>2, <1>6, IdleCalls DEF RunInv, TypeOK
<1> QED BY <1>5, <1>7, <1>8 DEF RunInv

LEMMA CrashStep ==
  ASSUME RunInv, Crash
  PROVE  RunInv'
<1>1. run \in [Run -> Files] /\ \A r \in Run : FilesCurrent(run[r])
  BY DEF RunInv, TypeOK, Contents
<1>2. faults' \in 0..MaxFaults
  BY RunAssumption DEF Crash, RunInv, TypeOK
<1> QED BY <1>1, <1>2, RestartedInv DEF Crash

LEMMA CrashInApprovalStep ==
  ASSUME RunInv, NEW r \in Run, CrashInApproval(r)
  PROVE  RunInv'
<1> DEFINE files == [run EXCEPT ![r] = Written(run[r], "proposals")]
<1>1. /\ files \in [Run -> Files] /\ \A q \in Run : FilesCurrent(files[q])
  <2>1. "proposals" \in Step BY DEF Step
  <2>2. Written(run[r], "proposals") \in Files /\ FilesCurrent(Written(run[r], "proposals"))
    BY <2>1, RunFacts, WrittenFiles
  <2>3. run \in [Run -> Files] /\ \A q \in Run : FilesCurrent(run[q])
    BY DEF RunInv, TypeOK, Contents
  <2>4. files \in [Run -> Files]
    BY <2>2, <2>3
  <2>5. \A q \in Run : files[q] = IF q = r THEN Written(run[r], "proposals") ELSE run[q]
    BY <2>3
  <2> HIDE DEF files
  <2> QED BY <2>2, <2>3, <2>4, <2>5
<1>2. faults' \in 0..MaxFaults
  BY RunAssumption DEF CrashInApproval, RunInv, TypeOK
<1>3. Restarted(files)
  BY DEF CrashInApproval
<1> HIDE DEF files
<1> QED BY <1>1, <1>2, <1>3, RestartedInv DEF CrashInApproval

\* Steps that only move requests that wait: starting, refusing and cancelling.
LEMMA CallsOnly ==
  ASSUME RunInv, call' \in [Call -> Calls], Placed',
         \A c \in Call : /\ call[c].at = "execute" <=> call'[c].at = "execute"
                         /\ call[c].at = "execute" => /\ call'[c].run = call[c].run
                                                      /\ call'[c].step = call[c].step
                                                      /\ call'[c].current = call[c].current,
         UNCHANGED <<run, plan, inFlight, edits, faults>>
  PROVE  RunInv'
<1>1. FlightInv' BY DEF RunInv, TypeOK, FlightInv, OneFlight
<1>2. TypeOK' BY DEF RunInv, TypeOK
<1>3. Contents' BY DEF RunInv, Contents, FilesCurrent
<1>4. Executing' BY DEF RunInv, Executing
<1> QED BY <1>1, <1>2, <1>3, <1>4 DEF RunInv

LEMMA StartStepStep ==
  ASSUME RunInv, NEW r \in Run, NEW step \in Step, StartStep(r, step)
  PROVE  RunInv'
<1> DEFINE c == FreeCall
           new == [Idle EXCEPT !.at = "detect", !.run = r, !.step = step]
<1>1. c \in Call /\ call[c].at = "idle"
  BY DEF StartStep, FreeCall
<1>2. /\ new \in Calls /\ new.at = "detect" /\ new.run = r /\ new.step = step
  BY DEF Idle, Calls
<1>3. call' = [call EXCEPT ![c] = new]
  BY DEF StartStep
<1> HIDE DEF c, new
<1>4. call \in [Call -> Calls]
  BY DEF RunInv, TypeOK
<1>5. call' \in [Call -> Calls] /\ \A d \in Call : call'[d] = IF d = c THEN new ELSE call[d]
  BY <1>1, <1>2, <1>3, <1>4
<1>6. Placed'
  BY <1>2, <1>5 DEF RunInv, Placed
<1> QED BY <1>1, <1>2, <1>5, <1>6, CallsOnly DEF StartStep

LEMMA RefusedStep ==
  ASSUME RunInv, NEW c \in Call, Refused(c)
  PROVE  RunInv'
<1>1. call \in [Call -> Calls]
  BY DEF RunInv, TypeOK
<1>2. call' \in [Call -> Calls] /\ \A d \in Call : call'[d] = IF d = c THEN Idle ELSE call[d]
  BY <1>1, IdleCalls DEF Refused
<1>3. Placed'
  BY <1>2 DEF RunInv, Placed
<1> QED BY <1>2, <1>3, IdleCalls, CallsOnly DEF Refused

LEMMA cancelStep ==
  ASSUME RunInv, NEW r \in Run, cancel(r)
  PROVE  RunInv'
<1>1. call \in [Call -> Calls] /\ inFlight \in Call /\ call[inFlight].at = "execute"
  BY DEF RunInv, TypeOK, FlightInv, cancel, Flying
<1> DEFINE new == [call[inFlight] EXCEPT !.cancelled = TRUE]
<1>2. /\ new \in Calls /\ new.at = "execute" /\ new.run = call[inFlight].run
      /\ new.step = call[inFlight].step /\ new.current = call[inFlight].current
  BY <1>1 DEF Calls
<1>3. call' = [call EXCEPT ![inFlight] = new]
  BY DEF cancel
<1> HIDE DEF new
<1>4. call' \in [Call -> Calls] /\ \A d \in Call : call'[d] = IF d = inFlight THEN new ELSE call[d]
  BY <1>1, <1>2, <1>3
<1>5. Placed'
  BY <1>1, <1>2, <1>4, IdleCalls DEF RunInv, Placed
<1> QED BY <1>1, <1>2, <1>4, <1>5, CallsOnly DEF cancel

LEMMA ClaimStep ==
  ASSUME RunInv, NEW c \in Call, Claim(c)
  PROVE  RunInv'
<1> DEFINE r == call[c].run
           step == call[c].step
           rec == [run[r] EXCEPT !.status[step] = "running"]
           new == [call[c] EXCEPT !.at = "execute", !.current = TRUE]
<1>1. /\ r \in Run /\ step \in Step /\ call[c] \in Calls
      /\ ~run[r].completed /\ plan[r] = NONE /\ inFlight = NONE
  BY IdleCalls DEF Claim, MayClaim, Settled, RunInv, TypeOK, Placed
<1>2. /\ rec \in Files /\ FilesCurrent(rec) /\ rec.status[step] = "running"
  <2>1. "running" \in Status \ {"done", "approved"}
    BY DEF Status
  <2>2. run[r] \in Files /\ FilesCurrent(run[r])
    BY <1>1, RunFacts
  <2>3. rec \in Files /\ FilesCurrent(rec)
    <3> HIDE DEF r, step
    <3> QED BY <1>1, <2>1, <2>2, UnsettledFiles
  <2>4. rec.status[step] = "running"
    BY <1>1, <2>2 DEF Files
  <2> QED BY <2>3, <2>4
<1>3. /\ new \in Calls /\ new.at = "execute" /\ new.current /\ new.run = r /\ new.step = step
  BY <1>1 DEF Calls
<1>4. run' = [run EXCEPT ![r] = rec]
  BY DEF Claim
<1>5. call' = [call EXCEPT ![c] = new]
  BY DEF Claim
<1> HIDE DEF rec, new
<1>6. /\ run' \in [Run -> Files] /\ \A q \in Run : run'[q] = IF q = r THEN rec ELSE run[q]
      /\ call' \in [Call -> Calls] /\ \A d \in Call : call'[d] = IF d = c THEN new ELSE call[d]
  BY <1>1, <1>2, <1>3, <1>4, <1>5 DEF RunInv, TypeOK
<1>7. TypeOK'
  BY <1>6 DEF Claim, RunInv, TypeOK
<1>8. Placed'
  BY <1>1, <1>3, <1>6 DEF RunInv, Placed
<1>9. \A d \in Call : call[d].at # "execute"
  BY <1>1, RunAssumption DEF RunInv, FlightInv, OneFlight
<1>10. FlightInv'
  BY <1>3, <1>6, <1>9 DEF Claim, FlightInv, OneFlight
<1>11. Executing'
  <2> SUFFICES ASSUME NEW d \in Call, call'[d].at = "execute"
               PROVE  /\ call'[d].current
                      /\ run'[call'[d].run].status[call'[d].step] = "running"
                      /\ plan'[call'[d].run] # NONE =>
                           plan'[call'[d].run].files.status[call'[d].step] = "running"
    BY DEF Executing
  <2>1. call'[d] = new
    BY <1>6, <1>9
  <2> QED BY <2>1, <1>1, <1>2, <1>3, <1>6 DEF Claim
<1>12. Contents'
  BY <1>2, <1>6 DEF Claim, RunInv, Contents, FilesCurrent
<1> QED BY <1>7, <1>8, <1>10, <1>11, <1>12 DEF RunInv

\* The end of an execution: the flight is released, and nothing else is executed.
LEMMA LandedFlight ==
  ASSUME RunInv, NEW c \in Call, call[c].at = "execute", inFlight' = Landed(c),
         \/ call' = [Moved(call[c].run) EXCEPT ![c] = Idle]
         \/ call' = [call EXCEPT ![c] = Idle]
  PROVE  /\ call' \in [Call -> Calls] /\ \A d \in Call : call'[d] = call[d] \/ call'[d] = Idle
         /\ inFlight' \in Call \cup {NONE} /\ FlightInv'
         /\ \A d \in Call : call'[d].at # "execute"
         /\ call[c].run \in Run /\ call[c].step \in Step /\ call[c].current
<1>1. /\ call \in [Call -> Calls] /\ inFlight = c
      /\ \A d \in Call : d # c => call[d].at # "execute"
  BY DEF RunInv, TypeOK, FlightInv, OneFlight
<1>2. /\ call' \in [Call -> Calls]
      /\ \A d \in Call : call'[d] = Idle \/ (d # c /\ call'[d] = call[d])
  BY <1>1, IdleCalls DEF Moved
<1>3. \A d \in Call : call'[d].at # "execute"
  BY <1>1, <1>2, IdleCalls
<1>4. inFlight' = NONE
  BY <1>1 DEF Landed
<1>5. FlightInv'
  BY <1>3, <1>4 DEF FlightInv, OneFlight
<1>6. call[c].run \in Run /\ call[c].step \in Step /\ call[c].current
  BY IdleCalls DEF RunInv, Placed, Executing
<1> QED BY <1>2, <1>3, <1>4, <1>5, <1>6

LEMMA OutputFiles ==
  ASSUME RunInv, NEW c \in Call, MayPublish(c),
         NEW unapplied \in Merged(run[call[c].run].unapplied, call[c].step)
  PROVE  Output(c, unapplied) \in Files /\ FilesCurrent(Output(c, unapplied))
<1> DEFINE r == call[c].run
           step == call[c].step
           rec == run[r]
           status == markDownstreamStale(rec.status, step)
           new == Published(rec, step, status, TRUE)
<1>1. /\ r \in Run /\ step \in Step /\ call[c].current = TRUE
  BY IdleCalls DEF MayPublish, RunInv, TypeOK, Calls, Placed, Executing
<1>2. /\ rec \in Files /\ FilesCurrent(rec) /\ ~rec.completed
      /\ rec.status \in [Step -> Status] /\ rec.unapplied \in SUBSET Editable
  BY <1>1, RunFacts DEF MayPublish
<1> HIDE DEF rec
<1>3. /\ status \in [Step -> Status]
      /\ \A s \in Step : status[s] \in {rec.status[s], "stale"}
      /\ \A s \in Later(step) \cap Editable : status[s] \notin {"done", "approved"}
  BY <1>1, <1>2, StaledStatus
<1> HIDE DEF status
<1>4. new \in Files
  BY <1>1, <1>2, <1>3, PublishedFiles
<1>5. FilesCurrent(new)
  BY <1>1, <1>2, <1>3, PublishedCurrent
<1>6. unapplied \in SUBSET Editable
  BY <1>2 DEF Merged, rec
<1>7. Output(c, unapplied) =
        [new EXCEPT !.unapplied = unapplied, !.review = new.review /\ step # "proposals"]
  BY <1>1 DEF Output, rec, status
<1> HIDE DEF new
<1>8. (new.review /\ step # "proposals") \in BOOLEAN
  OBVIOUS
<1>9. new.outside \in BOOLEAN
  BY <1>4 DEF Files
<1> DEFINE review == new.review /\ step # "proposals"
<1>10. review \in BOOLEAN /\ Output(c, unapplied) = [new EXCEPT !.unapplied = unapplied, !.review = review]
  BY <1>7, <1>8
<1> HIDE DEF review
<1> QED BY <1>4, <1>5, <1>6, <1>10 DEF Files, FilesCurrent

LEMMA GeneratedStep ==
  ASSUME RunInv, NEW c \in Call, Generated(c) \/ GeneratedHalfway(c)
  PROVE  RunInv'
<1>1. MayPublish(c) /\ call[c].at = "execute"
  BY DEF Generated, GeneratedHalfway, MayPublish
<1>2. PICK unapplied \in Merged(run[call[c].run].unapplied, call[c].step) :
        Journalled(call[c].run, Output(c, unapplied), FALSE)
  BY DEF Generated, GeneratedHalfway, Journalled
<1>3. /\ call' \in [Call -> Calls] /\ \A d \in Call : call'[d] = call[d] \/ call'[d] = Idle
      /\ inFlight' \in Call \cup {NONE} /\ FlightInv'
      /\ \A d \in Call : call'[d].at # "execute"
      /\ call[c].run \in Run /\ call[c].step \in Step
  BY <1>1, LandedFlight DEF Generated, GeneratedHalfway
<1>4. Output(c, unapplied) \in Files /\ FilesCurrent(Output(c, unapplied))
  BY <1>1, OutputFiles
<1>5. edits' \in 0..MaxEdits
  BY DEF Generated, GeneratedHalfway, RunInv, TypeOK
<1> QED BY <1>2, <1>3, <1>4, <1>5, FilesChange

LEMMA FailedStep ==
  ASSUME RunInv, NEW c \in Call, Failed(c)
  PROVE  RunInv'
<1> DEFINE r == call[c].run
           step == call[c].step
           rec == IF plan[r] = NONE /\ ~run[r].completed
                    THEN [run[r] EXCEPT !.status[step] = Ended(c)] ELSE run[r]
<1>1. call[c].at = "execute"
  BY DEF Failed
<1>2. /\ call' \in [Call -> Calls] /\ \A d \in Call : call'[d] = call[d] \/ call'[d] = Idle
      /\ inFlight' \in Call \cup {NONE} /\ FlightInv'
      /\ \A d \in Call : call'[d].at # "execute"
      /\ r \in Run /\ step \in Step
  BY <1>1, LandedFlight DEF Failed
<1>3. rec \in Files /\ FilesCurrent(rec)
  <2>1. Ended(c) \in Status \ {"done", "approved"}
    BY DEF Ended, Status
  <2>2. run[r] \in Files /\ FilesCurrent(run[r])
    BY <1>2, RunFacts
  <2>3. ~run[r].completed =>
          LET new == [run[r] EXCEPT !.status[step] = Ended(c)]
          IN  new \in Files /\ FilesCurrent(new)
    BY <1>2, <2>1, <2>2, UnsettledFiles
  <2> QED BY <2>2, <2>3
<1>4. run' = [run EXCEPT ![r] = rec]
  BY <1>2 DEF Failed, RunInv, TypeOK
<1> HIDE DEF rec
<1>5. Journalled(r, rec, FALSE)
  BY <1>4 DEF Failed, Journalled
<1>6. edits' \in 0..MaxEdits
  BY DEF Failed, RunInv, TypeOK
<1> QED BY <1>2, <1>3, <1>5, <1>6, FilesChange

-----------------------------------------------------------------------------
(* Theorems *)

LEMMA InitInv == Init => RunInv
<1> SUFFICES ASSUME Init PROVE RunInv
  OBVIOUS
<1>1. Created \in Files /\ FilesCurrent(Created)
  BY DEF Created, Files, FilesCurrent, Status, Editable, Step
<1>2. TypeOK
  BY <1>1, IdleCalls, RunAssumption DEF Init, TypeOK
<1>3. Placed /\ FlightInv /\ Executing
  BY IdleCalls DEF Init, Placed, FlightInv, OneFlight, Executing
<1>4. Contents
  BY <1>1 DEF Init, Contents
<1> QED BY <1>2, <1>3, <1>4 DEF RunInv

LEMMA StutterInv ==
  ASSUME RunInv, UNCHANGED vars
  PROVE  RunInv'
BY DEF vars, RunInv, TypeOK, Placed, FlightInv, OneFlight, Executing, Contents, FilesCurrent

LEMMA StepInv == RunInv /\ [Next]_vars => RunInv'
<1> SUFFICES ASSUME RunInv, [Next]_vars PROVE RunInv'
  OBVIOUS
<1>1. ASSUME NEW c \in Call, Server(c) PROVE RunInv'
  BY <1>1, ClaimStep, RefusedStep, GeneratedStep, FailedStep DEF Server, Execution
<1>2. ASSUME NEW r \in Run, Person(r) PROVE RunInv'
  <2>1. CASE \E s \in Step : StartStep(r, s) BY <2>1, StartStepStep
  <2>2. CASE cancel(r) \/ discard(r) \/ finalize(r) \/ sync(r) \/ Outside(r) \/ Retried(r)
    BY <2>2, cancelStep, DiscardStep, finalizeStep, syncStep, OutsideStep, RetriedStep
  <2>3. CASE \E s \in Step : saveStep(r, s) \/ applyDraft(r, s) \/ approveStep(r, s)
    BY <2>3, saveStepStep, applyDraftStep, approveStepStep
  <2>4. CASE \E s \in Editable : \/ SaveDraft(r, run[r].unapplied \cup {s})
                                 \/ SaveDraft(r, run[r].unapplied \ {s})
    <3>1. PICK s \in Editable : \/ SaveDraft(r, run[r].unapplied \cup {s})
                                \/ SaveDraft(r, run[r].unapplied \ {s})
      BY <2>4
    <3>2. /\ run[r].unapplied \cup {s} \in SUBSET Editable
          /\ run[r].unapplied \ {s} \in SUBSET Editable
      BY RunFacts
    <3> QED BY <3>1, <3>2, SaveDraftStep
  <2> QED BY <1>2, <2>1, <2>2, <2>3, <2>4 DEF Person
<1>3. ASSUME NEW r \in Run, CrashInApproval(r) PROVE RunInv'
  BY <1>3, CrashInApprovalStep
<1>4. ASSUME Crash PROVE RunInv'
  BY <1>4, CrashStep
<1>5. CASE UNCHANGED vars
  BY <1>5, StutterInv
<1> QED BY <1>1, <1>2, <1>3, <1>4, <1>5 DEF Next

LEMMA Invariance == Spec => []RunInv
BY InitInv, StepInv, PTL DEF Spec

\* The state of the orchestrator has its type.
THEOREM TypeCorrect == Spec => []TypeOK
<1>1. RunInv => TypeOK
  BY DEF RunInv
<1> QED BY <1>1, Invariance, PTL

\* One model is asked at a time, however many requests wait for their runner.
THEOREM OneFlightAlways == Spec => []OneFlight
<1>1. RunInv => OneFlight
  BY DEF RunInv, FlightInv
<1> QED BY <1>1, Invariance, PTL

\* A step that may be built upon was made from, or checked against, what the steps
\* before it and the base contain now.
THEOREM ReviewedStaysCurrent == Spec => []ReviewedIsCurrent
<1>1. RunInv => ReviewedIsCurrent
  BY DEF RunInv, Contents, FilesCurrent, ReviewedIsCurrent
<1> QED BY <1>1, Invariance, PTL

\* A completed resume is the approved proposals, applied to the base they are for,
\* also when an interrupted completion is finished later.
THEOREM CompletionIsApproved == Spec => CompletedIsApproved
<1> DEFINE Good == \A r \in Run : run'[r].completed /\ ~run[r].completed =>
                     run'[r].resume = "current" /\ "proposals" \in run'[r].current
<1>1. RunInv' => Good
  BY DEF RunInv, Contents, FilesCurrent, Editable, Step
<1>2. [Next]_vars /\ RunInv /\ RunInv' => [Good]_vars
  BY <1>1
<1>3. Spec => [][Good]_vars
  <2> HIDE DEF Good
  <2> QED BY <1>2, Invariance, PTL DEF Spec
<1> QED BY <1>3 DEF CompletedIsApproved

=============================================================================
