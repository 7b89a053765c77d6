-------------------------- MODULE PreparationBatch --------------------------
(* The automatic preparation of a selection of jobs: the members of a batch,  *)
(* their budget cycles, and the coordinator that prepares one member at a     *)
(* time (packages/cli/src/jobs/preparation-coordinator.ts and                 *)
(* preparation-batch-repository.ts), with what it uses of the queue, of the   *)
(* evidence checks and of draft finalization.                                 *)
(*                                                                            *)
(* One coordinator runs, in the server.  A tick is JavaScript: nothing of the *)
(* same process runs inside it except where it awaits, which is where tick.at *)
(* is in Awaiting.  Another process, the headless command, may stop, start    *)
(* and prepare queued jobs between any two of its transactions.               *)
EXTENDS Naturals, Sequences, FiniteSets

CONSTANTS
  Jobs,        \* the jobs a person may select
  Claim,       \* uncertain facts of a resume
  Decision,    \* the decision about a material omission, no member of Claim
  MaxActs,     \* bound: how often a person or a crash intervenes
  NONE         \* no attempt, no job

ASSUME BatchAssumption ==
  /\ MaxActs \in Nat
  /\ Decision \notin Claim
  /\ NONE \notin Nat \cup Jobs

VARIABLES
  member,      \* preparation_members: the row of each job
  order,       \* the jobs in the order of their rows
  retries,     \* usage.retries of the member's cycle
  job,         \* what the queue and its artifacts hold of each job
  check,       \* the review of each job and the last evidence check of it
  draft,       \* the revision of the saved draft of each job, 0 if none
  control,     \* worker_control: halted or not, and the stop generation
  tick,        \* where the coordinator is, and what it read before
  acts,        \* interventions so far
  owed,        \* history: the edit the coordinator was told of and has not published
  restarts     \* history: attempts since a person last acted on the job

vars == <<member, order, retries, job, check, draft, control, tick, acts, owed, restarts>>
db == <<member, order, retries, job, check, draft, control>>

Revision == 0 .. MaxActs
MemberState == {"none", "pending", "running", "question", "technical", "ready", "later"}
Member == [state : MemberState, cycle : Revision, attempt : Revision \cup {NONE}, draft : Revision]
PreparationState == {"saved", "queued", "preparing", "needs_input", "resume_ready", "failed",
                     "cancelled", "interrupted"}
\* fits: the newest artifact was made from the member's inputs; made: the draft
\* revision it was made from, 0 when an attempt made it.
Job == [prep : PreparationState, fits : BOOLEAN, made : Revision, inactive : BOOLEAN]
\* op: what read() answers of the last check; task: whose promise is running;
\* void: it was superseded; asked: the batch's key of this review revision was
\* used; unread: some wording was never checked; open: what only a person can say.
Check == [review : BOOLEAN, op : {"unchecked", "checking", "complete", "unavailable"},
          task : {"none", "batch", "user"}, void : BOOLEAN, asked : BOOLEAN, unread : BOOLEAN,
          open : SUBSET (Claim \cup {Decision})]
NoCheck == [review |-> FALSE, op |-> "unchecked", task |-> "none", void |-> FALSE,
            asked |-> FALSE, unread |-> TRUE, open |-> {}]
Place == {"idle", "pick", "facts", "note", "draftFacts", "draftCheck", "finalize"}
Awaiting == {"idle", "facts", "draftFacts", "draftCheck", "finalize"}
Resting == [at |-> "idle", job |-> NONE, copy |-> NONE, gen |-> 0]

Init ==
  /\ member = [j \in Jobs |-> [state |-> "none", cycle |-> 0, attempt |-> NONE, draft |-> 0]]
  /\ order = <<>>
  /\ retries = [j \in Jobs |-> 0]
  /\ job = [j \in Jobs |-> [prep |-> "saved", fits |-> FALSE, made |-> 0, inactive |-> FALSE]]
  /\ check = [j \in Jobs |-> NoCheck]
  /\ draft = [j \in Jobs |-> 0]
  /\ control = [halt |-> "on", gen |-> 0]
  /\ tick = Resting
  /\ acts = 0
  /\ owed = [j \in Jobs |-> 0]
  /\ restarts = [j \in Jobs |-> 0]

-----------------------------------------------------------------------------
Enrolled(j) == member[j].state # "none"
Active == {j \in Jobs : job[j].prep = "preparing"}
Resolved(j) == ~check[j].unread /\ check[j].open \subseteq {Decision}
Execution(j) == IF Resolved(j) THEN "complete" ELSE check[j].op
Ready(j) == ~check[j].unread /\ check[j].open = {}

\* A check that meets a newer check, answer or stop stores nothing.
Voided(c) == [c EXCEPT !.void = c.task # "none"]
\* A crash ends the promises; the stored state stays "checking" for its lease,
\* unless the check had not asked the model yet.
Killed(c) ==
  IF c.task = "none" THEN {c}
  ELSE {[c EXCEPT !.task = "none", !.void = FALSE],
        [c EXCEPT !.task = "none", !.void = FALSE, !.op = "unavailable", !.asked = FALSE]}

Rest == tick' = Resting

\* Something that happens to the server, not inside a synchronous stretch.
Act == /\ acts < MaxActs
       /\ acts' = acts + 1
Handler == Act /\ tick.at \in Awaiting

-----------------------------------------------------------------------------
(* The person.                                                                *)

NewCycle(j) == /\ retries' = [retries EXCEPT ![j] = 0]
               /\ restarts' = [restarts EXCEPT ![j] = 0]

\* create, for one job of the selection: new inputs are captured, so the review
\* and the artifacts of earlier ones no longer count.
Enrol(j) ==
  /\ Handler
  /\ control.halt = "on"
  /\ ~job[j].inactive
  /\ job[j].prep \notin {"queued", "preparing"}
  /\ member[j].state \notin {"pending", "running"}
  /\ member' = [member EXCEPT ![j] = [state |-> "pending", cycle |-> @.cycle + 1,
                                      attempt |-> NONE, draft |-> 0]]
  /\ order' = Append(SelectSeq(order, LAMBDA k : k # j), j)
  /\ NewCycle(j)
  /\ job' = [job EXCEPT ![j].fits = FALSE]
  /\ check' = [check EXCEPT ![j] = NoCheck]
  /\ owed' = [owed EXCEPT ![j] = 0]
  /\ UNCHANGED <<draft, control, tick>>

\* answered(), called by the routes that save an answer.
Answered(j) ==
  IF member[j].state \in {"question", "later"}
  THEN /\ member' = [member EXCEPT ![j].state = "pending"]
       /\ restarts' = [restarts EXCEPT ![j] = 0]
  ELSE UNCHANGED <<member, restarts>>

\* A clarification is saved, and a check that is running was asked without it; or
\* an omission is allowed, which only makes a new revision of the review.
Saved(k, c) == IF c = Decision THEN [k EXCEPT !.open = @ \ {c}, !.asked = FALSE]
               ELSE [Voided(k) EXCEPT !.open = @ \ {c}]
Answer(j, c) ==
  /\ Handler
  /\ check[j].review /\ c \in check[j].open
  /\ check' = [check EXCEPT ![j] = Saved(@, c)]
  /\ Answered(j)
  /\ UNCHANGED <<order, retries, job, draft, control, tick, owed>>

\* Narrower wording is chosen, or the accomplishment is retained: another text,
\* which nothing has checked.
Narrow(j, c) ==
  /\ Handler
  /\ check[j].review /\ c \in check[j].open
  /\ check' = [check EXCEPT ![j] = [Voided(@) EXCEPT !.open = @ \ {c}, !.unread = TRUE,
                                                     !.op = "unchecked", !.asked = FALSE]]
  /\ Answered(j)
  /\ UNCHANGED <<order, retries, job, draft, control, tick, owed>>

Defer(j) ==
  /\ Handler
  /\ member[j].state = "question"
  /\ member' = [member EXCEPT ![j].state = "later"]
  /\ UNCHANGED <<order, retries, job, check, draft, control, tick, owed, restarts>>

Retry(j) ==
  /\ Handler
  /\ member[j].state \notin {"none", "running", "pending"}
  /\ member' = [member EXCEPT ![j].state = "pending", ![j].cycle = @ + 1]
  /\ NewCycle(j)
  /\ check' = [check EXCEPT ![j].asked = FALSE]
  /\ UNCHANGED <<order, job, draft, control, tick, owed>>

\* Fault: the revision that was read before the save.
EditedBefore(j) == [member[j] EXCEPT !.state = "pending", !.cycle = @ + 1, !.draft = draft[j]]
\* The draft is saved, and then edited() enrols it again in a new cycle.
Edited(j) == [member[j] EXCEPT !.state = "pending", !.cycle = @ + 1, !.draft = draft[j] + 1]
Edit(j) ==
  /\ Handler
  /\ Enrolled(j) /\ job[j].fits
  /\ draft' = [draft EXCEPT ![j] = @ + 1]
  /\ member' = [member EXCEPT ![j] = Edited(j)]
  /\ NewCycle(j)
  /\ check' = [check EXCEPT ![j].asked = FALSE]
  /\ owed' = [owed EXCEPT ![j] = draft[j] + 1]
  /\ UNCHANGED <<order, job, control, tick>>

\* A person starts a check of the review by hand; it supersedes the batch's.
UserCheck(j) ==
  /\ Handler
  /\ check[j].review
  /\ check' = [check EXCEPT ![j] = [@ EXCEPT !.op = "checking", !.task = "user", !.void = FALSE]]
  /\ UNCHANGED <<member, order, retries, job, draft, control, tick, owed, restarts>>

\* Archived, restored, or the application moved on.
Track(j) ==
  /\ Handler
  /\ job[j].prep \notin {"queued", "preparing"}
  /\ job' = [job EXCEPT ![j].inactive = ~@]
  /\ UNCHANGED <<member, order, retries, check, draft, control, tick, owed, restarts>>

CancelJob(j) ==
  /\ Handler
  /\ job[j].prep \in {"queued", "preparing", "needs_input"}
  /\ job' = [job EXCEPT ![j].prep = "cancelled"]
  /\ UNCHANGED <<member, order, retries, check, draft, control, tick, owed, restarts>>

\* Stop, pause and start also come from the headless command, at any moment.
Stop ==
  /\ Act
  /\ control.halt # "stopped"
  /\ control' = [halt |-> "stopped", gen |-> control.gen + 1]
  /\ job' = [j \in Jobs |-> IF j \in Active THEN [job[j] EXCEPT !.prep = "interrupted"] ELSE job[j]]
  /\ check' = [j \in Jobs |-> Voided(check[j])]
  /\ UNCHANGED <<member, order, retries, draft, tick, owed, restarts>>

Pause ==
  /\ Act
  /\ control.halt = "on"
  /\ control' = [control EXCEPT !.halt = "paused"]
  /\ UNCHANGED <<member, order, retries, job, check, draft, tick, owed, restarts>>

Start ==
  /\ control.halt # "on"
  /\ control' = [control EXCEPT !.halt = "on"]
  /\ UNCHANGED <<member, order, retries, job, check, draft, tick, acts, owed, restarts>>

(* The queue and the evidence checks, as far as the batch sees them.          *)

\* A preparation ends: with a resume, or with a review that cannot be continued,
\* or without anything to review.
ReviewLeft(c, op, unread, open) ==
  [Voided(c) EXCEPT !.review = TRUE, !.op = op, !.unread = unread, !.open = open, !.asked = FALSE]
AttemptEnds(j) ==
  /\ job[j].prep = "preparing"
  /\ \/ /\ job' = [job EXCEPT ![j].prep = "resume_ready", ![j].fits = TRUE, ![j].made = 0]
        /\ UNCHANGED check
     \/ /\ job' = [job EXCEPT ![j].prep = "needs_input"]
        /\ \E op \in {"complete", "unavailable"}, open \in SUBSET (Claim \cup {Decision}) :
             /\ op = "complete" => open # {}
             /\ check' = [check EXCEPT ![j] = ReviewLeft(@, op, op = "unavailable", open)]
     \/ \E to \in {"failed", "interrupted"} : job' = [job EXCEPT ![j].prep = to] /\ UNCHANGED check
  /\ UNCHANGED <<member, order, retries, draft, control, tick, acts, owed, restarts>>

\* drain claims a job that was queued while processing was halted.
DrainClaims(j) ==
  /\ job[j].prep = "queued" /\ control.halt = "on" /\ Active = {} /\ ~job[j].inactive
  /\ job' = [job EXCEPT ![j].prep = "preparing"]
  /\ UNCHANGED <<member, order, retries, check, draft, control, tick, acts, owed, restarts>>

\* A check reads everything, or fails; the retry of a transient failure is
\* charged to the cycle, and asks nothing.
CheckEnds(j) ==
  LET c == check[j] IN
  /\ c.task # "none"
  /\ \/ /\ ~c.void
        /\ \E found \in SUBSET Claim :
             check' = [check EXCEPT ![j] = [@ EXCEPT !.op = "complete", !.task = "none", !.unread = FALSE,
                                            !.open = @ \cup (IF c.unread THEN found ELSE {})]]
        /\ UNCHANGED retries
     \/ /\ check' = [check EXCEPT ![j] = [@ EXCEPT !.task = "none", !.void = FALSE,
                          !.op = IF @ = "checking" THEN "unavailable" ELSE @]]
        /\ \/ UNCHANGED retries
           \/ c.task = "batch" /\ retries[j] = 0 /\ retries' = [retries EXCEPT ![j] = 1]
  /\ UNCHANGED <<member, order, job, draft, control, tick, acts, owed, restarts>>

\* The lease of a check that died with its process runs out.
CheckExpires(j) ==
  /\ check[j].op = "checking" /\ check[j].task = "none"
  /\ check' = [check EXCEPT ![j].op = "unavailable"]
  /\ UNCHANGED <<member, order, retries, job, draft, control, tick, acts, owed, restarts>>

-----------------------------------------------------------------------------
(* The coordinator.                                                           *)

\* A question needs a fact or a decision, not a check that could not be made.
Factual(j) ==
  /\ job[j].prep = "needs_input" /\ check[j].review
  /\ \/ Decision \in check[j].open
     \/ Execution(j) # "unavailable" /\ check[j].open # {}

Judging(j) == member[j].state = "running" /\ ~job[j].inactive /\ job[j].prep # "preparing"
Interrupted(j) == /\ job[j].prep = "interrupted"
                  /\ member[j].attempt # NONE /\ member[j].attempt = control.gen
Verdict(j) == IF job[j].prep = "resume_ready" THEN "ready"
              ELSE IF Factual(j) THEN "question" ELSE "technical"

\* Fault: only the time is looked at.
MayRetryWhileTimely(j, timely) == j \in timely
\* reserve(): one retry in a cycle, while its time lasts.
MayRetry(j, timely) == j \in timely /\ retries[j] < 1

\* The first half of a tick: the running members follow their jobs.
Judge ==
  /\ tick.at = "idle" /\ control.halt = "on"
  /\ \E timely \in SUBSET Jobs :
       LET again == {j \in Jobs : Judging(j) /\ Interrupted(j) /\ MayRetry(j, timely)} IN
       /\ member' = [j \in Jobs |->
            IF j \in again THEN [member[j] EXCEPT !.state = "pending"]
            ELSE IF Judging(j) THEN [member[j] EXCEPT !.state = Verdict(j)] ELSE member[j]]
       /\ retries' = [j \in Jobs |-> IF j \in again THEN retries[j] + 1 ELSE retries[j]]
  /\ tick' = [Resting EXCEPT !.at = "pick", !.gen = control.gen]
  /\ UNCHANGED <<order, job, check, draft, control, acts, owed, restarts>>

Pending(j) == member[j].state = "pending" /\ ~job[j].inactive
First(j) == \E i \in DOMAIN order : /\ order[i] = j /\ Pending(j)
                                   /\ \A k \in 1 .. i - 1 : ~Pending(order[k])

PickNothing ==
  /\ tick.at = "pick"
  /\ Active # {} \/ ~\E j \in Jobs : First(j)
  /\ Rest
  /\ UNCHANGED <<db, acts, owed, restarts>>

Picks(j) == tick.at = "pick" /\ Active = {} /\ First(j)
Await(place, m, j) == tick' = [at |-> place, job |-> j, copy |-> m, gen |-> tick.gen]
Save(j, row) == member' = [member EXCEPT ![j] = row] /\ Rest

\* Fault: the error is only logged.
CaughtQuietly(j, m) == Rest /\ UNCHANGED member
\* The catch of the tick.
Caught(j, m) ==
  IF member[j].cycle = m.cycle /\ member[j].state = "pending"
  THEN Save(j, [m EXCEPT !.state = "technical"])
  ELSE Rest /\ UNCHANGED member

\* An admitted preparation is launched; the member is saved right after.
Dispatch(j, m) ==
  /\ control.halt = "on" /\ Active = {} /\ job[j].prep # "queued"
  /\ job' = [job EXCEPT ![j].prep = "preparing"]
  /\ restarts' = [restarts EXCEPT ![j] = @ + 1]
  /\ Await("note", [m EXCEPT !.state = "running", !.attempt = control.gen], j)
  /\ UNCHANGED member

PickReady(j) ==
  /\ Picks(j) /\ member[j].draft = 0
  /\ job[j].prep = "resume_ready" /\ job[j].fits
  /\ Save(j, [member[j] EXCEPT !.state = "ready"])
  /\ UNCHANGED <<order, retries, job, check, draft, control, acts, owed, restarts>>

Prepares(j) == Picks(j) /\ member[j].draft = 0 /\ ~(job[j].prep = "resume_ready" /\ job[j].fits)

\* Without a review: the service prepares, refuses, or, when another process has
\* halted meanwhile, queues the job and returns no attempt.
PickFresh(j) ==
  LET m == member[j] IN
  /\ Prepares(j) /\ ~check[j].review
  /\ \/ Dispatch(j, m)
     \/ Caught(j, m) /\ UNCHANGED <<job, restarts>>
     \/ /\ control.halt # "on" /\ job[j].prep \notin {"saved", "queued"}
        /\ job' = [job EXCEPT ![j].prep = "queued"]
        /\ Await("note", [m EXCEPT !.state = "running", !.attempt = NONE], j)
        /\ UNCHANGED <<member, restarts>>
  /\ UNCHANGED <<order, retries, check, draft, control, acts, owed>>

\* With a review: its facts are refreshed, and a ready one is continued.
Continue(j, m) ==
  /\ check' = [check EXCEPT ![j].asked = FALSE]
  /\ IF ~Ready(j)
     THEN /\ Save(j, [m EXCEPT !.state = IF Execution(j) = "unavailable" THEN "technical" ELSE "question"])
          /\ UNCHANGED <<job, restarts>>
     ELSE \/ Dispatch(j, m)
          \/ Caught(j, m) /\ UNCHANGED <<job, restarts>>

PickReview(j) ==
  /\ Prepares(j) /\ check[j].review /\ Execution(j) \in {"checking", "complete"}
  /\ Continue(j, member[j])
  /\ UNCHANGED <<order, retries, draft, control, acts, owed>>

\* Wording without a check: one is started first, once in a cycle for a revision
\* of the review, and awaited.
PickCheck(j) ==
  /\ Prepares(j) /\ check[j].review /\ Execution(j) \in {"unavailable", "unchecked"}
  /\ \/ /\ check' = [check EXCEPT ![j] = IF check[j].asked THEN @
                     ELSE [@ EXCEPT !.op = "checking", !.task = "batch", !.void = FALSE, !.asked = TRUE]]
        /\ Await("facts", member[j], j)
        /\ UNCHANGED member
     \/ Caught(j, member[j]) /\ UNCHANGED check
  /\ UNCHANGED <<order, retries, job, draft, control, acts, owed, restarts>>

\* Fault: a stop is not looked for.
StillInCycle(j) == ~job[j].inactive /\ member[j].cycle = tick.copy.cycle
\* What the tick rechecks after the await.
StillWanted(j) == /\ ~job[j].inactive
                  /\ member[j].cycle = tick.copy.cycle
                  /\ control.gen = tick.gen /\ control.halt # "stopped"

\* A worker that became busy meanwhile is left to the next tick.
WorkerBusy(j) == Ready(j) /\ control.halt = "on" /\ Active # {}
Facts(j) ==
  /\ tick.at = "facts" /\ tick.job = j /\ check[j].task # "batch"
  /\ IF ~StillWanted(j) THEN Rest /\ UNCHANGED <<member, job, check, restarts>>
     ELSE \/ Continue(j, tick.copy)
          \/ /\ WorkerBusy(j)
             /\ check' = [check EXCEPT ![j].asked = FALSE]
             /\ Rest /\ UNCHANGED <<member, job, restarts>>
  /\ UNCHANGED <<order, retries, draft, control, acts, owed>>

Note ==
  /\ tick.at = "note"
  /\ Save(tick.job, tick.copy)
  /\ UNCHANGED <<order, retries, job, check, draft, control, acts, owed, restarts>>

-----------------------------------------------------------------------------
(* refreshDraft: an edited draft is checked and published.                    *)

Published(m) == [m EXCEPT !.state = "ready", !.draft = 0]

\* It leaves silently when the draft is newer than the edit it knows of, and
\* is done when the newest resume was made from it already.
PickDraft(j) ==
  LET m == member[j] IN
  /\ Picks(j) /\ m.draft # 0
  /\ IF control.halt = "stopped" THEN Caught(j, m) /\ UNCHANGED check
     ELSE IF m.draft # draft[j] THEN Rest /\ UNCHANGED <<member, check>>
     ELSE IF job[j].made = m.draft THEN Save(j, Published(m)) /\ UNCHANGED check
     ELSE \/ /\ tick' = [at |-> "draftFacts", job |-> j, copy |-> m, gen |-> control.gen]
             /\ check' = [check EXCEPT ![j] = Voided(@)]
             /\ UNCHANGED member
          \/ Caught(j, m) /\ UNCHANGED check
  /\ UNCHANGED <<order, retries, job, draft, control, acts, owed, restarts>>

Step(place) == /\ tick.at = place
               /\ UNCHANGED <<order, retries, check, draft, control, acts, restarts>>

\* The evidence of the draft was checked, or was not: drafts.check() will tell.
DraftFacts(j) ==
  /\ Step("draftFacts") /\ tick.job = j
  /\ IF StillWanted(j) THEN tick' = [tick EXCEPT !.at = "draftCheck"] /\ UNCHANGED member
     ELSE Caught(j, tick.copy)
  /\ UNCHANGED <<job, owed>>

\* Only the cycle is reread after drafts.check().
SameCycle(j) == member[j].cycle = tick.copy.cycle
DraftCheck(j) ==
  /\ Step("draftCheck") /\ tick.job = j
  /\ \/ Caught(j, tick.copy)
     \/ /\ ~SameCycle(j) /\ Rest /\ UNCHANGED member
     \/ /\ SameCycle(j)
        /\ \/ \E state \in {"technical", "question"} : Save(j, [tick.copy EXCEPT !.state = state])
           \/ tick' = [tick EXCEPT !.at = "finalize"] /\ UNCHANGED member
  /\ UNCHANGED <<job, owed>>

\* publishManualArtifact, under the guard, and the save that follows at once.
MayPublish(j) == /\ StillWanted(j) /\ draft[j] = tick.copy.draft
                 /\ job[j].fits /\ job[j].prep # "preparing"
Publish(j) ==
  /\ MayPublish(j)
  /\ job' = [job EXCEPT ![j].prep = "resume_ready", ![j].made = tick.copy.draft]
  /\ owed' = [owed EXCEPT ![j] = IF @ = tick.copy.draft THEN 0 ELSE @]
Finalize(j) ==
  /\ Step("finalize") /\ tick.job = j
  /\ \/ Caught(j, tick.copy) /\ UNCHANGED <<job, owed>>
     \/ Publish(j) /\ Save(j, Published(tick.copy))

-----------------------------------------------------------------------------
(* Crashes.  A server that starts again starts with a timer and a first tick. *)

Crash ==
  /\ Act /\ Rest
  /\ check' \in {f \in [Jobs -> UNION {Killed(check[j]) : j \in Jobs}] : \A j \in Jobs : f[j] \in Killed(check[j])}
  \* History: a preparation whose note died with the server is not counted twice.
  /\ restarts' = IF tick.at = "note" /\ tick.copy.attempt # NONE
                 THEN [restarts EXCEPT ![tick.job] = @ - 1] ELSE restarts
  /\ UNCHANGED <<member, order, retries, control>>
CrashAnywhere == Crash /\ UNCHANGED <<job, draft, owed>>

\* Between the publication and the save of the member.
CrashBeforeSave(j) ==
  /\ tick.at = "finalize" /\ tick.job = j
  /\ Crash /\ Publish(j)
  /\ UNCHANGED draft

\* Between the draft's save and edited(), which are two transactions.
CrashBeforeEdited(j) ==
  /\ Crash /\ tick.at \in Awaiting
  /\ Enrolled(j) /\ job[j].fits
  /\ draft' = [draft EXCEPT ![j] = @ + 1]
  /\ UNCHANGED <<job, owed>>

-----------------------------------------------------------------------------
Person == \E j \in Jobs :
  \/ Enrol(j) \/ Defer(j) \/ Retry(j) \/ Edit(j) \/ UserCheck(j) \/ Track(j) \/ CancelJob(j)
  \/ \E c \in Claim \cup {Decision} : Answer(j, c) \/ Narrow(j, c)
Pick(j) == PickReady(j) \/ PickFresh(j) \/ PickReview(j) \/ PickCheck(j) \/ PickDraft(j)
Awaited(j) == Facts(j) \/ DraftFacts(j) \/ DraftCheck(j) \/ Finalize(j)
Coordinator == Judge \/ PickNothing \/ Note \/ \E j \in Jobs : Pick(j) \/ Awaited(j)
Others == \E j \in Jobs : AttemptEnds(j) \/ DrainClaims(j) \/ CheckEnds(j) \/ CheckExpires(j)
Next == Person \/ Stop \/ Pause \/ Start \/ Coordinator \/ Others
        \/ CrashAnywhere \/ \E j \in Jobs : CrashBeforeEdited(j) \/ CrashBeforeSave(j)

Spec == Init /\ [][Next]_vars

\* The server ticks every 250 ms, promises settle, attempts end or expire, and
\* the queue drains (JobQueue's QueueDrains and AttemptsEnd).
Fairness == /\ WF_vars(Coordinator)
            /\ \A j \in Jobs : /\ WF_vars(AttemptEnds(j)) /\ WF_vars(DrainClaims(j))
                               /\ WF_vars(CheckEnds(j)) /\ WF_vars(CheckExpires(j))
FairSpec == Spec /\ Fairness

-----------------------------------------------------------------------------
(* Properties.                                                                *)

TypeOK ==
  /\ member \in [Jobs -> Member]
  /\ order \in Seq(Jobs) /\ Len(order) <= Cardinality(Jobs)
  /\ retries \in [Jobs -> 0 .. 1]
  /\ job \in [Jobs -> Job]
  /\ check \in [Jobs -> Check]
  /\ draft \in [Jobs -> Revision]
  /\ control \in [halt : {"on", "paused", "stopped"}, gen : Revision]
  /\ tick.at \in Place /\ tick.job \in Jobs \cup {NONE} /\ tick.gen \in Revision
  /\ tick.job # NONE => tick.copy \in Member
  /\ acts \in Revision
  /\ owed \in [Jobs -> Revision]
  /\ restarts \in [Jobs -> Nat]

\* A member that is shown as ready has a resume made from the last edit the
\* coordinator was told of, however edits, answers, retries and stops fell into
\* its awaits: "Disable approval until the displayed PDF matches current content".
ReadyIsLatestEdit == \A j \in Jobs : member[j].state = "ready" => owed[j] = 0

\* Between two acts of a person on a job, the coordinator prepares it at most
\* twice: once, and once more after an interruption, whatever crashes, answers of
\* checks and charged retries come between.  A preparation whose note was lost in
\* a crash is not counted, and is started again.
AutomaticRestartsBounded == \A j \in Jobs : restarts[j] <= 2

\* A tick that read a member before an await never saves it over the cycle a
\* person began meanwhile, and no cycle ever comes back.
SupersededNeverSaves == [][\A j \in Jobs : member'[j].cycle >= member[j].cycle]_vars

\* The coordinator publishes a draft only as it was last saved, in the cycle and
\* the stop generation in which it picked it, although it awaited three times.
PublishesOnlyWanted ==
  [][\A j \in Jobs : job'[j].made \notin {0, job[j].made} =>
       /\ job'[j].made = draft[j] /\ control.halt # "stopped" /\ control.gen = tick.gen]_vars

\* A draft whose save outlived a crash that its edited() did not: the tick returns
\* at it each time.
Stranded(j) == Pending(j) /\ member[j].draft \notin {0, draft[j]}
HeldUp(j) == Pending(j) /\ \E i \in Jobs : First(i) /\ Stranded(i)
Settled(j) == member[j].state \notin {"pending", "running"} \/ job[j].inactive

\* Unless processing stays halted, every member comes to be ready, to have a
\* question, to be deferred or to show a technical diagnosis, and no member keeps
\* those behind it waiting, since a member that fails leaves the queue.  The one
\* exception is a stranded member at the head of the queue: it holds up itself and
\* who waits behind it, but nobody before it and no preparation that runs.
BatchSettles ==
  <>[](control.halt = "on") => <>[](\A j \in Jobs : Settled(j) \/ HeldUp(j))

=============================================================================
