# Verification of featherduster

featherduster prepares resumes: it takes in job postings, asks a language model to assess and tailor
a resume against captured evidence, checks every claim against that evidence, renders the result and
keeps the versions. This directory holds TLA+ modules of the parts of it that are concurrent and
durable, TLC configurations that check them on small instances, and TLAPS proofs of what matters
most for every instance. Paths below are relative to `packages/` of the repository.

## 1. The system

| Part | State | Operations | Talks to |
|---|---|---|---|
| Preparation queue (`cli/src/jobs/{repository,worker,service,fit}.ts`) | SQLite tables `jobs`, `attempts`, `input_snapshots`, `checkpoints`, `artifacts`, the row `worker_control`; per process one `JobWorker` | request, claim, heartbeat, checkpoint, publish, complete/fail/block, stop, pause, cancel, recover, drain, fit assessment, edits, tracking | every process that opens the database; pipelines by callback and abort signal |
| Evidence checks (`semantic-repository.ts`, `semantic-service.ts`) | tables `semantic_*`; per process the maps `running` and `activeId` | start, replay, reserve, complete, fail, finish, clarify, view | the queue's revision and stop generation; the model runner; the batch budget |
| Draft file lock (`cli/src/tailoring/drafts/locks.ts`) | a directory of `n.owner` and `n.owner.done` files | take, clean, act, release | every process that writes a draft, a journal or a run file |
| Draft journal and store (`drafts/operations.ts`, `drafts/repository.ts`) | one JSON file per draft with 32 receipts; one journal file per operation | execute in phases, lookup, recover; update, retry, discard | the lock; run files |
| Preparation batches (`preparation-batch-repository.ts`, `preparation-coordinator.ts`) | tables `preparation_{batches,members,cycles,operations}`; one running tick | create, tick, answered, retry, edited, reserve | the queue, the evidence checks, reviews and drafts |
| Proposal reviews and finalization (`proposal-*.ts`, `draft-finalization.ts`, `automatic-repair.ts`) | review and generation tables | continue, patch, refresh facts, publish | the queue's admission, the evidence checks |
| Pipeline and artifacts (`preparation.ts`, `artifacts.ts`, `files.ts`, `exports.ts`) | bundles on disk, checkpoints | staged run with resume from checkpoints, atomic bundles | the queue's fence |
| Jobs runtime (`runtime.ts`, `routes.ts`, `intake.ts`, `importer.ts`, `cli/src/commands/jobs.ts`) | event cursor, listeners | capture inputs, assess fit, flush events, dispose | all of the above |
| Browser autosave (`ui/src/tailoring-drafts`) | sequences, one pending mutation, browser recovery | edit, flush, replay, reconcile, resolve | the draft store's tokens and receipts |
| Tailoring runs (`cli/src/tailoring/orchestrator.ts`, `store.ts`) | manifest per run, one in-memory flight | start step, cancel, save, apply, recover | runners, drafts |
| Evidence corpus (`cli/src/corpus`, `core/src/corpus`) | revisions and updates | correct, retract, scope | fit, proposals |
| Watcher, server, settings, sign-in | debounce buffer; sign-in job and child | events, login, cancel | the browser |
| Runners, renderers, core algorithms, views, scripts | none that is shared | pure functions, child processes, presentation | - |

What makes the system hard: several processes (the server and the headless command) share one
database without a daemon; ownership is a lease that can expire under a live owner; pipelines and
model calls outlive the decision that stops them; every decision is read in one transaction and
acted on in a later one; processes die between any two steps; and a handful of idempotency receipts
decide whether repeated work is paid for twice. In the browser, several pages edit one draft over a
connection that loses requests and answers. `PROJECT.json` lists each such place with its line and
the property that covers it, or says why none does.

What makes each part correct:

- queue: one preparation at a time; rows of jobs and attempts that agree; output only from the
  owner; one outcome per attempt; nothing started while halted; ready only if published; stale
  marked; waiting jobs and abandoned attempts both get their turn.
- evidence checks: limits of calls hold; no call is lost without a trace or paid twice; a check
  is complete only if everything was read and no result is older than what it is about; no check
  hangs.
- lock: mutual exclusion, no lost generation, no lock that a crash keeps.
- journal and store: an operation happens entirely and once, whatever crashes; nothing overwrites
  what its author has not seen; an operation that was promised comes to an end.
- batches: a member that is ready published the newest edit; automatic restarts are bounded; a
  superseded coordinator saves nothing and publishes nothing unwanted; a member never waits for ever.
- prepared resumes: everything an attempt takes over was made from the same inputs; what is
  published is what was reviewed, is current when it is published, and gives way to a person's edit.
- autosave: no acknowledged edit is lost, none overwrites a version its author has not seen, what
  the page calls saved is what the server holds.
- tailoring runs: one flight, none that a restart leaves running; what is reviewed and completed
  stands on what it was made from and was approved.

## 2. Modules

| Module | What it is |
|---|---|
| `JobQueue` | the queue: repository, workers, service, fit assessments, pipelines, processes |
| `PreparationSlot` | what the queue promises: a slot that attempts take once, produce in, and leave with one outcome |
| `JobQueueProofs` | the safety of the queue: its types, the slot with the refinement of `PreparationSlot`, and the rows |
| `DraftLock`, `DraftLockProofs` | the lock, one system call per step; its exclusion and availability proved |
| `SemanticCheck`, `SemanticCheckProofs` | the evidence checks of one job in several processes; their safety proved |
| `DraftJournal`, `DraftJournalProofs` | journalled operations on drafts and run files, in several processes that crash; their safety and the refinement of `DraftStore` proved |
| `DraftStore` | what the journal promises: an operation happens at once or not yet |
| `PreparationBatch`, `PreparationBatchProofs` | batches, their members, and the coordinator's tick; their safety proved |
| `PreparedResumes`, `PreparedResumesProofs` | how one job's resume is prepared, reviewed, continued, repaired and published; its safety proved |
| `TailoringRun`, `TailoringRunProofs` | the four-step runs of the server; their safety proved |
| `DraftAutosave`, `DraftAutosaveProofs` | the pages of the browser that edit one draft; their safety proved |
| `MCJobQueue`, `MCDraftLock`, `MCDraftJournal`, `MCDraftAutosave` | symmetry sets, bounds and the values of structured constants for TLC |

How they fit together. `JobQueue` shows what an attempt is worth: one owner, one outcome, no output
from a zombie. `PreparedResumes` takes that for granted and follows what the attempts of one job make of each
other's work; `PreparationBatch` takes it for granted too, with what `SemanticCheck` shows of a
check, and follows what is decided from them. `DraftLock` shows that a lock excludes and comes free
when its holder dies; `DraftJournal` uses such locks; `TailoringRun` uses operations that happen at
once or stay planned, which `ImplementsStore` shows of the journal; `DraftAutosave` talks to a store
that compares revisions and remembers receipts, which are the journal's too.

`PROJECT.json` maps every definition that models code to its lines. An operator commented `Fault:`
is a deliberately wrong variant of the definition after it: it is in no specification, and replacing
the definition by it must break the property named beside it in `PROJECT.json` (`mutants`).

### 2.1 JobQueue

State. `job`, `attempt`, `input` and `control` are the tables; `attempt` carries whether the attempt
has a checkpoint and a published artifact, `control` is the row of `worker_control`. `proc` is the
memory of each process: whether it is up, closing or down, where its worker is (`idle`; `loop`, the
top of drain's loop; `picked`, between drain's reads and its claim; `exec`, in an attempt drain
claimed; `launched`, in one the service launched), what drain read, and whether its
`AbortController` fired. `run[a]` is the process in which the promise of the pipeline of `a` is
still alive, which outlives the supervision of `a`: a stopped, expired or superseded pipeline goes
on checkpointing and publishing, and only the fence keeps it out.

Actions. Each repository method is one IMMEDIATE transaction and one action with all it changes,
including the in-memory part the same synchronous handler performs (`StopProcessing` aborts the
local execution, `Request` launches, `ClaimAndLaunch` recovers nothing because a request with an
active attempt is refused). `Wake` contains the recovery of expired attempts drain begins with;
`DrainPick` merges its successive reads, which `DrainClaim` rechecks in a transaction as `claimJob`
does; every failed recheck goes back to the loop or leaves it as the code does. `ExecBegin`,
`Heartbeat`, `Deadline`, `ExecComplete`, `ExecFail`, `ExecBlock` and `ExecAborted` are `execute`;
`SaveCheckpoint`, `PublishArtifact` and `PipelineEnd` are what a pipeline does, supervised or not.
`Tick` shortens leases; `Exit` is a crash or the end of a process, `Restart` a new one.

Abstractions, and why they lose nothing the properties see:

- A lease is the number of ticks left, so time is relative and finite.
- `owner_token` is the identity of the attempt: tokens are random and never reused.
- Revision checks are left out: a stale request is refused and changes nothing, which is a stutter.
  So are receipts: a repeated key returns the recorded result and launches nothing.
- Fit inputs (schema 2) and material inputs (schema 3) take the same transitions and are one kind,
  `"fit"`. Hub and discovery jobs never enter the queue. The edges `skip` and `override` have no
  caller.
- A request names a snapshot `captureInputs` returned; drain may also fail to resolve an input and
  then blocks the job (`BlockUnresolved`).
- Whether a review exists that must be continued by its own route is left to the user's choice of
  what to request.
- The order of `listJobs` is a nondeterministic choice.
- The wake that follows `startAutomaticPreparation` is the action `Wake`, which may also happen at
  any idle moment; this over-approximates a process that does not drain.
- A worker answers requests only when its JavaScript is not inside drain's synchronous part or the
  head of `execute` (`Responsive`).

### 2.2 PreparationSlot

Three variables: the owner of the slot, the outcome and the output of each attempt. `Acquire`,
`Release` (which may hand the slot over at once: recovery and claim are one transaction) and
`Produce`. `JobQueue!Slot` instantiates it with `slotOwner`, `slotOutcome` and `slotOutput`.

### 2.3 DraftLock

`owner[n]` and `done[n]` are the files of generation `n`, holding the call (nonce) that linked them.
Each call that changes or lists the directory is a step of its own: scan, link, confirm (the second
scan), withdraw, list, one unlink at a time, act, release. The reads of one probe (owner, done, the
signal to the owner's process) are one step. A process may die between any two steps, and the
identifiers in `Reused` may be given to a new process, for which `dead()` then answers no. Left out:
the symlink refusals and the check for the lock file of an older version, both before the lock is
tried; `readdir` is assumed to be atomic.

### 2.4 SemanticCheck

`ops`, `calls`, `lease`, `records`, `head` are the tables of one job; `rev` and `gen` are the job's
revision and the stop generation; `tasks` are the promises `start` launches, in the order of
launching, and `active` is the pair of maps `running`/`activeId`. A task waits for the one it
replaces (`waits`), executes (`begins`, `next`), has a call open (`asked`), is between a transient
failure and the second reserve (`again`), has the second call open (`retried`), or is over. Whether a
transient failure is asked again depends on what `beforeDispatch` answers (the job is enrolled with the
inputs of the check), not on how the check was started; the answer is read there only, so both happen. `Shown`
is what `operation()` answers.

`execute` awaits nothing but the classifier, so a task runs from one answer to the next question
without interruption by its own process, and a continuation that is due (a microtask) runs before the
process takes a new request. `Idle`, `Free` and `MayProceed` say this; another process may act in
between.

Abstractions: one batch is one passage; a resume is a set of passages; the reads of `start` and the
transaction of `begin` are one step, which the two revisions the request carries make sound (if
either changed in between, `begin` refuses); a key is replayed by the process that used it or by its
successor; `MayFail` lets every refusal happen (runner, consent, rules, redaction, budget); the batch
budget is one of those refusals; a settled task keeps no data.

### 2.5 DraftJournal and DraftStore

State. The files of the workspace that processes share: the record of each draft with its revision,
its receipts and its pending operation, the run files that belong to it, and the journal files. Each
process is at most in one call of `execute`, a guarded save or a recovery, with the locks it holds
and what it has read.

Actions. `execute` takes the draft's lock, the identity's lock and the sorted path locks, checks the
receipts and the sources, publishes the journal, writes each output, marks each phase, commits the
record and removes the journal; each of these that other processes can see is a step, and a process
may die between any two. `Recover` is what a process does at its start with every journal it finds. Browser
saves, adoptions of legacy runs and continuations are the other callers. People and tools change run
files behind the program's back (`Outside`); a change that falls between a check and the rename that
follows it is a step of its own (`LoseOutside`), since no file system call could prevent it.

`DraftStore` is what this is for: `Promise` binds an operation to a draft, `Settle` makes it happen
with all its outputs, and meanwhile nothing else happens to the draft. `ImplementsStore` checks it,
with the history of a draft and its files as they will be once the journal is carried out.

Abstractions: the request hash of a receipt is compared through the journal; the first `read()` is
part of entering; trying a lock and the read under it are one step; outputs are written in any order;
the two validations of `writeRunArtifactAtomic` are one; the snapshot a continuation is made from and
the output file of a completion are left out, as are discarding a draft and creating one from a seed.

### 2.6 PreparationBatch

State. The rows of the batch's members, in order; the retries of their cycle; of each job what the
queue and its artifacts hold; its review and last evidence check; its saved draft; `worker_control`;
and `tick`, where the coordinator is and what it has read.

Actions. A tick judges the running members, picks the next one, and then awaits facts, the draft's
facts, its check, or finalization; after each await it rereads what the code rereads and no more.
Between the launch of an attempt and the row that records it a crash may come (`note`). The person
creates batches, answers questions, takes the narrower wording, defers, retries, edits, stops, pauses and
cancels; attempts and checks end as the queue and the checks promise; another process drains.

Abstractions: one row per job; a refusal of the runner and a change of inputs are a `Caught` that may
always happen; the budget of model calls and the elapsed time are a failure and a `timely` that are
chosen; a member that needs input but has no proposals behaves like a failed one; a crash restarts at
once; preparation and finalization by hand are left out. `MaxActs` counts every intervention.

### 2.7 PreparedResumes

State. Of one job: the newest input snapshot, what is known of each text's claims, the job row, the
halted flag, the active review, the attempts with their input, the review they were started from and
their checkpoints, the memory of the newest pipeline, and the published resume.

Actions. The pipeline's stages run from checkpoint to checkpoint (`Study`, `Select`, `Generate`,
`Checked`, `TakeProposals`, `Layout`, `Laid`, `Produce`, `Publish`, `Block`); people save and decide
reviews, correct the base, refresh facts, capture inputs and request, continue or recover attempts;
`Drain` prepares what was requested while processing was halted; `Lose` is every way an attempt ends
without an output.

Abstractions: revision numbers are left out, requests name the newest inputs or those of the last
attempt, which is what the pages send; publication and completion are one step (`JobQueue` has the
gap between them); failed, interrupted and cancelled are one; a pipeline that lost its attempt writes
nothing, which `JobQueue` shows; preflight and verify save constants and are left out; refusals of consent, runner or
alignment are a `Block`; a resume has at least one passage, facts start afresh under new inputs, and a
decision is about the text of the active review. A structural repair is the second version of the
initial validation.

### 2.8 TailoringRun

State. The files and the draft of each run, the plan an interrupted publication leaves, the
`startStep` requests with the executions they launched, and the flight.

Actions. The handlers are synchronous but for two awaits, at the runner's detection and at its
answer; everything else of a request is one step. A publication happens at once or leaves a plan; everything
else on the run is then refused until the client repeats the request or a start recovers it.

Abstractions: one server; a request whose draft moved meanwhile is dropped at once; asking again is
one answer; a change of a file behind the program is a flag; adoption of legacy runs, forks,
continuation, the derived state of a run, broken manifests and locks of other processes are left out.

### 2.9 DraftAutosave

State. Of each page: its coordinator (status, sequences, the pending mutation, timers, deferred
versions, conflict) and its key of the browser's storage; of the server: the `log` of versions, whose
length is the revision; requests that are still on the way though nobody waits for them; whether the
storage is full; which payloads are refused as invalid.

Actions. Every method of the coordinator with its awaits: edit, change of context, flush, replay of
the pending mutation, the answer and each way it can fail, server events before and after the
acknowledgement they overtake, reconciliation, conflicts and their resolution, forks, loading another
tab's copy, and commands that replace the draft. Pages hear of each other's snapshots. A failure on the way back
depends on what was waited for (`CallFailed`): a lost save is tried again by the timer, but when the refresh after a
refused context save fails, the refusal stands and the page enters a conflict without a timer
(`coordinator.ts:231-258`; the cases 'missing' and 'workspace' of `tailoring-coordinator.test.ts:162-179`).

Abstractions: the workspace is confirmed before each request; timers that find nothing to save are left
out; sequences are only compared; one context key; a snapshot written again unchanged is not announced;
a dialog offers the copies that are in the storage when the choice is made; a page is loaded once; a
discard, a synchronization and a completion are one command, refused while the journal is busy.
`bound \in Bounds` fixes, at the start, how many pages there are and how often each thing happens: one
run explores several instances.

## 3. Runs

| Run | Instance | Distinct states | Question |
|---|---|---|---|
| `QueueEdits` | 1 job, 2 attempts, 2 inputs, 1 process, 1 stop, archiving | 3.8 M | Is a ready resume always published and unmarked, does an assessment give back what it borrowed, and is an archived job left alone, under every order of edit, stop, cancel, expiry, completion and finalization? |
| `QueueProcesses` | 1 job, 2 attempts, 1 input, 2 processes, 1 stop | 1.7 M | Does the queue implement the slot, start nothing while halted and run all it claims, when the server and the command interleave, crash and restart? |
| `QueueWaits` | 1 job, 2 attempts, 1 input, 1 process, 1 stop, tracking, fair | 0.9 M | Does a queued job get its turn, and does every attempt end, whoever dies? |
| `LockContention` | 4 calls, 3 processes, 2 tries, 5 generations | 0.8 M | Does the lock exclude and come free, also when a call gives up after its last try? |
| `JournalOperations` | 2 processes, 3 drafts, 2 operations, 1 browser save, 1 receipt kept, 1 crash, 1 guarded save, 1 outside edit, fair | 0.5 M | Does an operation happen entirely and once, overwrite nothing unseen, and come to an end? |
| `EvidenceChecks` | 2 processes, 2 passages, 2 checks, 3 tasks, 1 edit, refusals, fair | 0.5 M | Do completeness, currency and single asking hold, and does every check come to an end in every view? |
| `BatchMembers` | 2 jobs, 1 claim, 4 interventions, fair | 3.1 M | Is a ready member's resume the newest edit, are restarts bounded, does a superseded coordinator publish nothing, does every member settle? |
| `BrowserDrafts` | 2 pages, 2 edits and 1 choice or 1 fault; 1 page, 3 edits, 1 choice, 1 fault | 3.3 M | Is no edit lost or overwritten unseen, and is what is shown as saved saved? |
| `TailoringRuns` | 1 run, 2 requests, 2 edits, 1 fault, fair | 0.6 M | Is there one flight, does what is reviewed stand on what is there, is only the approved completed, does every step end? |
| `PreparedResumes` | 2 texts, 3 attempts, 2 inputs, 1 repair, 1 support | 5.3 M | Do attempts take over only what fits, and is what is published reviewed and current? |
| `TransientRetry`, `UncheckedContinuation` | small | - | two places where the code departs from what it says (section 6) |

Bounds. Each is a constant and a guard, and is large enough for the case that matters. Queue: two
attempts let a zombie of the first meet the second; two inputs let a stale one meet a current one; one
stop separates two generations; a lease of one tick is either live or expired. A second process adds
crashes and unsupervised pipelines. One job is enough for what is about a job; that several compete
for one slot is proved for any number (section 4). Evidence checks: three tasks make a third check arrive while a second waits for the first;
`MaxEdits` counts edits, answers and stops together, since each supersedes a check in the same way.
Lock: two tries and five generations let a stale contender link a generation that was deleted and
lose twice. Journal: one receipt makes the second mutation push out the first, as the 33rd does in the
code; one crash meets every pair of steps (of the one process in `Mortal`: processes are alike), and
the other process or the same one after its restart recovers. Batches: four interventions let a person act, a crash follow, and a person act on what it
left, with another job in the queue. Browser: with two pages one edit can meet another; three edits on
one page reach an edit made while a newer one waits behind a request. Runs: two requests compete for
the flight; two edits let one undo what another was based on. Resumes: three attempts let one be
interrupted, the next continue it and a third continue that; two inputs make the first outdated.

Deadlock. It is checked in the runs of the queue and of the batches. The other specifications stop
where the system may: calls, checks and repairs are finite in number, a person need not act, and when
nothing is left to do nothing happens (`CHECK_DEADLOCK FALSE`).

Symmetry is used for safety only: jobs, attempts and inputs, lock calls, processes whose identifier
is or is not reused. The processes of the queue are not interchangeable, since only some drain.

Fairness is only what timers, settled promises and restarts give; users, models, heartbeats and
crashes owe nothing.

- queue (`Fairness`): the clock; the worker's next synchronous step (the reconciliation interval
  wakes it every five seconds); the head of `execute`; the end of an aborted one; the preparation
  deadline. A pipeline need not ever answer. Premise of both liveness properties (`ServerStays`):
  some process that drains ends up staying alive. Without any, nothing can be promised.
- evidence checks: a promise that can continue does (the classifier has its own timer, so an answer
  or a failure comes), and leases expire.
- journal: a process in a call goes on, one that crashed restarts, and a start recovers. A client
  that repeats an operation gets through in the end (strong fairness, since locks may refuse it any
  number of times in between): the pages retry what was not acknowledged.
- batches: the coordinator's timer and its continuations, and what the queue and the checks promise
  (`QueueDrains`, `AttemptsEnd`, `ChecksEnd`): attempts end, drain claims, checks end or expire.
- runs: a detection and an answer of the runner come, or their timeouts do.

## 4. Proofs

All are for arbitrary sets and bounds under the named assumptions on the constants
(`ConstantsAssumption`, `LockAssumption`, `SemanticAssumption`, `JournalAssumption`, `BatchAssumption`,
`RunAssumption`, `PreparedAssumption`, `NullAssumption`, `BoundsAssumption`, `NoneAssumption`), which say
only that NONE is not a member of what it stands for the absence of, that plain texts are texts, that
bounds are naturals, that leases, tries, postings and limits are positive, and that resumes are sets of
passages. TLC evaluates them in the runs.

- `JobQueueProofs`, in three parts.

  Types. `TypeCorrect` is `Spec => []TypeOK`. `TypeOK` alone is not inductive: what a fit
  returns and what a claim copies come from input rows, so the invariant is `TypeInv`, `TypeOK`
  with `Bound` (an attempt that began names a job and an input, a job's current attempt is one of its
  own, and what a worker remembers exists). Each group of actions has a lemma (`EditTypes`,
  `UserTypes`, `DrainTypes`, ...), and the helpers `Prepared`, `Closed`, `Released` and `Settled` have
  lemmas of their own.

  The slot. The invariant is `OwnershipInv`, `OwnershipAgrees /\ SingleActive /\
  FreshIsEmpty` (an attempt that never began has left nothing). Every step is shown to be of one
  kind (`StepKind`): it `Ends` active attempts, `Produces` output of a fenced one, `Starts` one when
  the slot is free, or leaves the attempts alone (`EveryStepHasKind`). The kinds keep the invariant,
  and map to `Release`, `Produce`, `Acquire` and stutters of the slot. Hence `OwnershipAlwaysAgrees`,
  `AtMostOneActive` (from the claim's own check, without the unique index of the database) and
  `QueueImplementsSlot`.

  The rows. `StateInv` says that rows match
  (`Matching`), that what a fit will return is good (`GoodReturn`) and that each row is
  (`GoodRow`, with `Published`): a ready resume can only come back from a fit if it was good when it
  was captured. For what is started, steps are again sorted into few kinds (`StartsNothing`, `Launches`,
  `DrainStarts`). `ClaimsAreAlwaysRun` needs who executes an attempt: a worker leaves it only when it
  may not write any more, and a claim puts it into a worker in the same step. `FitAlwaysReturnsReady` uses what `RestoredRow` gives back and the kinds of
  `Returns`.
- `DraftLockProofs`: `LockInv` says that a holder's generation carries its name and is the highest
  (`Held`), that a generation linked but not confirmed is still there or lies below a newer one
  (`Linked`, with `Below`), what a probe and a link may still believe (`Probing`, `Linking`), that a
  cleaner's list is all below it (`Cleaning`), that a file that is there is accounted for by a call
  that holds it, is confirming it, or is over (`Named`, `Accounted`, `Processes`). The heart is that
  the highest generation never disappears: the confirming scan sees any generation a stale
  contender jumped over. `Named` also says
  that no file names a refused call. Hence `LockExcludes`, `QuietLockIsFree`, `RefusedCallsOwnNothing` and
  `NewestIsNeverRemoved`.
- `SemanticCheckProofs`: `CheckInv` is `TypeOK` with three parts. `LineInv`: the tasks of a service
  stand in a line, all but the newest are doomed, what an older one still has to do it does before
  the newer begins, and a check whose call failed is closed. `ReadInv`: what was read is recorded for
  the newest unchanged check. `SpendInv`: a call belongs to one service, was not asked before, is asked once.
  `NextIsStep` reduces the actions to a few kinds of steps. Hence `CompleteIsAlwaysChecked`,
  `OpenCallIsAlwaysLeased`, `OneTaskAlwaysAsks`, `ChecksSpendOnce` and `ResultsStayCurrent`.
  `CallsStayWithinLimit` is an invariant of its own: only a reserve adds a call, to one cycle, which it counted.
- `TailoringRunProofs`: `RunInv` says where requests stand (`Placed`), that the flight is
  the one request that executes (`FlightInv`, `Executing`), and that what a step is made from is what the
  steps before it contain (`Contents`). `FilesChange`, `DraftMoved` and `PublishedCurrent` are the lemmas about the
  helpers. Hence `OneFlightAlways`, `ReviewedStaysCurrent` and `CompletionIsApproved`.
- `PreparedResumesProofs`: `PreparedInv` is `TypeOK` with four parts. `Rows`: an attempt that selected a
  review has its inputs, the review came from an older attempt that had saved its analysis and alignment,
  and checkpoints carry a text from the proposals on (`Selections`, `Texts`, and `SameGround` itself).
  `Reviewed`: the active review is not of newer inputs than the newest attempt. `States`: a job is
  preparing exactly while a pipeline runs, and a queued job's review is outdated, which is why a drain
  may generate anew. `Working`: what a pipeline holds fits the rows and the active review (`Continues`,
  `FromReview`). Steps are of four kinds with a lemma each: `QuietStep`, `EndedStep`, `RunningStep`,
  `BegunStep`. Hence `SameGroundAlways`, `ReviewedIsAlwaysPublished`, `PublishedStaysCurrent` and
  `EditsAlwaysGiveWay`.
- `DraftJournalProofs`: `JournalInv` carries three of the properties themselves
  (`OneDraftPerOperation`, `PendingIsCurrent`, `AppliedOnce`) and what they need. `Exclusive`: two
  processes that hold the lock of a draft, of an operation's identity or of a file are one; locks are
  let go one by one, so each has a mutual exclusion of its own. `Processes`: what a process remembers
  fits the disk (`Fits`). The operation it executes is the pending one or may become it, and is not
  committed (`Acts`); the locks it holds are those its place needs (`Holds`); between the last check of a
  guarded save and its write nothing has become pending (`Writes`); and what a request says of its draft
  was true at the revision it expects (`Known`), which makes a completion that is checked late
  complete the present artifact. On disk: whatever a history or a file says of an operation, its journal
  is there (`Journalled`); a save stands in the history where it was made for (`Placed`, so it cannot
  happen twice however few receipts are kept); record and files agree as soon as the record has the
  operation, which is before its journal says so (`Matched`). Crashes keep all of it, since the
  conjuncts about the disk speak of no process. Hence `OneDraft`, `PendingStaysCurrent`,
  `NothingAppliedTwice`, `FilesMatchRecord` and `NothingOverwrittenUnseen`. `JournalImplementsStore` shows the
  refinement action by action: publishing the journal is `Promise`, the commit of the record is `Settle`,
  writing an output or marking a phase is a stutter because the abstract files are those the pending
  operation will have written, save that a write over an edit made after its check is `LoseOutside`.
- `PreparationBatchProofs`: `BatchInv` is about what a tick remembers over its awaits. `Ticks`: the copy
  it took is the member's row as long as the cycle is the same, and no copy is of a later cycle. `Owing`:
  an edit that is owed is the one the member knows, what was published is not it, and a member that is
  ready or running has no draft left. `Counted`: a job was started at most as often as retries were
  charged, and once more when it is not waiting. Every step keeps the invariant and never lowers a cycle
  nor publishes what was not wanted (`Rising`, `Wanted`), which are shown together because both rest on
  what the tick's copy is worth. Hence `ReadyMembersAreCurrent`, `RestartsAreBounded`, `CyclesOnlyRise` and
  `PublishedAsWanted`.
- `DraftAutosaveProofs`: what is said of a page is said of a record and a world (the log, what descends
  from what, which payloads are safe because they are saved or nobody owes them, what the storage
  holds), so that each method is dealt with once (`ReconcileGood`, `FinishedGood`, `AcknowledgedGood`,
  `FailedGood`, ...) and holds wherever it is called. Worlds only grow (`Grows`), and what is true of a
  page in one is true in a larger one (`GoodGrows`), so another page's step or the server's needs no
  case for each field. `Good` says of a page that its counters are in order (`Counts`), that it has the
  request and the answer its place needs (`Talks`), that what the request on its way was made of is still
  there (`Remembers`), that what it has nothing to save of is what its version says (`Shows`, unless it
  was opened offline on copies that differ and waits for a choice), that its content was made from its
  version's (`Based`), that its mutation id was drawn for what it shows, or both are saved (`Named`,
  which makes the removal of a snapshot by its id safe), that what it adopted or may choose is known, and
  that its snapshot and its browser sequence tell the truth (`Stores`, `Covers`). A version in the log is
  what its request made of the version before (`Follows`), and a request that anybody may still
  deliver is one that may be served at any time (`Sound`): it expects an old revision, and is refused, or
  the present one, and is based on it. `BecomesKeeps` shows once, for all actions, what becomes of the other
  pages and of the edits that are owed. Hence `SavesSeeWhatTheyReplace`, `EditsAreNotLost`,
  `CommandsStartOnWhatIsSaved` and `SavesAreScheduled`.

A few theorems state what no run repeats, because it is proved and a run would add nothing:
`OwnershipAgrees`, `AtMostOneActive`, `DrainOnlyClaimsEligible`, `NewestIsNeverRemoved`,
`RefusedCallsOwnNothing`, `CallsStayWithinLimit`, `CyclesOnlyRise`, and the types.

Only model-checked: the liveness properties (`QueueDrains`, `AttemptsEnd`, `OperationsSettle`,
`ChecksEnd`, `BatchSettles`, `RunsEnd`), since fairness and ENABLED are outside the prover's reach; the
types of `PreparationBatch` as a whole (the invariant has those the properties need; that a queue from
which a member was filtered out is still a queue of jobs is an induction over `SelectSeq`); and the two
runs that show a violation. Every other property of a run is a theorem. No model uses a recursive
operator.

## 5. What the checks show

The queue's durable protocol holds up: whichever of stop, cancel, expiry, completion, crash and
finalization comes first, one attempt owns the slot, its first outcome stands, zombies are fenced
out, and a ready resume is a published one. The lock's generations exclude and come free although
contenders may act on listings that are long out of date. A stored evidence result is of the newest
check of an unchanged job, a complete check has read everything, and limits are kept. A journalled
operation happens entirely and once through any crash; batches spend what they are allowed and
settle, but for one crash (below); attempts build only on work of the same inputs; the browser loses no edit; runs have one flight.

Behaviour worth knowing, which contradicts nothing the repository says and which the models have:

- journal: `execute` publishes the journal before its first check of sources and outputs. An
  operation built from a file that somebody changed meanwhile is journalled and conflicts for ever,
  which blocks the draft until the file is restored. Operations whose identifier the server draws are
  only retried at the next start.
- batches: an answer given while a check is awaited supersedes it and the member ends `technical`
  though nothing failed; so does a pause at that moment, where a stop leaves the member pending. A
  crash during a check leaves a question with nothing to answer. A draft is saved and the coordinator told of it in
  two transactions (`routes.ts:163-164`): after a crash between them, of a member that was pending with the draft
  before, `refreshDraft` returns at every tick (`preparation-coordinator.ts:132`), `retry` refuses the pending
  member, and the members behind it are never picked, until the draft is saved again or the job given
  up. `BatchSettles` says exactly whom that may hold up (`Stranded`, `HeldUp`). A request while processing is halted leaves the member running without an attempt; it turns `technical`, and drain prepares the job later all the same. A
  cancelled job whose member is pending is prepared again. A crash between a launch and its row
  prepares again without having reserved a retry.
- resumes: a layout repair in a continued attempt always fails after it was charged, since the
  review it appends to belongs to an earlier attempt. When facts change after a review was ready,
  publication blocks, and continuing then reports corrupt data until the review is saved again or the facts are
  refreshed. What is requested while processing is stopped keeps nothing of the snapshot it named (`worker.ts:71`): drain
  takes the prior attempt's input, and may replace an edited resume by a new generation of old inputs. The reuse of a
  cached review (`preparation.ts:189`) cannot succeed given what `service.ts:81` admits.
- queue: cancelling a job that was marked stale, when its last attempt was an assessment of the
  ready resume, restores ready and clears the mark (`repository.ts:287`).
- browser: a network failure clears a conflict that arrived meanwhile, and an edit after a refusal
  turns the conflict status off; the server's revision check still protects the draft. Picking another
  tab's copy leaves one's own copy under its key, and the next edit overwrites it. Corrected content after a
  refusal is not sent until Retry.
- runs: a discard interrupted during a flight makes the final save of the error refused, and the run
  stays running until it is run again or the server restarts. The brief is not kept current
  (`ReviewedIsCurrent` is about the other steps), and freshness is direct, not transitive. A
  synchronization with the base marks pending steps without output stale too, after which the run reads as
  complete without a brief. Output is published even when the run was cancelled after the runner
  answered. A second process that starts marks the live run of the first as failed.

## 6. Where the code departs from what it says

- `TransientRetry` (`cli/src/jobs/semantic-service.ts:203`). The one automatic retry of a transient
  failure can never be dispatched: closing the failed call closes the check that the retry has to
  reserve from.
- `UncheckedContinuation` (`cli/src/jobs/proposal-service.ts:77`). A review is activated as ready
  before its evidence check is awaited (`preparation.ts:180`). If the attempt ends there, continuing it evaluates the
  review by its own version, which asks for no facts, and publishes a resume that was never checked, although
  `docs/guides/semantic-evidence-review.md:12` says that preparation continues after all required
  checks pass.

## 7. What is left

Planned, in this order, and not modelled yet:

1. The event cursor of `runtime.ts` and the watcher's buffer: a listener that throws, or flushes
   from within, must neither lose nor repeat an event.
2. Sign-in (`settings/login-process.ts`): the timeout, the cancel and the child's exit race.
3. The corpus: revisions and updates, and what they make of fits and reviews.
4. Of the modelled parts: the grouping of equal questions and the count of model calls in batches;
   discards, seeds and forks of drafts; the facts of a draft's finalization as data.
5. Pure algorithms with a sharp reference definition: page budget, proposal merge.
6. Proofs: the refinement of one abstract draft by the pages and the server of `DraftAutosave`; what is
   added to the models above.

Not modelled, and why: routes, fetching, parsing, rendering, exports and the runners are I/O and text,
whose only protocol is the answer, failure or silence that the models above choose; the views are
presentation over the API; the compilers of `core` are pure text; `adws/` and `scripts/` are
development tooling. These are most of the repository's lines, so the map covers a small share of
it, and nearly all of what is concurrent or durable.
