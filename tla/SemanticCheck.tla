--------------------------- MODULE SemanticCheck ---------------------------
(***************************************************************************)
(* The evidence checks of one job: semantic-repository.ts, whose methods    *)
(* are one IMMEDIATE transaction each, and semantic-service.ts, which runs  *)
(* a check as an asynchronous task of one process.  A check (an operation)  *)
(* asks a model about the passages of a resume, batch after batch; edits,   *)
(* answers, Stop, a newer check and other processes may come in between.    *)
(***************************************************************************)
EXTENDS Naturals, Sequences, FiniteSets

CONSTANTS
  Service,      \* processes with a SemanticService on the same database
  Passage,      \* passages of resumes; one batch is one passage here
  Candidate,    \* the resumes that are checked, each a set of passages
  Limit,        \* SEMANTIC_LIMITS.automaticCalls: model calls per cycle
  MaxOps,       \* bound: checks begun
  MaxTasks,     \* bound: tasks launched
  MaxEdits,     \* bound: edits of the job, answers and Stops together
  MayFail       \* whether the runner, consent, rules or budget may refuse

ASSUME SemanticAssumption ==
  /\ Candidate \subseteq SUBSET Passage
  /\ Limit \in Nat \ {0}
  /\ {MaxOps, MaxTasks, MaxEdits} \subseteq Nat
  /\ MayFail \in BOOLEAN

VARIABLES
  ops,          \* semantic_operations, in the order of their sequence
  calls,        \* semantic_calls with their semantic_call_results
  lease,        \* the job's row of semantic_leases
  records,      \* semantic_records: the passages with a result
  head,         \* semantic_heads
  rev,          \* the job's revision
  gen,          \* worker_control.stop_generation
  tasks,        \* the promises the services have launched
  active,       \* per service, the task in running and activeId
  answers       \* bound: clarifications recorded

store == <<ops, calls, lease, records, head, rev, gen>>
vars == <<store, tasks, active, answers>>

Cycles == 0..MaxOps
OpRow == [state : {"checking", "complete", "unavailable"}, rev : Nat, head : Nat, gen : Nat,
          cycle : Cycles, candidate : Candidate]
CallRow == [op : 1..MaxOps, passage : Passage, result : {"none", "complete", "unavailable"}]
Task == [service : Service, op : 1..MaxOps, prior : 0..MaxTasks, aborted : BOOLEAN,
         pc : {"waits", "begins", "next", "asked", "again", "retried", "over"},
         todo : SUBSET Passage, call : Nat]

TypeOK ==
  /\ ops \in Seq(OpRow) /\ Len(ops) <= MaxOps
  /\ calls \in Seq(CallRow) /\ \A k \in 1..Len(calls) : calls[k].op <= Len(ops)
  /\ lease \in [call : 0..Len(calls), live : BOOLEAN]
  /\ records \subseteq Passage
  /\ head \in Nat /\ rev \in 0..MaxEdits /\ gen \in 0..MaxEdits
  /\ tasks \in Seq(Task) /\ Len(tasks) <= MaxTasks
  /\ \A t \in 1..Len(tasks) :
       /\ tasks[t].op <= Len(ops) /\ tasks[t].call <= Len(calls) /\ tasks[t].prior < t
       /\ tasks[t].pc = "waits" => tasks[t].prior # 0
       /\ tasks[t].pc \in {"asked", "again", "retried"} => tasks[t].call # 0
  /\ active \in [Service -> 0..Len(tasks)]
  /\ \A s \in Service : active[s] # 0 =>
       tasks[active[s]].service = s /\ tasks[active[s]].pc # "over"
  /\ answers \in 0..MaxEdits

NoLease == [call |-> 0, live |-> FALSE]

-----------------------------------------------------------------------------
(* The repository *)

\* assertCurrent: the newest check, of the inputs, facts and control it began with.
Latest(n) == n = Len(ops)
\* Fault: assertCurrent forgets answers recorded meanwhile.
CurrentButForFacts(n) ==
  ops[n].state = "checking" /\ Latest(n) /\ ops[n].rev = rev /\ ops[n].gen = gen
Current(n) ==
  /\ ops[n].state = "checking"
  /\ Latest(n)
  /\ ops[n].rev = rev /\ ops[n].head = head /\ ops[n].gen = gen

CallsOf(cycle) == {k \in 1..Len(calls) : ops[calls[k].op].cycle = cycle}
WithinLimit(n) == Cardinality(CallsOf(ops[n].cycle)) < Limit

\* finishFailure: the call failed, and so did its check.
Unavailable(o, n) == [o EXCEPT ![n].state = "unavailable"]
CallFailed(c, k) == [c EXCEPT ![k].result = IF @ = "none" THEN "unavailable" ELSE @]
FailCall(k) ==
  /\ calls' = CallFailed(calls, k)
  /\ ops' = Unavailable(ops, calls[k].op)
  /\ lease' = IF lease.call = k THEN NoLease ELSE lease

\* Fault: the call of an expired lease stays open.
TakenOverSilently(k) == calls
TakenOver(k) == IF k = 0 THEN calls ELSE CallFailed(calls, k)

\* reserve: an expired lease is taken over, and its call failed.
MayReserve(n) == Current(n) /\ ~lease.live /\ WithinLimit(n)
Reserve(n, p) ==
  LET call == [op |-> n, passage |-> p, result |-> "none"]
      k == lease.call
  IN  /\ calls' = Append(TakenOver(k), call)
      /\ ops' = IF k = 0 THEN ops ELSE Unavailable(ops, calls[k].op)
      /\ lease' = [call |-> Len(calls) + 1, live |-> TRUE]

Owns(k) == lease.call = k /\ lease.live

MayComplete(k) == Current(calls[k].op) /\ Owns(k)
Complete(k) ==
  /\ head' = head + 1
  /\ records' = records \cup {calls[k].passage}
  /\ calls' = [calls EXCEPT ![k].result = "complete"]
  /\ lease' = NoLease
  /\ ops' = [ops EXCEPT ![calls[k].op].head = head + 1]

\* finish with a reason: only a check that is still running fails.
Failed(n) == IF ops[n].state = "checking" THEN Unavailable(ops, n) ELSE ops

-----------------------------------------------------------------------------
(* The tasks of a service *)

Init ==
  /\ ops = <<>> /\ calls = <<>> /\ lease = NoLease /\ records = {}
  /\ head = 0 /\ rev = 0 /\ gen = 0
  /\ tasks = <<>> /\ active = [s \in Service |-> 0] /\ answers = 0

Op(t) == tasks[t].op
At(t, pc) == t \in 1..Len(tasks) /\ tasks[t].pc = pc
Goto(t, pc) == tasks' = [tasks EXCEPT ![t].pc = pc]

\* execute runs without a pause from where it is entered or answered to the next
\* question, and a task whose wait is over goes on before anything else of its
\* process: callers and requests come after the continuations that are due.
MayProceed(t) == At(t, "waits") /\ tasks[tasks[t].prior].pc = "over"
InExecute(t) == At(t, "begins") \/ At(t, "next") \/ At(t, "again")
Of(s) == {t \in 1..Len(tasks) : tasks[t].service = s}
Free(s) == \A t \in Of(s) : ~InExecute(t)
Idle(s) == \A t \in Of(s) : ~InExecute(t) /\ ~MayProceed(t)

\* What is left of a promise that is settled.
Settled(task) ==
  [service |-> task.service, op |-> task.op, prior |-> 0, aborted |-> FALSE, pc |-> "over",
   todo |-> {}, call |-> 0]

\* The task ends; the service forgets the running check if it is of this operation.
Forget(a, t) == IF a # 0 /\ Op(a) = Op(t) THEN 0 ELSE a
End(t) ==
  /\ tasks' = [tasks EXCEPT ![t] = Settled(@)]
  /\ active' = [active EXCEPT ![tasks[t].service] = Forget(@, t)]

\* The running check is aborted; the new one waits for it.
Aborted(t) == IF t = 0 THEN tasks ELSE [tasks EXCEPT ![t].aborted = TRUE]
\* Fault: the new check does not wait for the running one.
StartsAt(prior) == "begins"
AwaitsPrior(prior) == IF prior = 0 THEN "begins" ELSE "waits"
Launch(s, n) ==
  LET prior == active[s]
      task == [service |-> s, op |-> n, prior |-> prior, aborted |-> FALSE,
               pc |-> AwaitsPrior(prior), todo |-> {}, call |-> 0]
  IN  /\ Len(tasks) < MaxTasks
      /\ tasks' = Append(Aborted(prior), task)
      /\ active' = [active EXCEPT ![s] = Len(tasks) + 1]

\* start: a fresh key begins a check, of its own cycle or of the caller's (cycle 0).
Start(s) ==
  /\ Idle(s)
  /\ Len(ops) < MaxOps
  /\ \E cycle \in {0, Len(ops) + 1}, candidate \in Candidate :
       ops' = Append(ops, [state |-> "checking", rev |-> rev, head |-> head, gen |-> gen,
                           cycle |-> cycle, candidate |-> candidate])
  /\ Launch(s, Len(ops) + 1)
  /\ UNCHANGED <<calls, lease, records, head, rev, gen, answers>>

\* start with the key of an earlier check: launched again unless it was dispatched.
\* A key is repeated by whoever made it, to the same process or the one after it.
\* Fault: a check that was dispatched before a crash is dispatched again.
Unanswered(n) == \A k \in 1..Len(calls) : calls[k].op = n => calls[k].result # "complete"
Undispatched(n) == \A k \in 1..Len(calls) : calls[k].op # n
Replay(s) ==
  /\ Idle(s)
  /\ \E n \in 1..Len(ops) :
       /\ active[s] # 0 => Op(active[s]) # n
       /\ \A t \in 1..Len(tasks) : Op(t) = n /\ tasks[t].service # s => At(t, "over")
       /\ ops[n].state = "checking"
       /\ Undispatched(n)
       /\ Launch(s, n)
  /\ UNCHANGED <<store, answers>>

Proceed(t) ==
  /\ MayProceed(t) /\ Free(tasks[t].service)
  /\ Goto(t, "begins")
  /\ UNCHANGED <<store, active, answers>>

\* Passages with a stored result are not asked again.
\* Fault: nor are those that were only asked.
Unasked(n) == ops[n].candidate \ {calls[k].passage : k \in 1..Len(calls)}
Uncached(n) == ops[n].candidate \ records
Plan(t) ==
  /\ At(t, "begins")
  /\ tasks' = [tasks EXCEPT ![t] = [@ EXCEPT !.pc = "next", !.todo = Uncached(Op(t))]]
  /\ UNCHANGED <<store, active, answers>>

\* The task throws, and its check is closed.
Throw(t) ==
  /\ ops' = Failed(Op(t))
  /\ End(t)
  /\ UNCHANGED <<calls, lease, records, head, rev, gen, answers>>

\* No runner, consent, unchanged privacy rules or budget left.
Refuse(t) ==
  /\ MayFail
  /\ At(t, "begins") \/ (At(t, "next") /\ tasks[t].todo # {}) \/ At(t, "again")
  /\ Throw(t)

Ask(t, p, pc) ==
  IF MayReserve(Op(t))
  THEN /\ Reserve(Op(t), p)
       /\ tasks' = [tasks EXCEPT ![t] =
                      [@ EXCEPT !.pc = pc, !.todo = tasks[t].todo \ {p}, !.call = Len(calls) + 1]]
       /\ UNCHANGED <<records, head, rev, gen, active, answers>>
  ELSE Throw(t)

Dispatch(t) ==
  /\ At(t, "next") /\ tasks[t].todo # {}
  /\ IF tasks[t].aborted THEN Throw(t) ELSE \E p \in tasks[t].todo : Ask(t, p, "asked")

Asking(t) == At(t, "asked") \/ At(t, "retried")
MaySettle(t) == Asking(t) /\ Idle(tasks[t].service)

\* The model answers.  A result that is no longer wanted fails its call.
Answer(t) ==
  /\ MaySettle(t) /\ ~tasks[t].aborted
  /\ IF MayComplete(tasks[t].call)
     THEN Complete(tasks[t].call) /\ Goto(t, "next") /\ UNCHANGED active
     ELSE FailCall(tasks[t].call) /\ End(t) /\ UNCHANGED <<records, head>>
  /\ UNCHANGED <<rev, gen, answers>>

\* No usable answer: cancelled, timed out or malformed.
NoAnswer(t) ==
  /\ MaySettle(t)
  /\ FailCall(tasks[t].call)
  /\ End(t)
  /\ UNCHANGED <<records, head, rev, gen, answers>>

\* A transient failure of an automatic dispatch is asked again, once.  Whether it is one
\* was beforeDispatch's answer (the job is enrolled in a batch with the inputs of the check,
\* however the check was started); it is read here only, so it may be either.
Transient(t) ==
  /\ MaySettle(t) /\ At(t, "asked") /\ ~tasks[t].aborted
  /\ FailCall(tasks[t].call)
  /\ Goto(t, "again")
  /\ UNCHANGED <<records, head, rev, gen, active, answers>>
AskAgain(t) == At(t, "again") /\ Ask(t, calls[tasks[t].call].passage, "retried")

FinishCheck(t) ==
  /\ At(t, "next") /\ tasks[t].todo = {}
  /\ IF Current(Op(t))
     THEN /\ ops' = [ops EXCEPT ![Op(t)].state = "complete"]
          /\ End(t)
          /\ UNCHANGED <<calls, lease, records, head, rev, gen, answers>>
     ELSE Throw(t)

-----------------------------------------------------------------------------
(* The rest of the program *)

MayEdit == rev + gen + answers < MaxEdits

\* The job, and with it its revision, changes.
EditJob ==
  /\ MayEdit
  /\ rev' = rev + 1
  /\ UNCHANGED <<ops, calls, lease, records, head, gen, tasks, active, answers>>

\* The user answers a question about a fact.
Clarify ==
  /\ MayEdit
  /\ answers' = answers + 1 /\ head' = head + 1
  /\ UNCHANGED <<ops, calls, lease, records, rev, gen, tasks, active>>

StopProcessing ==
  /\ MayEdit
  /\ gen' = gen + 1
  /\ UNCHANGED <<ops, calls, lease, records, head, rev, tasks, active, answers>>

\* The lease passes its term (the process was suspended, or is gone).
Expire ==
  /\ lease.live
  /\ lease' = [lease EXCEPT !.live = FALSE]
  /\ UNCHANGED <<ops, calls, records, head, rev, gen, tasks, active, answers>>

\* The caller's signal aborts its check (the attempt was stopped), or dispose does.
Abort ==
  /\ \E t \in 1..Len(tasks) :
       /\ ~At(t, "over") /\ ~tasks[t].aborted /\ Idle(tasks[t].service)
       /\ tasks' = Aborted(t)
  /\ UNCHANGED <<store, active, answers>>

\* A process dies and is started again.
Crash(s) ==
  /\ \E t \in 1..Len(tasks) : tasks[t].service = s /\ ~At(t, "over")
  /\ tasks' = [t \in 1..Len(tasks) |->
       IF tasks[t].service = s THEN Settled(tasks[t]) ELSE tasks[t]]
  /\ active' = [active EXCEPT ![s] = 0]
  /\ UNCHANGED <<store, answers>>

Work(t) ==
  \/ Proceed(t) \/ Plan(t) \/ Refuse(t) \/ Dispatch(t) \/ Answer(t) \/ NoAnswer(t)
  \/ Transient(t) \/ AskAgain(t) \/ FinishCheck(t)

Next ==
  \/ \E s \in Service : Start(s) \/ Replay(s) \/ Crash(s)
  \/ \E t \in 1..MaxTasks : Work(t)
  \/ EditJob \/ Clarify \/ StopProcessing \/ Expire \/ Abort

Spec == Init /\ [][Next]_vars

\* A promise that can continue does; leases expire by the clock.
FairSpec == Spec /\ WF_vars(Expire) /\ \A t \in 1..MaxTasks : WF_vars(Work(t))

-----------------------------------------------------------------------------
(* Safety *)

\* A check is complete only when every passage of its resume has a stored result: no batch
\* that failed, was aborted or was asked by another check counts as read.
CompleteIsChecked ==
  \A n \in 1..Len(ops) : ops[n].state = "complete" => ops[n].candidate \subseteq records

\* At most one model call is open, whichever services run: every other call
\* has its result, so that no answer is paid for and then lost without a trace.
OpenCallIsLeased ==
  \A k \in 1..Len(calls) : calls[k].result = "none" => lease.call = k

\* A service asks for one check of the job at a time, although checks are
\* started, aborted and replayed while earlier ones are still ending.
OneTaskAsks ==
  \A t, u \in 1..Len(tasks) :
    Asking(t) /\ Asking(u) /\ tasks[t].service = tasks[u].service => t = u

\* A check asks about a passage once ("Replaying an interrupted dispatch must not
\* spend another model call"): the second question of an automatic dispatch is
\* never asked either, see TransientIsRetried.
SpendsOnce ==
  \A j, k \in 1..Len(calls) :
    j # k /\ calls[j].op = calls[k].op => calls[j].passage # calls[k].passage

\* A cycle never spends more calls than its limit, although several checks of several
\* processes share it and calls whose lease expired are taken over.
CallsWithinLimit == \A cycle \in Cycles : Cardinality(CallsOf(cycle)) <= Limit

\* A result is stored for the newest check only, and only if neither the job, nor
\* the answers, nor the control changed since it began or last stored a result.
ResultsAreCurrent ==
  [][\A k \in 1..Len(calls) : calls[k].result = "none" /\ calls'[k].result = "complete" =>
       LET o == ops[calls[k].op]
       IN  calls[k].op = Len(ops) /\ o.rev = rev /\ o.head = head /\ o.gen = gen]_vars

-----------------------------------------------------------------------------
(* Liveness *)

\* operation(): what a service shows of a check.
\* Fault: what is stored.
ShownAsStored(s, n) == ops[n].state
Shown(s, n) ==
  IF ~(active[s] # 0 /\ Op(active[s]) = n) /\ ~lease.live /\ ops[n].state = "checking"
  THEN "unavailable" ELSE ops[n].state

\* No check is shown as running for ever, although its process may die at any point.
ChecksEnd ==
  \A s \in Service, n \in 1..MaxOps :
    Len(ops) >= n ~> (Len(ops) >= n /\ Shown(s, n) # "checking")

-----------------------------------------------------------------------------
(* What the design says *)

\* "Allow one automatic retry for a transient failed operation": unless the job,
\* the answers or the control changed, or the limit is reached, it is dispatched.
TransientIsRetried ==
  \A t \in 1..Len(tasks) :
    LET n == Op(t) IN
    /\ At(t, "again")
    /\ Latest(n) /\ ops[n].rev = rev /\ ops[n].head = head /\ ops[n].gen = gen
    /\ WithinLimit(n) /\ ~lease.live
    => MayReserve(n)
=============================================================================
