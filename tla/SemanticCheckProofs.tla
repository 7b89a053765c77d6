------------------------ MODULE SemanticCheckProofs ------------------------
(***************************************************************************)
(* The evidence checks keep their promises for any number of processes,    *)
(* resumes, checks, tasks and edits.  Three invariants on top of the types: *)
(*   ReadInv   what a task has not read yet is still on its list or in its  *)
(*             open call, and an open call holds the lease;                 *)
(*   LineInv   the live tasks of a service stand in a line, each waiting    *)
(*             for the one before it, and all but the newest are doomed;    *)
(*   SpendInv  a task that may still ask has passages before it that its    *)
(*             check has not asked about.                                   *)
(***************************************************************************)
EXTENDS SemanticCheck, SequenceTheorems, FiniteSetTheorems, TLAPS

Tasks == 1..Len(tasks)
Live == {t \in Tasks : tasks[t].pc # "over"}
Mates(t, u) == tasks[t].service = tasks[u].service
Closed(n) == ops[n].state # "checking"
Doomed(t) == tasks[t].aborted \/ Closed(tasks[t].op)
HasCall(t) == tasks[t].pc \in {"asked", "again", "retried"}

-----------------------------------------------------------------------------
(* Rows of sequences *)

States == {"checking", "complete", "unavailable"}

LEMMA OpRowSet ==
  ASSUME NEW o \in OpRow, NEW st \in States
  PROVE  LET x == [o EXCEPT !.state = st] IN
         x \in OpRow /\ x.candidate = o.candidate /\ x.cycle = o.cycle /\ x.state = st
  BY DEF OpRow, States

LEMMA CallRowSet ==
  ASSUME NEW c \in CallRow, NEW result \in {"none", "complete", "unavailable"}
  PROVE  LET x == [c EXCEPT !.result = result] IN
         x \in CallRow /\ x.op = c.op /\ x.passage = c.passage /\ x.result = result
  BY DEF CallRow

LEMMA CallTyped ==
  ASSUME TypeOK, NEW k \in 1..Len(calls)
  PROVE  calls[k] \in CallRow /\ calls[k].op \in 1..Len(ops) /\ calls[k].passage \in Passage
<1>1. calls \in Seq(CallRow) /\ calls[k].op <= Len(ops) /\ ops \in Seq(OpRow)
  BY DEF TypeOK
<1>2. calls[k] \in CallRow /\ Len(ops) \in Nat
  BY <1>1, ElementOfSeq, LenProperties
<1> QED BY <1>1, <1>2 DEF CallRow

LEMMA Lengths ==
  ASSUME TypeOK
  PROVE  Len(ops) \in Nat /\ Len(calls) \in Nat /\ Len(tasks) \in Nat
  BY LenProperties DEF TypeOK

LEMMA OpsBound ==
  ASSUME TypeOK
  PROVE  Len(ops) <= MaxOps
  BY DEF TypeOK

\* Task t becomes x.
Becomes(t, x) ==
  /\ tasks' \in Seq(Task) /\ Len(tasks') = Len(tasks)
  /\ \A u \in Tasks : tasks'[u] = IF u = t THEN x ELSE tasks[u]

LEMMA TaskSet ==
  ASSUME TypeOK, NEW t \in Tasks, NEW x \in Task, tasks' = [tasks EXCEPT ![t] = x]
  PROVE  Becomes(t, x)
<1>1. tasks \in Seq(Task) /\ t \in 1..Len(tasks)
  BY DEF TypeOK, Tasks
<1> QED BY <1>1, ExceptSeq DEF Becomes, Tasks

LEMMA TaskRow ==
  ASSUME TypeOK, NEW t \in Tasks
  PROVE  /\ tasks[t] \in Task /\ t \in Nat
         /\ tasks[t].op \in 1..Len(ops) /\ tasks[t].call \in 0..Len(calls)
         /\ HasCall(t) => tasks[t].call \in 1..Len(calls)
<1>1. tasks \in Seq(Task) /\ t \in 1..Len(tasks)
  BY DEF TypeOK, Tasks
<1>2. tasks[t] \in Task
  BY <1>1, ElementOfSeq
<1>3. tasks[t].op <= Len(ops) /\ tasks[t].call <= Len(calls) /\ (HasCall(t) => tasks[t].call # 0)
  BY <1>1 DEF TypeOK, HasCall
<1> QED BY <1>1, <1>2, <1>3, Lengths DEF Task

-----------------------------------------------------------------------------
(* What the operations of the repository do to checks and calls *)

\* Checks are only appended; a closed one is not opened again.
OpsKept ==
  /\ ops' \in Seq(OpRow) /\ Len(ops') >= Len(ops) /\ Len(ops') <= MaxOps
  /\ \A n \in 1..Len(ops) :
       /\ ops'[n].candidate = ops[n].candidate /\ ops'[n].cycle = ops[n].cycle
       /\ Closed(n) => Closed(n)'
\* No check becomes complete.
NoneCompletes ==
  \A n \in 1..Len(ops') :
    ops'[n].state = "complete" => n \in 1..Len(ops) /\ ops[n].state = "complete"
\* The calls there are keep their check and passage.
CallsKept ==
  /\ calls' \in Seq(CallRow) /\ Len(calls') >= Len(calls)
  /\ \A k \in 1..Len(calls) : calls'[k].op = calls[k].op /\ calls'[k].passage = calls[k].passage

LEMMA Unchanged ==
  ASSUME TypeOK
  PROVE  /\ UNCHANGED ops => OpsKept /\ NoneCompletes
         /\ UNCHANGED calls => CallsKept
  BY Lengths DEF TypeOK, OpsKept, NoneCompletes, CallsKept, Closed

LEMMA Closing ==
  ASSUME TypeOK, NEW n \in 1..Len(ops), ops' = Unavailable(ops, n)
  PROVE  OpsKept /\ NoneCompletes /\ ops'[n].state # "checking"
<1>1. ops \in Seq(OpRow)
  BY DEF TypeOK
<1> DEFINE x == [ops[n] EXCEPT !.state = "unavailable"]
<1>2. /\ x \in OpRow /\ x.candidate = ops[n].candidate /\ x.cycle = ops[n].cycle
      /\ x.state = "unavailable"
  BY <1>1, ElementOfSeq, OpRowSet DEF States
<1>4. ops' = [ops EXCEPT ![n] = x]
  BY DEF Unavailable
<1> HIDE DEF x
<1>3. /\ ops' \in Seq(OpRow) /\ Len(ops') = Len(ops)
      /\ \A m \in 1..Len(ops) : ops'[m] = IF m = n THEN x ELSE ops[m]
  BY <1>1, <1>2, <1>4, ExceptSeq
<1> QED BY <1>2, <1>3, Lengths, OpsBound DEF OpsKept, NoneCompletes, Closed

\* Call k, if it was open, has failed; the calls are otherwise what they were.
Fails(c, k) ==
  /\ c \in Seq(CallRow) /\ Len(c) = Len(calls)
  /\ \A m \in 1..Len(calls) :
       /\ c[m].op = calls[m].op /\ c[m].passage = calls[m].passage
       /\ c[m].result = IF m = k /\ calls[m].result = "none"
                        THEN "unavailable" ELSE calls[m].result

LEMMA CallFails ==
  ASSUME TypeOK, NEW k \in 1..Len(calls)
  PROVE  Fails(CallFailed(calls, k), k)
<1> DEFINE r == IF calls[k].result = "none" THEN "unavailable" ELSE calls[k].result
<1>1. calls \in Seq(CallRow) /\ \A m \in 1..Len(calls) : calls[m] \in CallRow
  BY ElementOfSeq DEF TypeOK
<1>2. r \in {"none", "complete", "unavailable"}
  BY <1>1 DEF CallRow
<1> DEFINE x == [calls[k] EXCEPT !.result = r]
<1>3. x \in CallRow /\ x.op = calls[k].op /\ x.passage = calls[k].passage /\ x.result = r
  BY <1>1, <1>2, CallRowSet
<1>4. CallFailed(calls, k) = [calls EXCEPT ![k] = x]
  BY DEF CallFailed
<1> HIDE DEF x
<1>5. /\ [calls EXCEPT ![k] = x] \in Seq(CallRow) /\ Len([calls EXCEPT ![k] = x]) = Len(calls)
      /\ \A m \in 1..Len(calls) : [calls EXCEPT ![k] = x][m] = IF m = k THEN x ELSE calls[m]
  BY <1>1, <1>3, ExceptSeq
<1> QED BY <1>3, <1>4, <1>5 DEF Fails

LEMMA Failing ==
  ASSUME TypeOK, NEW k \in 1..Len(calls), FailCall(k)
  PROVE  /\ CallsKept /\ OpsKept /\ NoneCompletes /\ ops'[calls[k].op].state # "checking"
         /\ Fails(calls', k)
         /\ lease' \in [call : 0..Len(calls), live : BOOLEAN]
         /\ lease.call # k => lease'.call = lease.call
<1>1. calls[k].op \in 1..Len(ops)
  BY CallTyped
<1>2. Fails(calls', k)
  BY CallFails DEF FailCall
<1>3. OpsKept /\ NoneCompletes /\ ops'[calls[k].op].state # "checking"
  <2>1. PICK n \in 1..Len(ops) : n = calls[k].op
    BY <1>1
  <2>2. ops' = Unavailable(ops, n)
    BY <2>1 DEF FailCall
  <2>3. OpsKept /\ NoneCompletes /\ ops'[n].state # "checking"
    BY <2>2, Closing
  <2> QED BY <2>1, <2>3
<1>4. \A m \in 1..Len(calls) : calls[m] \in CallRow
  BY ElementOfSeq DEF TypeOK
<1>5. CallsKept
  BY <1>2, <1>4, Lengths DEF CallsKept, Fails, CallRow
<1>6. /\ lease' \in [call : 0..Len(calls), live : BOOLEAN]
      /\ lease.call # k => lease'.call = lease.call
  BY Lengths DEF FailCall, NoLease, TypeOK
<1> QED BY <1>2, <1>3, <1>5, <1>6

LEMMA Reserving ==
  ASSUME TypeOK, NEW n \in 1..Len(ops), NEW p \in Passage, MayReserve(n), Reserve(n, p)
  PROVE  /\ OpsKept /\ NoneCompletes /\ CallsKept
         /\ Len(calls') = Len(calls) + 1
         /\ calls'[Len(calls) + 1] = [op |-> n, passage |-> p, result |-> "none"]
         /\ \A m \in 1..Len(calls) :
              calls'[m].result = IF m = lease.call /\ calls[m].result = "none"
                                 THEN "unavailable" ELSE calls[m].result
         /\ lease' = [call |-> Len(calls) + 1, live |-> TRUE]
<1> DEFINE k == lease.call
           c == TakenOver(k)
           call == [op |-> n, passage |-> p, result |-> "none"]
<1>1. k \in 0..Len(calls) /\ calls \in Seq(CallRow) /\ \A m \in 1..Len(calls) : calls[m] \in CallRow
  BY ElementOfSeq DEF TypeOK
<1>2. Fails(c, k)
  <2>1. CASE k = 0
    BY <2>1, <1>1 DEF Fails, TakenOver
  <2>2. CASE k \in 1..Len(calls)
    BY <2>2, CallFails DEF TakenOver
  <2> QED BY <1>1, <2>1, <2>2
<1>3. call \in CallRow
  <2>1. MaxOps \in Nat /\ Len(ops) \in Nat /\ Len(ops) <= MaxOps
    BY Lengths, SemanticAssumption DEF TypeOK
  <2> QED BY <2>1 DEF CallRow
<1>4. calls' = Append(c, call)
  BY DEF Reserve
<1>5. /\ calls' \in Seq(CallRow) /\ Len(calls') = Len(calls) + 1
      /\ calls'[Len(calls) + 1] = call
      /\ \A m \in 1..Len(calls) : calls'[m] = c[m]
  <2> HIDE DEF c, call
  <2> QED BY <1>1, <1>2, <1>3, <1>4, AppendProperties DEF Fails
<1>6. OpsKept /\ NoneCompletes
  <2>1. CASE k = 0
    BY <2>1, Unchanged DEF Reserve
  <2>2. CASE k \in 1..Len(calls)
    <3>1. calls[k].op \in 1..Len(ops)
      BY <2>2, CallTyped
    <3> QED BY <2>2, <3>1, Closing DEF Reserve
  <2> QED BY <1>1, <2>1, <2>2
<1>7. CallsKept
  <2> HIDE DEF c, call
  <2> QED BY <1>2, <1>5, Lengths DEF CallsKept, Fails
<1> QED BY <1>2, <1>5, <1>6, <1>7 DEF Fails, Reserve

LEMMA Completing ==
  ASSUME TypeOK, NEW k \in 1..Len(calls), Complete(k)
  PROVE  /\ OpsKept /\ NoneCompletes /\ CallsKept
         /\ Len(calls') = Len(calls)
         /\ \A m \in 1..Len(calls) :
              calls'[m].result = IF m = k THEN "complete" ELSE calls[m].result
         /\ records' = records \cup {calls[k].passage} /\ records' \subseteq Passage
         /\ lease' = NoLease /\ head' \in Nat
         /\ \A n \in 1..Len(ops) : ops'[n].state = ops[n].state
<1> DEFINE n == calls[k].op
           x == [ops[n] EXCEPT !.head = head + 1]
<1>1. calls \in Seq(CallRow) /\ \A m \in 1..Len(calls) : calls[m] \in CallRow
  BY ElementOfSeq DEF TypeOK
<1>2. n \in 1..Len(ops)
  BY CallTyped
<1>3. /\ CallsKept /\ Len(calls') = Len(calls)
      /\ \A m \in 1..Len(calls) :
           calls'[m].result = IF m = k THEN "complete" ELSE calls[m].result
  <2> DEFINE y == [calls[k] EXCEPT !.result = "complete"]
  <2>1. /\ y \in CallRow /\ y.op = calls[k].op /\ y.passage = calls[k].passage
        /\ y.result = "complete"
    BY <1>1, CallRowSet
  <2>3. calls' = [calls EXCEPT ![k] = y]
    BY DEF Complete
  <2> HIDE DEF y
  <2>2. /\ calls' \in Seq(CallRow) /\ Len(calls') = Len(calls)
        /\ \A m \in 1..Len(calls) : calls'[m] = IF m = k THEN y ELSE calls[m]
    BY <1>1, <2>1, <2>3, ExceptSeq
  <2> QED BY <2>1, <2>2, Lengths DEF CallsKept
<1>4. ops[n] \in OpRow /\ ops \in Seq(OpRow) /\ head + 1 \in Nat
  BY <1>2, ElementOfSeq DEF TypeOK
<1>5. /\ x \in OpRow /\ x.candidate = ops[n].candidate /\ x.cycle = ops[n].cycle
      /\ x.state = ops[n].state
  BY <1>4 DEF OpRow
<1>6. ops' = [ops EXCEPT ![n] = x]
  BY DEF Complete
<1>7. /\ ops' \in Seq(OpRow) /\ Len(ops') = Len(ops)
      /\ \A m \in 1..Len(ops) : ops'[m] = IF m = n THEN x ELSE ops[m]
  <2> HIDE DEF n, x
  <2> QED BY <1>2, <1>4, <1>5, <1>6, ExceptSeq
<1>8. OpsKept /\ NoneCompletes /\ \A m \in 1..Len(ops) : ops'[m].state = ops[m].state
  <2> HIDE DEF x
  <2> QED BY <1>5, <1>7, Lengths, OpsBound DEF OpsKept, NoneCompletes, Closed
<1> QED BY <1>1, <1>3, <1>4, <1>8 DEF Complete, TypeOK, CallRow

-----------------------------------------------------------------------------
(* The kinds of steps a task takes *)

Running == {"begins", "next", "asked", "again", "retried"}

\* Task u keeps everything but what a step may write.
Keeps(u) == /\ tasks'[u].service = tasks[u].service /\ tasks'[u].op = tasks[u].op
            /\ tasks'[u].prior = tasks[u].prior
Marked(u) == /\ Keeps(u) /\ tasks'[u].aborted /\ tasks'[u].pc = tasks[u].pc
             /\ tasks'[u].todo = tasks[u].todo /\ tasks'[u].call = tasks[u].call
Over(u) == /\ tasks'[u].pc = "over" /\ tasks'[u].op = tasks[u].op
           /\ tasks'[u].prior = 0 /\ tasks'[u].call = 0
\* Only task t changes.
Only(t) ==
  /\ tasks' \in Seq(Task) /\ Len(tasks') = Len(tasks)
  /\ \A u \in Tasks : u # t => tasks'[u] = tasks[u]

\* Task t goes on from one running state to another, with the calls there are.
Advances(t, pc, todo, call) ==
  /\ t \in Tasks /\ tasks[t].pc \in Running /\ pc \in Running
  /\ Only(t) /\ Keeps(t) /\ tasks'[t].aborted = tasks[t].aborted
  /\ tasks'[t].pc = pc /\ tasks'[t].todo = todo /\ tasks'[t].call = call
  /\ call \in 0..Len(calls') /\ (pc \in {"asked", "again", "retried"} => call # 0)
  /\ pc \in {"asked", "retried"} => ~Doomed(t)
  /\ pc = "again" => ops'[tasks[t].op].state # "checking"
  /\ UNCHANGED active

\* Task t ends and leaves its check closed.
Ends(t) ==
  /\ t \in Tasks /\ tasks[t].pc \in Running
  /\ Only(t) /\ Over(t)
  /\ active' = [active EXCEPT ![tasks[t].service] = Forget(@, t)]
  /\ ops'[tasks[t].op].state # "checking"

Rests == UNCHANGED <<tasks, active>>

Proceeds(t) ==
  /\ t \in Tasks /\ MayProceed(t) /\ Free(tasks[t].service)
  /\ Only(t) /\ Keeps(t) /\ tasks'[t].aborted = tasks[t].aborted
  /\ tasks'[t].pc = "begins" /\ tasks'[t].todo = tasks[t].todo /\ tasks'[t].call = tasks[t].call
  /\ UNCHANGED <<active, calls>>

Aborts(t) ==
  /\ t \in Live /\ Idle(tasks[t].service)
  /\ Only(t) /\ Marked(t)
  /\ UNCHANGED <<active, calls>>

\* A check is launched: the running one is aborted, the new one waits for it.
Launches(s, n) ==
  /\ s \in Service /\ n \in 1..Len(ops') /\ Idle(s)
  /\ \A u \in Live : tasks[u].op = n => tasks[u].service = s
  /\ \A k \in 1..Len(calls) : calls[k].op # n
  /\ tasks' \in Seq(Task) /\ Len(tasks') = Len(tasks) + 1 /\ Len(tasks') <= MaxTasks
  /\ \A u \in Tasks : IF u = active[s] THEN Marked(u) ELSE tasks'[u] = tasks[u]
  /\ tasks'[Len(tasks) + 1] =
       [service |-> s, op |-> n, prior |-> active[s], aborted |-> FALSE,
        pc |-> AwaitsPrior(active[s]), todo |-> {}, call |-> 0]
  /\ active' = [active EXCEPT ![s] = Len(tasks) + 1]
  /\ UNCHANGED calls

Crashes(s) ==
  /\ s \in Service
  /\ tasks' \in Seq(Task) /\ Len(tasks') = Len(tasks)
  /\ \A t \in Tasks :
       IF tasks[t].service = s THEN Over(t) ELSE tasks'[t] = tasks[t]
  /\ active' = [active EXCEPT ![s] = 0]
  /\ UNCHANGED <<ops, calls>>

LEMMA Flagged ==
  ASSUME TypeOK, NEW t \in Tasks
  PROVE  LET x == [tasks[t] EXCEPT !.aborted = TRUE] IN
         /\ x \in Task /\ x.service = tasks[t].service /\ x.op = tasks[t].op
         /\ x.prior = tasks[t].prior /\ x.aborted /\ x.pc = tasks[t].pc
         /\ x.todo = tasks[t].todo /\ x.call = tasks[t].call
  BY TaskRow DEF Task

LEMMA Launching ==
  ASSUME TypeOK, NEW s \in Service, NEW n \in 1..MaxOps, Launch(s, n), UNCHANGED calls,
         Idle(s), n \in 1..Len(ops'),
         \A u \in Live : tasks[u].op = n => tasks[u].service = s,
         \A k \in 1..Len(calls) : calls[k].op # n
  PROVE  Launches(s, n)
<1> DEFINE a == active[s]
           x == [tasks[a] EXCEPT !.aborted = TRUE]
           b == Aborted(a)
           new == [service |-> s, op |-> n, prior |-> a, aborted |-> FALSE,
                   pc |-> AwaitsPrior(a), todo |-> {}, call |-> 0]
<1>1. /\ tasks \in Seq(Task) /\ a \in 0..Len(tasks) /\ Len(tasks) \in Nat
      /\ Len(tasks) <= MaxTasks /\ MaxTasks \in Nat
  BY Lengths, SemanticAssumption DEF TypeOK
<1>2. /\ b \in Seq(Task) /\ Len(b) = Len(tasks)
      /\ \A u \in Tasks : b[u] = IF u = a THEN x ELSE tasks[u]
  <2>1. CASE a = 0
    <3>1. b = tasks
      BY <2>1 DEF Aborted
    <3> HIDE DEF x, b
    <3> QED BY <2>1, <3>1, <1>1 DEF Tasks
  <2>2. CASE a \in 1..Len(tasks)
    <3>1. x \in Task
      BY <2>2, <1>1, Flagged DEF Tasks
    <3>2. b = [tasks EXCEPT ![a] = x]
      BY <2>2 DEF Aborted
    <3> HIDE DEF x, a, b
    <3> QED BY <2>2, <1>1, <3>1, <3>2, ExceptSeq DEF Tasks
  <2> HIDE DEF x, b
  <2> QED BY <1>1, <2>1, <2>2
<1>6. a \in Tasks => /\ x.service = tasks[a].service /\ x.op = tasks[a].op /\ x.prior = tasks[a].prior
                     /\ x.aborted /\ x.pc = tasks[a].pc /\ x.todo = tasks[a].todo /\ x.call = tasks[a].call
  BY Flagged DEF Tasks
<1>3. new \in Task
  <2>1. a \in 0..MaxTasks
    BY <1>1
  <2> QED BY <2>1 DEF Task, AwaitsPrior
<1>4. tasks' = Append(b, new) /\ Len(tasks) < MaxTasks /\ active' = [active EXCEPT ![s] = Len(tasks) + 1]
  BY DEF Launch
<1>5. /\ tasks' \in Seq(Task) /\ Len(tasks') = Len(tasks) + 1
      /\ tasks'[Len(tasks) + 1] = new
      /\ \A u \in Tasks : tasks'[u] = b[u]
  <2> HIDE DEF b, new, x, a
  <2> QED BY <1>1, <1>2, <1>3, <1>4, AppendProperties DEF Tasks
<1>7. \A u \in Tasks : IF u = a THEN Marked(u) ELSE tasks'[u] = tasks[u]
  <2> HIDE DEF x, b, new
  <2> QED BY <1>2, <1>5, <1>6 DEF Marked, Keeps
<1>8. Len(tasks') <= MaxTasks
  BY <1>1, <1>4, <1>5
<1> HIDE DEF x, b
<1> QED BY <1>4, <1>5, <1>7, <1>8 DEF Launches

LEMMA SettledTyped ==
  ASSUME TypeOK, NEW t \in Tasks
  PROVE  LET x == Settled(tasks[t])
         IN  x \in Task /\ x.pc = "over" /\ x.op = tasks[t].op /\ x.prior = 0 /\ x.call = 0
<1>1. tasks[t] \in Task /\ MaxTasks \in Nat
  BY TaskRow, SemanticAssumption
<1> QED BY <1>1 DEF Task, Settled

LEMMA EndingTask ==
  ASSUME TypeOK, NEW t \in Tasks, tasks[t].pc \in Running, End(t),
         ops'[tasks[t].op].state # "checking"
  PROVE  Ends(t)
<1> DEFINE x == Settled(tasks[t])
<1>1. x \in Task /\ x.pc = "over" /\ x.op = tasks[t].op /\ x.prior = 0 /\ x.call = 0
  BY SettledTyped
<1>4. tasks' = [tasks EXCEPT ![t] = x]
  BY DEF End
<1> HIDE DEF x
<1>2. Becomes(t, x)
  BY <1>1, <1>4, TaskSet
<1>3. Only(t) /\ Over(t)
  BY <1>1, <1>2 DEF Becomes, Only, Over, Tasks
<1> QED BY <1>3 DEF Ends, End

LEMMA Throwing ==
  ASSUME TypeOK, NEW t \in Tasks, tasks[t].pc \in Running, Throw(t)
  PROVE  Ends(t) /\ OpsKept /\ NoneCompletes /\ UNCHANGED <<calls, lease, records, head, rev, gen, answers>>
<1>1. PICK n \in 1..Len(ops) : n = tasks[t].op
  BY TaskRow
<1>2. OpsKept /\ NoneCompletes /\ ops'[n].state # "checking"
  <2>1. CASE ops[n].state = "checking"
    <3>1. ops' = Unavailable(ops, n)
      BY <1>1, <2>1 DEF Throw, Failed, Op
    <3> QED BY <3>1, Closing
  <2>2. CASE ops[n].state # "checking"
    <3>1. ops' = ops
      BY <1>1, <2>2 DEF Throw, Failed, Op
    <3> QED BY <3>1, <2>2, Unchanged
  <2> QED BY <2>1, <2>2
<1>3. Ends(t)
  BY <1>1, <1>2, EndingTask DEF Throw
<1> QED BY <1>2, <1>3 DEF Throw

-----------------------------------------------------------------------------
(* The steps of a task, and what each does to the store *)

LEMMA Moving ==
  ASSUME TypeOK, NEW t \in Tasks, NEW x \in Task, tasks' = [tasks EXCEPT ![t] = x],
         x.service = tasks[t].service, x.op = tasks[t].op, x.prior = tasks[t].prior,
         x.aborted = tasks[t].aborted
  PROVE  /\ Only(t) /\ Keeps(t) /\ tasks'[t].aborted = tasks[t].aborted
         /\ tasks'[t].pc = x.pc /\ tasks'[t].todo = x.todo /\ tasks'[t].call = x.call
<1>1. Becomes(t, x)
  BY TaskSet
<1> QED BY <1>1 DEF Becomes, Only, Keeps, Tasks

LEMMA Going ==
  ASSUME TypeOK, NEW t \in Tasks, NEW pc \in Running, Goto(t, pc)
  PROVE  /\ Only(t) /\ Keeps(t) /\ tasks'[t].aborted = tasks[t].aborted
         /\ tasks'[t].pc = pc /\ tasks'[t].todo = tasks[t].todo /\ tasks'[t].call = tasks[t].call
<1> DEFINE x == [tasks[t] EXCEPT !.pc = pc]
<1>1. /\ x \in Task /\ x.service = tasks[t].service /\ x.op = tasks[t].op /\ x.prior = tasks[t].prior
      /\ x.aborted = tasks[t].aborted /\ x.pc = pc /\ x.todo = tasks[t].todo /\ x.call = tasks[t].call
  BY TaskRow DEF Task, Running
<1>2. Becomes(t, x)
  <2>1. tasks' = [tasks EXCEPT ![t] = x]
    BY DEF Goto
  <2> HIDE DEF x
  <2> QED BY <1>1, <2>1, TaskSet
<1> HIDE DEF x
<1> QED BY <1>1, <1>2 DEF Becomes, Only, Keeps, Tasks

AgainIsClosed == \A t \in Tasks : tasks[t].pc = "again" => Closed(tasks[t].op)

Same == UNCHANGED <<ops, calls, lease, records>>

Plans(t) ==
  /\ t \in Tasks /\ tasks[t].pc = "begins"
  /\ Advances(t, "next", Uncached(tasks[t].op), tasks[t].call)
  /\ Same

Asks(t, p) ==
  /\ t \in Tasks /\ tasks[t].pc = "next" /\ p \in tasks[t].todo /\ ~Doomed(t)
  /\ MayReserve(tasks[t].op) /\ Reserve(tasks[t].op, p)
  /\ Advances(t, "asked", tasks[t].todo \ {p}, Len(calls) + 1)
  /\ OpsKept /\ NoneCompletes /\ CallsKept
  /\ UNCHANGED records

Answers(t) ==
  /\ t \in Tasks /\ tasks[t].pc \in {"asked", "retried"}
  /\ MayComplete(tasks[t].call) /\ Complete(tasks[t].call)
  /\ Advances(t, "next", tasks[t].todo, tasks[t].call)
  /\ OpsKept /\ NoneCompletes /\ CallsKept

Retries(t) ==
  /\ t \in Tasks /\ tasks[t].pc = "asked"
  /\ FailCall(tasks[t].call)
  /\ Advances(t, "again", tasks[t].todo, tasks[t].call)
  /\ OpsKept /\ NoneCompletes /\ CallsKept
  /\ UNCHANGED records

GivesUp(t) ==
  /\ Ends(t) /\ OpsKept /\ NoneCompletes
  /\ UNCHANGED <<calls, lease, records>>

GetsNothing(t) ==
  /\ Ends(t) /\ tasks[t].pc \in {"asked", "retried"} /\ FailCall(tasks[t].call)
  /\ OpsKept /\ NoneCompletes /\ CallsKept
  /\ UNCHANGED records

Finishes(t) ==
  /\ Ends(t) /\ tasks[t].pc = "next" /\ tasks[t].todo = {}
  /\ OpsKept
  /\ \A n \in 1..Len(ops') : n # tasks[t].op /\ ops'[n].state = "complete" =>
       n \in 1..Len(ops) /\ ops[n].state = "complete"
  /\ UNCHANGED <<calls, lease, records>>

Ending(t) == GivesUp(t) \/ GetsNothing(t) \/ Finishes(t)

TaskStep(t) ==
  \/ Proceeds(t) /\ Same
  \/ Plans(t) \/ Retries(t) \/ Answers(t) \/ (\E p \in Passage : Asks(t, p))
  \/ Ending(t)

LEMMA ProceedKind ==
  ASSUME TypeOK, NEW t \in Tasks, Proceed(t)
  PROVE  Proceeds(t) /\ Same
<1>1. Goto(t, "begins") /\ UNCHANGED <<ops, calls, lease, records, active>>
      /\ MayProceed(t) /\ Free(tasks[t].service)
  BY DEF Proceed, store
<1>2. "begins" \in Running
  BY DEF Running
<1> QED BY <1>1, <1>2, Going DEF Proceeds, Same

LEMMA PlanKind ==
  ASSUME TypeOK, NEW t \in Tasks, Plan(t)
  PROVE  Plans(t)
<1>1. tasks[t].pc = "begins" /\ UNCHANGED <<ops, calls, lease, records, active>>
  BY DEF Plan, At, store
<1>2. Uncached(tasks[t].op) \in SUBSET Passage
  <2>1. ops[tasks[t].op] \in OpRow
    BY TaskRow, ElementOfSeq DEF TypeOK
  <2>2. ops[tasks[t].op].candidate \in Candidate
    BY <2>1 DEF OpRow
  <2> QED BY <2>2, SemanticAssumption DEF Uncached
<1>3. tasks[t].call \in Nat /\ tasks[t].call \in 0..Len(calls) /\ Len(calls) \in Nat
  BY TaskRow, Lengths
<1>4. "next" \in Running /\ "begins" \in Running
  BY DEF Running
<1> DEFINE x == [tasks[t] EXCEPT !.pc = "next", !.todo = Uncached(tasks[t].op)]
<1>5. /\ x \in Task /\ x.service = tasks[t].service /\ x.op = tasks[t].op /\ x.prior = tasks[t].prior
      /\ x.aborted = tasks[t].aborted /\ x.pc = "next" /\ x.call = tasks[t].call
      /\ x.todo = Uncached(tasks[t].op)
  BY <1>2, TaskRow DEF Task
<1>8. tasks' = [tasks EXCEPT ![t] = x]
  BY DEF Plan, Op
<1> HIDE DEF x
<1>6. /\ Only(t) /\ Keeps(t) /\ tasks'[t].aborted = tasks[t].aborted
      /\ tasks'[t].pc = "next" /\ tasks'[t].todo = Uncached(tasks[t].op) /\ tasks'[t].call = tasks[t].call
  BY <1>5, <1>8, Moving
<1>7. Advances(t, "next", Uncached(tasks[t].op), tasks[t].call)
  BY <1>1, <1>3, <1>4, <1>6 DEF Advances
<1> QED BY <1>1, <1>7 DEF Plans, Same

LEMMA ThrowKind ==
  ASSUME TypeOK, NEW t \in Tasks, tasks[t].pc \in Running, Throw(t)
  PROVE  GivesUp(t)
  BY Throwing DEF GivesUp

LEMMA AskKind ==
  ASSUME TypeOK, NEW t \in Tasks, tasks[t].pc = "next", NEW p \in tasks[t].todo,
         ~tasks[t].aborted, Ask(t, p, "asked")
  PROVE  GivesUp(t) \/ \E q \in Passage : Asks(t, q)
<1>1. CASE MayReserve(tasks[t].op)
  <2> DEFINE x == [tasks[t] EXCEPT !.pc = "asked", !.todo = tasks[t].todo \ {p},
                                   !.call = Len(calls) + 1]
  <2>1. /\ Reserve(tasks[t].op, p) /\ UNCHANGED <<records, active>>
        /\ tasks' = [tasks EXCEPT ![t] = x]
    BY <1>1 DEF Ask, Op
  <2>2. /\ p \in Passage /\ tasks[t].todo \ {p} \in SUBSET Passage
        /\ Len(calls) + 1 \in Nat /\ tasks[t].op \in 1..Len(ops)
    BY TaskRow, Lengths DEF Task
  <2>3. /\ OpsKept /\ NoneCompletes /\ CallsKept /\ Len(calls') = Len(calls) + 1
    BY <1>1, <2>1, <2>2, Reserving
  <2>4. ~Doomed(t)
    BY <1>1 DEF Doomed, Closed, MayReserve, Current
  <2>5. "asked" \in Running /\ "next" \in Running
    BY DEF Running
  <2>8. /\ x \in Task /\ x.service = tasks[t].service /\ x.op = tasks[t].op /\ x.prior = tasks[t].prior
        /\ x.aborted = tasks[t].aborted /\ x.pc = "asked" /\ x.todo = tasks[t].todo \ {p}
        /\ x.call = Len(calls) + 1
    BY <2>2, TaskRow DEF Task
  <2> HIDE DEF x
  <2>6. /\ Only(t) /\ Keeps(t) /\ tasks'[t].aborted = tasks[t].aborted
        /\ tasks'[t].pc = "asked" /\ tasks'[t].todo = tasks[t].todo \ {p}
        /\ tasks'[t].call = Len(calls) + 1
    BY <2>1, <2>8, Moving
  <2>7. Advances(t, "asked", tasks[t].todo \ {p}, Len(calls) + 1)
    BY <2>1, <2>2, <2>3, <2>4, <2>5, <2>6, Lengths DEF Advances
  <2> QED BY <1>1, <2>1, <2>2, <2>3, <2>4, <2>7 DEF Asks
<1>2. CASE ~MayReserve(tasks[t].op)
  <2>1. Throw(t)
    BY <1>2 DEF Ask, Op
  <2> QED BY <2>1, ThrowKind DEF Running
<1> QED BY <1>1, <1>2

LEMMA FailedKind ==
  ASSUME TypeOK, NEW t \in Tasks, HasCall(t), calls[tasks[t].call].op = tasks[t].op,
         FailCall(tasks[t].call)
  PROVE  OpsKept /\ NoneCompletes /\ CallsKept /\ ops'[tasks[t].op].state # "checking"
<1>1. PICK k \in 1..Len(calls) : k = tasks[t].call
  BY TaskRow
<1>2. FailCall(k)
  BY <1>1
<1> QED BY <1>1, <1>2, Failing

LEMMA AnswerKind ==
  ASSUME TypeOK, NEW t \in Tasks, calls[tasks[t].call].op = tasks[t].op, Answer(t)
  PROVE  Answers(t) \/ GetsNothing(t)
<1>1. tasks[t].pc \in {"asked", "retried"}
  BY DEF Answer, MaySettle, Asking, At
<1>2. HasCall(t) /\ tasks[t].pc \in Running
  BY <1>1 DEF HasCall, Running
<1>3. PICK k \in 1..Len(calls) : k = tasks[t].call
  BY <1>2, TaskRow
<1>4. CASE MayComplete(k)
  <2>1. Complete(k) /\ Goto(t, "next") /\ UNCHANGED active
    BY <1>3, <1>4 DEF Answer
  <2>2. OpsKept /\ NoneCompletes /\ CallsKept /\ Len(calls') = Len(calls)
    BY <2>1, Completing
  <2>3. "next" \in Running
    BY DEF Running
  <2>4. Advances(t, "next", tasks[t].todo, tasks[t].call)
    BY <1>2, <1>3, <2>1, <2>2, <2>3, Going, TaskRow DEF Advances
  <2> QED BY <1>1, <1>3, <1>4, <2>1, <2>2, <2>4 DEF Answers
<1>5. CASE ~MayComplete(k)
  <2>1. FailCall(tasks[t].call) /\ End(t) /\ UNCHANGED records
    BY <1>3, <1>5 DEF Answer
  <2>2. OpsKept /\ NoneCompletes /\ CallsKept /\ ops'[tasks[t].op].state # "checking"
    BY <1>2, <2>1, FailedKind
  <2> QED BY <1>1, <1>2, <2>1, <2>2, EndingTask DEF GetsNothing
<1> QED BY <1>4, <1>5

LEMMA NoAnswerKind ==
  ASSUME TypeOK, NEW t \in Tasks, calls[tasks[t].call].op = tasks[t].op, NoAnswer(t)
  PROVE  GetsNothing(t)
<1>1. tasks[t].pc \in {"asked", "retried"} /\ FailCall(tasks[t].call) /\ End(t) /\ UNCHANGED records
  BY DEF NoAnswer, MaySettle, Asking, At
<1>2. HasCall(t) /\ tasks[t].pc \in Running
  BY <1>1 DEF HasCall, Running
<1>3. OpsKept /\ NoneCompletes /\ CallsKept /\ ops'[tasks[t].op].state # "checking"
  BY <1>1, <1>2, FailedKind
<1> QED BY <1>1, <1>2, <1>3, EndingTask DEF GetsNothing

LEMMA TransientKind ==
  ASSUME TypeOK, NEW t \in Tasks, calls[tasks[t].call].op = tasks[t].op, Transient(t)
  PROVE  Retries(t)
<1>1. /\ tasks[t].pc = "asked" /\ FailCall(tasks[t].call) /\ Goto(t, "again")
      /\ UNCHANGED <<records, active>>
  BY DEF Transient, At
<1>2. HasCall(t) /\ tasks[t].pc \in Running /\ "again" \in Running
  BY <1>1 DEF HasCall, Running
<1>3. OpsKept /\ NoneCompletes /\ CallsKept /\ ops'[tasks[t].op].state # "checking"
  BY <1>1, <1>2, FailedKind
<1>4. tasks[t].call \in 1..Len(calls) /\ tasks[t].call \in 0..Len(calls')
  BY <1>2, <1>3, TaskRow, Lengths DEF CallsKept
<1>5. Advances(t, "again", tasks[t].todo, tasks[t].call)
  BY <1>1, <1>2, <1>3, <1>4, Going DEF Advances
<1> QED BY <1>1, <1>3, <1>5 DEF Retries

LEMMA FinishKind ==
  ASSUME TypeOK, NEW t \in Tasks, FinishCheck(t)
  PROVE  GivesUp(t) \/ Finishes(t)
<1>1. tasks[t].pc = "next" /\ tasks[t].todo = {} /\ tasks[t].pc \in Running
  BY DEF FinishCheck, At, Running
<1>2. CASE ~Current(tasks[t].op)
  <2>1. Throw(t)
    BY <1>2 DEF FinishCheck, Op
  <2> QED BY <1>1, <2>1, ThrowKind
<1>3. CASE Current(tasks[t].op)
  <2>1. /\ ops' = [ops EXCEPT ![tasks[t].op].state = "complete"] /\ End(t)
        /\ UNCHANGED <<calls, lease, records>>
    BY <1>3 DEF FinishCheck, Op
  <2>2. PICK n \in 1..Len(ops) : n = tasks[t].op
    BY TaskRow
  <2> DEFINE x == [ops[n] EXCEPT !.state = "complete"]
  <2>3. /\ x \in OpRow /\ x.candidate = ops[n].candidate /\ x.cycle = ops[n].cycle
        /\ x.state = "complete"
    BY ElementOfSeq, OpRowSet DEF TypeOK, States
  <2>4. ops' = [ops EXCEPT ![n] = x]
    BY <2>1, <2>2
  <2>5. /\ ops' \in Seq(OpRow) /\ Len(ops') = Len(ops)
        /\ \A m \in 1..Len(ops) : ops'[m] = IF m = n THEN x ELSE ops[m]
    <3> HIDE DEF x
    <3>1. ops \in Seq(OpRow)
      BY DEF TypeOK
    <3> QED BY <2>3, <2>4, <3>1, ExceptSeq
  <2> HIDE DEF x
  <2>6. OpsKept /\ ops'[n].state = "complete"
    BY <2>3, <2>5, Lengths, OpsBound DEF OpsKept, Closed
  <2>7. Ends(t)
    BY <1>1, <2>1, <2>2, <2>6, EndingTask
  <2> QED BY <1>1, <2>1, <2>2, <2>5, <2>6, <2>7 DEF Finishes
<1> QED BY <1>2, <1>3

CallsMatch == \A t \in Tasks : HasCall(t) => calls[tasks[t].call].op = tasks[t].op

LEMMA WorkIsTaskStep ==
  ASSUME TypeOK, CallsMatch, AgainIsClosed, NEW t \in 1..MaxTasks, Work(t)
  PROVE  t \in Tasks /\ TaskStep(t)
<1>1. t \in Tasks
  BY DEF Work, Proceed, MayProceed, Plan, Refuse, Dispatch, Answer, NoAnswer, Transient, MaySettle,
         Asking, AskAgain, FinishCheck, At, Tasks
<1>2. HasCall(t) => calls[tasks[t].call].op = tasks[t].op
  BY <1>1 DEF CallsMatch
<1>3. CASE Proceed(t)
  BY <1>1, <1>3, ProceedKind DEF TaskStep
<1>4. CASE Plan(t)
  BY <1>1, <1>4, PlanKind DEF TaskStep
<1>5. CASE Refuse(t)
  <2>1. tasks[t].pc \in Running /\ Throw(t)
    BY <1>5 DEF Refuse, At, Running
  <2> QED BY <1>1, <2>1, ThrowKind DEF TaskStep, Ending
<1>6. CASE Dispatch(t)
  <2>1. tasks[t].pc = "next" /\ tasks[t].pc \in Running
    BY <1>6 DEF Dispatch, At, Running
  <2>2. CASE tasks[t].aborted
    BY <1>1, <1>6, <2>1, <2>2, ThrowKind DEF Dispatch, TaskStep, Ending
  <2>3. CASE ~tasks[t].aborted
    <3>1. PICK p \in tasks[t].todo : Ask(t, p, "asked")
      BY <1>6, <2>3 DEF Dispatch
    <3> QED BY <1>1, <2>1, <2>3, <3>1, AskKind DEF TaskStep, Ending
  <2> QED BY <2>2, <2>3
<1>7. CASE Answer(t)
  <2>1. HasCall(t)
    BY <1>7 DEF Answer, MaySettle, Asking, At, HasCall
  <2> QED BY <1>1, <1>2, <1>7, <2>1, AnswerKind DEF TaskStep, Ending
<1>8. CASE NoAnswer(t)
  <2>1. HasCall(t)
    BY <1>8 DEF NoAnswer, MaySettle, Asking, At, HasCall
  <2> QED BY <1>1, <1>2, <1>8, <2>1, NoAnswerKind DEF TaskStep, Ending
<1>9. CASE Transient(t)
  <2>1. HasCall(t)
    BY <1>9 DEF Transient, At, HasCall
  <2> QED BY <1>1, <1>2, <1>9, <2>1, TransientKind DEF TaskStep
<1>10. CASE AskAgain(t)
  <2>1. tasks[t].pc = "again" /\ tasks[t].pc \in Running
    BY <1>10 DEF AskAgain, At, Running
  <2>2. ~MayReserve(tasks[t].op)
    BY <1>1, <2>1 DEF AgainIsClosed, Closed, MayReserve, Current
  <2>3. Throw(t)
    BY <1>10, <2>2 DEF AskAgain, Ask, Op
  <2> QED BY <1>1, <2>1, <2>3, ThrowKind DEF TaskStep, Ending
<1>11. CASE FinishCheck(t)
  BY <1>1, <1>11, FinishKind DEF TaskStep, Ending
<1> QED BY <1>1, <1>3, <1>4, <1>5, <1>6, <1>7, <1>8, <1>9, <1>10, <1>11 DEF Work

-----------------------------------------------------------------------------
(* Every step is one of few *)

Outside ==
  /\ Rests /\ UNCHANGED <<ops, calls, records>>
  /\ lease' \in [call : 0..Len(calls), live : BOOLEAN] /\ lease'.call = lease.call

LaunchStep(s, n) ==
  /\ Launches(s, n) /\ OpsKept /\ NoneCompletes
  /\ UNCHANGED <<calls, lease, records>>

Step ==
  \/ \E t \in Tasks : TaskStep(t)
  \/ \E s \in Service, n \in 1..MaxOps : LaunchStep(s, n)
  \/ \E t \in Tasks : Aborts(t) /\ Same
  \/ \E s \in Service : Crashes(s) /\ Same
  \/ Outside

LEMMA StartKind ==
  ASSUME TypeOK, NEW s \in Service, Start(s)
  PROVE  \E n \in 1..MaxOps : LaunchStep(s, n)
<1> DEFINE n == Len(ops) + 1
<1>1. PICK cycle \in {0, n}, candidate \in Candidate :
        ops' = Append(ops, [state |-> "checking", rev |-> rev, head |-> head, gen |-> gen,
                            cycle |-> cycle, candidate |-> candidate])
  BY DEF Start
<1> DEFINE row == [state |-> "checking", rev |-> rev, head |-> head, gen |-> gen,
                   cycle |-> cycle, candidate |-> candidate]
<1>2. /\ ops \in Seq(OpRow) /\ Len(ops) \in Nat /\ Len(ops) < MaxOps /\ MaxOps \in Nat
      /\ rev \in Nat /\ head \in Nat /\ gen \in Nat
  BY Lengths, SemanticAssumption DEF TypeOK, Start
<1>3. n \in 1..MaxOps
  BY <1>2
<1>4. row \in OpRow /\ row.state = "checking"
  BY <1>2, <1>3 DEF OpRow, Cycles
<1> HIDE DEF row
<1>5. /\ ops' \in Seq(OpRow) /\ Len(ops') = n /\ ops'[n] = row
      /\ \A m \in 1..Len(ops) : ops'[m] = ops[m]
  BY <1>1, <1>2, <1>4, AppendProperties DEF row
<1>6. OpsKept
  BY <1>2, <1>5 DEF OpsKept, Closed
<1>7. NoneCompletes
  BY <1>2, <1>4, <1>5 DEF NoneCompletes
<1>8. /\ Launch(s, n) /\ Idle(s) /\ UNCHANGED <<calls, lease, records>>
  BY DEF Start
<1>9. \A u \in Live : tasks[u].op = n => tasks[u].service = s
  BY <1>2, TaskRow DEF Live
<1>10. \A k \in 1..Len(calls) : calls[k].op # n
  BY <1>2, CallTyped
<1>11. n \in 1..Len(ops')
  BY <1>2, <1>5
<1>12. Launches(s, n)
  BY <1>3, <1>8, <1>9, <1>10, <1>11, Launching
<1> QED BY <1>3, <1>6, <1>7, <1>8, <1>12 DEF LaunchStep

LEMMA ReplayKind ==
  ASSUME TypeOK, NEW s \in Service, Replay(s)
  PROVE  \E n \in 1..MaxOps : LaunchStep(s, n)
<1>1. PICK n \in 1..Len(ops) :
        /\ \A t \in 1..Len(tasks) : Op(t) = n /\ tasks[t].service # s => At(t, "over")
        /\ Undispatched(n) /\ Launch(s, n)
  BY DEF Replay
<1>2. Idle(s) /\ UNCHANGED <<ops, calls, lease, records>>
  BY DEF Replay, store
<1>3. Len(ops) \in Nat /\ Len(ops) <= MaxOps /\ MaxOps \in Nat
  BY Lengths, OpsBound, SemanticAssumption
<1>4. n \in 1..MaxOps /\ n \in 1..Len(ops')
  BY <1>2, <1>3
<1>5. \A u \in Live : tasks[u].op = n => tasks[u].service = s
  BY <1>1 DEF Live, Tasks, Op, At
<1>6. \A k \in 1..Len(calls) : calls[k].op # n
  BY <1>1 DEF Undispatched
<1>7. Launches(s, n)
  BY <1>1, <1>2, <1>4, <1>5, <1>6, Launching
<1> QED BY <1>2, <1>4, <1>7, Unchanged DEF LaunchStep

LEMMA AbortKind ==
  ASSUME TypeOK, Abort
  PROVE  \E t \in Tasks : Aborts(t) /\ Same
<1>1. PICK t \in Tasks : ~At(t, "over") /\ Idle(tasks[t].service) /\ tasks' = Aborted(t)
  BY DEF Abort, Tasks
<1> DEFINE x == [tasks[t] EXCEPT !.aborted = TRUE]
<1>2. /\ x \in Task /\ x.service = tasks[t].service /\ x.op = tasks[t].op
      /\ x.prior = tasks[t].prior /\ x.aborted /\ x.pc = tasks[t].pc
      /\ x.todo = tasks[t].todo /\ x.call = tasks[t].call
  BY Flagged
<1>3. tasks' = [tasks EXCEPT ![t] = x]
  BY <1>1 DEF Aborted, Tasks
<1> HIDE DEF x
<1>4. Becomes(t, x)
  BY <1>2, <1>3, TaskSet
<1>5. Only(t) /\ Marked(t)
  BY <1>2, <1>4 DEF Becomes, Only, Marked, Keeps, Tasks
<1>6. t \in Live
  BY <1>1 DEF Live, At, Tasks
<1>7. UNCHANGED <<active, ops, calls, lease, records>>
  BY DEF Abort, store
<1> QED BY <1>1, <1>5, <1>6, <1>7 DEF Aborts, Same

LEMMA CrashKind ==
  ASSUME TypeOK, NEW s \in Service, Crash(s)
  PROVE  Crashes(s) /\ Same
<1> DEFINE f == [t \in 1..Len(tasks) |-> IF tasks[t].service = s THEN Settled(tasks[t]) ELSE tasks[t]]
<1>1. tasks' = f /\ active' = [active EXCEPT ![s] = 0] /\ UNCHANGED <<ops, calls, lease, records>>
  BY DEF Crash, store
<1>2. Len(tasks) \in Nat /\ f \in [1..Len(tasks) -> Task]
  BY Lengths, TaskRow, SettledTyped DEF Tasks
<1>3. f \in Seq(Task) /\ Len(f) = Len(tasks)
  BY <1>2 DEF f
<1>4. \A t \in Tasks : IF tasks[t].service = s
          THEN f[t].pc = "over" /\ f[t].op = tasks[t].op /\ f[t].prior = 0 /\ f[t].call = 0
          ELSE f[t] = tasks[t]
  BY SettledTyped DEF Tasks
<1> HIDE DEF f
<1> QED BY <1>1, <1>3, <1>4 DEF Crashes, Same, Over

LEMMA NextIsStep ==
  ASSUME TypeOK, CallsMatch, AgainIsClosed, [Next]_vars
  PROVE  Step
<1>1. CASE \E s \in Service : Start(s) \/ Replay(s) \/ Crash(s)
  BY <1>1, StartKind, ReplayKind, CrashKind DEF Step
<1>2. CASE \E t \in 1..MaxTasks : Work(t)
  BY <1>2, WorkIsTaskStep DEF Step
<1>3. CASE Abort
  BY <1>3, AbortKind DEF Step
<1>4. CASE EditJob \/ Clarify \/ StopProcessing \/ UNCHANGED vars
  <2>1. lease \in [call : 0..Len(calls), live : BOOLEAN]
    BY DEF TypeOK
  <2> QED BY <1>4, <2>1 DEF EditJob, Clarify, StopProcessing, vars, store, Step, Outside, Rests
<1>5. CASE Expire
  <2>1. lease \in [call : 0..Len(calls), live : BOOLEAN]
    BY DEF TypeOK
  <2> QED BY <1>5, <2>1 DEF Expire, Step, Outside, Rests
<1> QED BY <1>1, <1>2, <1>3, <1>4, <1>5 DEF Next

-----------------------------------------------------------------------------
(* Types *)

LEMMA CountersTyped ==
  ASSUME TypeOK, [Next]_vars
  PROVE  head' \in Nat /\ rev' \in 0..MaxEdits /\ gen' \in 0..MaxEdits /\ answers' \in 0..MaxEdits
<1>1. /\ head \in Nat /\ rev \in 0..MaxEdits /\ gen \in 0..MaxEdits /\ answers \in 0..MaxEdits
      /\ MaxEdits \in Nat
  BY SemanticAssumption DEF TypeOK
<1>2. CASE \E t \in 1..MaxTasks : Work(t)
  <2>1. head' \in {head, head + 1} /\ UNCHANGED <<rev, gen, answers>>
    BY <1>2 DEF Work, Proceed, Plan, Refuse, Dispatch, Answer, NoAnswer, Transient, AskAgain,
                FinishCheck, Ask, Throw, Complete, store
  <2> QED BY <1>1, <2>1
<1>3. CASE \E s \in Service : Start(s) \/ Replay(s) \/ Crash(s)
  BY <1>1, <1>3 DEF Start, Replay, Crash, store
<1>4. CASE EditJob \/ Clarify \/ StopProcessing \/ Expire \/ Abort \/ UNCHANGED vars
  BY <1>1, <1>4 DEF EditJob, Clarify, StopProcessing, Expire, Abort, MayEdit, vars, store
<1> QED BY <1>2, <1>3, <1>4 DEF Next

\* What every step keeps of the store.
StoreKept ==
  /\ OpsKept /\ CallsKept /\ records' \subseteq Passage /\ records \subseteq records'
  /\ lease' \in [call : 0..Len(calls'), live : BOOLEAN]
  /\ \A k \in 1..Len(calls') : calls'[k].op <= Len(ops')

LEMMA StepKeepsStore ==
  ASSUME TypeOK, Step
  PROVE  StoreKept
<1>1. /\ records \subseteq Passage /\ lease \in [call : 0..Len(calls), live : BOOLEAN]
      /\ Len(calls) \in Nat /\ Len(ops) \in Nat
  BY Lengths DEF TypeOK
<1>2. \A k \in 1..Len(calls) : calls[k].op \in 1..Len(ops)
  BY CallTyped
<1>11. ASSUME OpsKept, CallsKept, Len(calls') = Len(calls)
       PROVE  \A k \in 1..Len(calls') : calls'[k].op <= Len(ops')
  BY <1>1, <1>2, <1>11 DEF OpsKept, CallsKept
<1>3. ASSUME OpsKept, UNCHANGED calls, UNCHANGED records, UNCHANGED lease PROVE StoreKept
  BY <1>1, <1>2, <1>3, Unchanged DEF StoreKept, OpsKept
<1>4. ASSUME NEW t \in Tasks, HasCall(t), FailCall(tasks[t].call), UNCHANGED records PROVE StoreKept
  <2>1. PICK k \in 1..Len(calls) : k = tasks[t].call
    BY <1>4, TaskRow
  <2>2. FailCall(k)
    BY <1>4, <2>1
  <2>3. /\ CallsKept /\ OpsKept /\ Len(calls') = Len(calls)
        /\ lease' \in [call : 0..Len(calls), live : BOOLEAN]
    BY <2>2, Failing DEF Fails
  <2>4. lease' \in [call : 0..Len(calls'), live : BOOLEAN]
    BY <2>3
  <2>5. records \subseteq records' /\ records' \subseteq Passage
    BY <1>1, <1>4
  <2> QED BY <1>11, <2>3, <2>4, <2>5 DEF StoreKept
<1>5. ASSUME NEW t \in Tasks, Answers(t) PROVE StoreKept
  <2>4. HasCall(t)
    BY <1>5 DEF Answers, HasCall
  <2>1. PICK k \in 1..Len(calls) : k = tasks[t].call
    BY <2>4, TaskRow
  <2>2. Complete(k)
    BY <1>5, <2>1 DEF Answers
  <2>3. /\ CallsKept /\ OpsKept /\ Len(calls') = Len(calls) /\ lease' = NoLease
        /\ records' = records \cup {calls[k].passage} /\ records' \subseteq Passage
    BY <2>2, Completing
  <2>5. lease' \in [call : 0..Len(calls'), live : BOOLEAN]
    BY <1>1, <2>3 DEF NoLease
  <2>6. records \subseteq records'
    BY <2>3
  <2> QED BY <1>11, <2>3, <2>5, <2>6 DEF StoreKept
<1>6. ASSUME NEW t \in Tasks, NEW p \in Passage, Asks(t, p) PROVE StoreKept
  <2>1. PICK n \in 1..Len(ops) : n = tasks[t].op
    BY TaskRow
  <2>2. MayReserve(n) /\ Reserve(n, p) /\ UNCHANGED records
    BY <1>6, <2>1 DEF Asks
  <2>3. /\ OpsKept /\ CallsKept /\ Len(calls') = Len(calls) + 1
        /\ calls'[Len(calls) + 1] = [op |-> n, passage |-> p, result |-> "none"]
        /\ lease' = [call |-> Len(calls) + 1, live |-> TRUE]
    BY <2>2, Reserving
  <2>4. \A k \in 1..Len(calls') : calls'[k].op <= Len(ops')
    BY <1>1, <1>2, <2>3 DEF CallsKept, OpsKept
  <2> QED BY <1>1, <2>2, <2>3, <2>4 DEF StoreKept
<1>7. CASE Outside
  BY <1>1, <1>2, <1>7, Unchanged DEF Outside, StoreKept, OpsKept
<1>8. CASE \E s \in Service, n \in 1..MaxOps : LaunchStep(s, n)
  BY <1>3, <1>8 DEF LaunchStep
<1>9. ASSUME Same PROVE StoreKept
  BY <1>3, <1>9, Unchanged DEF Same
<1>10. ASSUME NEW t \in Tasks, TaskStep(t) PROVE StoreKept
  <2>1. CASE Retries(t)
    BY <1>4, <2>1 DEF Retries, HasCall
  <2>2. CASE GivesUp(t) \/ Finishes(t)
    BY <1>3, <2>2 DEF GivesUp, Finishes
  <2>3. CASE GetsNothing(t)
    BY <1>4, <2>3 DEF GetsNothing, HasCall
  <2>4. CASE Proceeds(t) /\ Same
    BY <1>9, <2>4
  <2>5. CASE Plans(t)
    BY <1>9, <2>5 DEF Plans
  <2> QED BY <1>5, <1>6, <1>10, <2>1, <2>2, <2>3, <2>4, <2>5 DEF TaskStep, Ending
<1> QED BY <1>7, <1>8, <1>9, <1>10 DEF Step

\* The kinds of change to the tasks and to the running one.
TasksStep ==
  \/ Rests
  \/ \E s \in Service, n \in 1..MaxOps : Launches(s, n)
  \/ \E t \in Tasks : Proceeds(t) \/ Aborts(t) \/ Ends(t)
  \/ \E t \in Tasks : \E pc, todo, call : Advances(t, pc, todo, call)
  \/ \E s \in Service : Crashes(s)

LEMMA StepOfTasks ==
  ASSUME Step
  PROVE  TasksStep
  BY DEF Step, TasksStep, TaskStep, Plans, Retries, Answers, Asks, Ending, GivesUp, GetsNothing,
         Finishes, LaunchStep, Outside

RowOK(t) ==
  /\ tasks[t].op <= Len(ops) /\ tasks[t].call <= Len(calls) /\ tasks[t].prior < t
  /\ tasks[t].pc = "waits" => tasks[t].prior # 0
  /\ tasks[t].pc \in {"asked", "again", "retried"} => tasks[t].call # 0
ActiveOK(s) ==
  active[s] # 0 => tasks[active[s]].service = s /\ tasks[active[s]].pc # "over"
TasksOK ==
  /\ tasks \in Seq(Task) /\ Len(tasks) <= MaxTasks /\ \A t \in Tasks : RowOK(t)
  /\ active \in [Service -> 0..Len(tasks)] /\ \A s \in Service : ActiveOK(s)

LEMMA TypeSplits ==
  TypeOK <=>
    /\ ops \in Seq(OpRow) /\ Len(ops) <= MaxOps
    /\ calls \in Seq(CallRow) /\ \A k \in 1..Len(calls) : calls[k].op <= Len(ops)
    /\ lease \in [call : 0..Len(calls), live : BOOLEAN]
    /\ records \subseteq Passage
    /\ head \in Nat /\ rev \in 0..MaxEdits /\ gen \in 0..MaxEdits /\ answers \in 0..MaxEdits
    /\ TasksOK
  BY DEF TypeOK, TasksOK, RowOK, ActiveOK, Tasks

\* Tasks that are left alone, or keep what their row needs, stay well typed.
LEMMA TasksTyped ==
  ASSUME TypeOK, StoreKept, TasksStep
  PROVE  TasksOK'
<1>1. /\ tasks \in Seq(Task) /\ Len(tasks) \in Nat /\ Len(tasks) <= MaxTasks
      /\ Len(ops) \in Nat /\ Len(ops') \in Nat /\ Len(calls) \in Nat /\ Len(calls') \in Nat
      /\ Len(ops) <= Len(ops') /\ Len(calls) <= Len(calls')
  BY Lengths, LenProperties DEF TypeOK, StoreKept, OpsKept, CallsKept
<1>2. /\ active \in [Service -> 0..Len(tasks)] /\ \A s \in Service : ActiveOK(s)
      /\ \A t \in Tasks : RowOK(t) /\ tasks[t] \in Task /\ t \in Nat
  BY TaskRow, TypeSplits DEF TasksOK
<1>3. \A t \in Tasks : /\ tasks[t].op \in Nat /\ tasks[t].call \in Nat /\ tasks[t].prior \in Nat
                       /\ tasks[t].service \in Service
  BY <1>2 DEF Task
<1>4. ASSUME NEW t \in Tasks, tasks'[t] = tasks[t] PROVE RowOK(t)'
  BY <1>1, <1>2, <1>3, <1>4 DEF RowOK
<1>5. ASSUME NEW t \in Tasks, Only(t), RowOK(t)',
             UNCHANGED active, tasks'[t].service = tasks[t].service, tasks'[t].pc # "over"
      PROVE  TasksOK'
  <2>1. tasks' \in Seq(Task) /\ Len(tasks') <= MaxTasks /\ Tasks' = Tasks
    BY <1>1, <1>5 DEF Only, Tasks
  <2>2. \A u \in Tasks : RowOK(u)'
    BY <1>4, <1>5 DEF Only
  <2>3. active' \in [Service -> 0..Len(tasks')]
    BY <1>2, <1>5 DEF Only
  <2>4. ASSUME NEW s \in Service PROVE ActiveOK(s)'
    BY <1>2, <1>5 DEF ActiveOK, Only, Tasks
  <2> QED BY <2>1, <2>2, <2>3, <2>4 DEF TasksOK
<1>6. CASE Rests
  <2>1. Tasks' = Tasks
    BY <1>6 DEF Rests, Tasks
  <2> QED BY <1>1, <1>2, <1>4, <1>6, <2>1 DEF Rests, TasksOK, ActiveOK
<1>7. ASSUME NEW t \in Tasks, Proceeds(t) PROVE TasksOK'
  <2>1. RowOK(t)'
    <3>1. RowOK(t) /\ tasks[t].op \in Nat
      BY <1>2, <1>3
    <3>2. tasks'[t].call = tasks[t].call
      BY <1>7 DEF Proceeds
    <3> QED BY <1>1, <1>7, <3>1, <3>2 DEF Proceeds, RowOK, Keeps
  <2> QED BY <1>5, <1>7, <2>1 DEF Proceeds, Keeps
<1>8. ASSUME NEW t \in Tasks, Aborts(t) PROVE TasksOK'
  <2>1. RowOK(t)'
    <3>1. RowOK(t) /\ tasks[t].op \in Nat
      BY <1>2, <1>3
    <3> QED BY <1>1, <1>8, <3>1 DEF Aborts, Marked, Keeps, RowOK
  <2> QED BY <1>5, <1>8, <2>1 DEF Aborts, Marked, Keeps, Live
<1>9. ASSUME NEW t \in Tasks, NEW pc, NEW todo, NEW call, Advances(t, pc, todo, call) PROVE TasksOK'
  <2>1. RowOK(t)'
    <3>1. RowOK(t) /\ tasks[t].op \in Nat
      BY <1>2, <1>3
    <3>2. call \in 0..Len(calls') /\ (pc \in {"asked", "again", "retried"} => call # 0) /\ pc # "waits"
      BY <1>9 DEF Advances, Running
    <3> QED BY <1>1, <1>9, <3>1, <3>2 DEF Advances, RowOK, Keeps
  <2>2. pc # "over"
    BY <1>9 DEF Advances, Running
  <2> QED BY <1>5, <1>9, <2>1, <2>2 DEF Advances, Keeps
<1>10. ASSUME NEW t \in Tasks, Ends(t) PROVE TasksOK'
  <2> DEFINE s == tasks[t].service
  <2>1. RowOK(t)'
    <3>1. RowOK(t) /\ tasks[t].op \in Nat /\ t # 0 /\ t \in Nat
      BY <1>1, <1>2, <1>3 DEF Tasks
    <3>2. /\ tasks'[t].op = tasks[t].op /\ tasks'[t].pc = "over"
          /\ tasks'[t].prior = 0 /\ tasks'[t].call = 0
      BY <1>10 DEF Ends, Over
    <3> QED BY <1>1, <3>1, <3>2 DEF RowOK
  <2>2. tasks' \in Seq(Task) /\ Len(tasks') <= MaxTasks /\ Tasks' = Tasks /\ Len(tasks') = Len(tasks)
    BY <1>1, <1>10 DEF Ends, Only, Tasks
  <2>3. \A u \in Tasks : RowOK(u)'
    BY <1>4, <1>10, <2>1 DEF Ends, Only
  <2>4. s \in Service /\ active' = [active EXCEPT ![s] = Forget(@, t)]
    BY <1>3, <1>10 DEF Ends
  <2>5. active' \in [Service -> 0..Len(tasks')]
    BY <1>1, <1>2, <2>2, <2>4 DEF Forget
  <2>6. ASSUME NEW r \in Service PROVE ActiveOK(r)'
    <3>1. active'[r] # 0 => active'[r] = active[r] /\ active[r] # t
      BY <1>2, <2>4 DEF Forget, Op, ActiveOK
    <3>2. active[r] # 0 => active[r] \in Tasks
      BY <1>1, <1>2 DEF Tasks
    <3> QED BY <1>2, <1>10, <3>1, <3>2 DEF Ends, Only, ActiveOK
  <2> QED BY <2>2, <2>3, <2>5, <2>6 DEF TasksOK
<1>11. ASSUME NEW s \in Service, Crashes(s) PROVE TasksOK'
  <2>1. tasks' \in Seq(Task) /\ Len(tasks') <= MaxTasks /\ Tasks' = Tasks /\ Len(tasks') = Len(tasks)
    BY <1>1, <1>11 DEF Crashes, Tasks
  <2>2. ASSUME NEW u \in Tasks PROVE RowOK(u)'
    <3>1. RowOK(u) /\ tasks[u].op \in Nat /\ u # 0 /\ u \in Nat
      BY <1>1, <1>2, <1>3 DEF Tasks
    <3>2. Over(u) \/ tasks'[u] = tasks[u]
      BY <1>11 DEF Crashes
    <3> QED BY <1>1, <1>4, <3>1, <3>2 DEF Over, RowOK
  <2>3. active' = [active EXCEPT ![s] = 0]
    BY <1>11 DEF Crashes
  <2>4. active' \in [Service -> 0..Len(tasks')]
    BY <1>1, <1>2, <2>1, <2>3
  <2>5. ASSUME NEW r \in Service PROVE ActiveOK(r)'
    <3>1. active'[r] # 0 => active'[r] = active[r] /\ r # s
      BY <1>2, <2>3
    <3>2. active[r] # 0 => active[r] \in Tasks
      BY <1>1, <1>2 DEF Tasks
    <3> QED BY <1>2, <1>11, <3>1, <3>2 DEF Crashes, ActiveOK
  <2> QED BY <2>1, <2>2, <2>4, <2>5 DEF TasksOK
<1>12. ASSUME NEW s \in Service, NEW n \in 1..MaxOps, Launches(s, n) PROVE TasksOK'
  <2> DEFINE a == active[s]
  <2>9. PICK N \in Nat : N = Len(tasks) + 1
    BY <1>1
  <2>1. /\ tasks' \in Seq(Task) /\ Len(tasks') <= MaxTasks /\ Len(tasks') = N
        /\ Tasks' = Tasks \cup {N} /\ N \in Nat
    BY <1>1, <1>12, <2>9 DEF Launches, Tasks
  <2>2. /\ tasks'[N].service = s /\ tasks'[N].op = n /\ tasks'[N].prior = a /\ tasks'[N].call = 0
        /\ tasks'[N].pc = IF a = 0 THEN "begins" ELSE "waits"
    BY <1>12, <2>9 DEF Launches, AwaitsPrior
  <2>3. n <= Len(ops') /\ a \in 0..Len(tasks)
    BY <1>1, <1>2, <1>12 DEF Launches
  <2>4. RowOK(N)'
    BY <1>1, <2>1, <2>2, <2>3, <2>9 DEF RowOK
  <2>5. ASSUME NEW u \in Tasks PROVE RowOK(u)'
    <3>1. RowOK(u) /\ tasks[u].op \in Nat
      BY <1>2, <1>3
    <3>2. Marked(u) \/ tasks'[u] = tasks[u]
      BY <1>12 DEF Launches
    <3>3. CASE Marked(u)
      <4>1. /\ tasks'[u].op = tasks[u].op /\ tasks'[u].call = tasks[u].call
            /\ tasks'[u].prior = tasks[u].prior /\ tasks'[u].pc = tasks[u].pc
        BY <3>3 DEF Marked, Keeps
      <4>2. tasks[u].call \in Nat
        BY <1>3
      <4> QED BY <1>1, <3>1, <4>1, <4>2 DEF RowOK
    <3> QED BY <1>4, <3>2, <3>3
  <2>6. active' = [active EXCEPT ![s] = N]
    BY <1>12, <2>9 DEF Launches
  <2>7. active' \in [Service -> 0..Len(tasks')]
    BY <1>1, <1>2, <2>1, <2>6, <2>9
  <2>8. ASSUME NEW r \in Service PROVE ActiveOK(r)'
    <3>1. CASE r = s
      <4>1. active'[r] = N
        BY <1>2, <2>6, <3>1
      <4> QED BY <2>2, <3>1, <4>1 DEF ActiveOK
    <3>2. CASE r # s
      <4>1. active'[r] = active[r]
        BY <1>2, <2>6, <3>2
      <4>2. active[r] # 0 => active[r] \in Tasks
        BY <1>1, <1>2 DEF Tasks
      <4>3. \A u \in Tasks : tasks'[u].service = tasks[u].service /\ tasks'[u].pc = tasks[u].pc
        BY <1>12 DEF Launches, Marked, Keeps
      <4>4. PICK v : v = active[r]
        OBVIOUS
      <4>5. ActiveOK(r)
        BY <1>2
      <4> QED BY <4>1, <4>2, <4>3, <4>4, <4>5 DEF ActiveOK
    <3> QED BY <3>1, <3>2
  <2> QED BY <2>1, <2>4, <2>5, <2>7, <2>8 DEF TasksOK
<1> QED BY <1>6, <1>7, <1>8, <1>9, <1>10, <1>11, <1>12 DEF TasksStep

-----------------------------------------------------------------------------
(* The line of a service *)

\* Of two live tasks of a service the later one waits for the earlier one or for
\* one between them, and somebody waits for the earlier one.
InLine ==
  \A t, u \in Live : t < u /\ Mates(t, u) =>
    /\ tasks[u].pc = "waits"
    /\ \/ tasks[u].prior = t
       \/ tasks[u].prior > t /\ tasks[u].prior \in Live /\ Mates(tasks[u].prior, u)
    /\ \E w \in Live : Mates(t, w) /\ tasks[w].pc = "waits" /\ tasks[w].prior = t
NewestIsActive ==
  \A t \in Live : active[tasks[t].service] # 0 => t <= active[tasks[t].service]
\* Only the running check of a service can still ask.
OthersDoomed == \A t \in Live : t # active[tasks[t].service] => Doomed(t)
\* When the service has forgotten its running check, what is left goes on first.
Due(t) == InExecute(t) \/ MayProceed(t)
LeftoversFirst ==
  \A t \in Live : active[tasks[t].service] = 0 => \E w \in Tasks : Mates(t, w) /\ Due(w)
LineInv == InLine /\ NewestIsActive /\ OthersDoomed /\ LeftoversFirst /\ AgainIsClosed

LEMMA ServiceTyped ==
  ASSUME TypeOK, NEW t \in Tasks
  PROVE  /\ tasks[t].service \in Service /\ tasks[t].op \in 1..Len(ops)
         /\ tasks[t].prior \in 0..(t - 1) /\ t \in Nat /\ t # 0
         /\ active[tasks[t].service] \in 0..Len(tasks)
<1>1. tasks[t] \in Task /\ tasks[t].op \in 1..Len(ops) /\ tasks[t].prior < t /\ t \in Nat /\ t # 0
  BY TaskRow DEF TypeOK, Tasks
<1>2. active \in [Service -> 0..Len(tasks)]
  BY DEF TypeOK
<1> QED BY <1>1, <1>2 DEF Task

\* A step that moves no task in or out of waiting, and ends none.
Stands ==
  /\ Len(tasks') = Len(tasks) /\ UNCHANGED active
  /\ \A u \in Tasks :
       /\ Keeps(u) /\ (tasks[u].aborted => tasks'[u].aborted)
       /\ tasks'[u].pc = "over" <=> tasks[u].pc = "over"
       /\ tasks'[u].pc = "waits" <=> tasks[u].pc = "waits"

LEMMA StandsKeepsLine ==
  ASSUME TypeOK, LineInv, OpsKept, Stands
  PROVE  InLine' /\ NewestIsActive' /\ OthersDoomed'
<1>1. Tasks' = Tasks /\ Live' = Live /\ \A t \in Tasks : tasks[t].op \in 1..Len(ops)
  BY ServiceTyped DEF Stands, Tasks, Live
<1>2. InLine'
  <2>1. InLine /\ \A u \in Live : u \in Tasks
    BY DEF LineInv, Live
  <2>2. ASSUME NEW t \in Live, NEW u \in Live, t < u, Mates(t, u)'
        PROVE  /\ tasks'[u].pc = "waits"
               /\ \/ tasks'[u].prior = t
                  \/ tasks'[u].prior > t /\ tasks'[u].prior \in Live /\ Mates(tasks[u].prior, u)'
               /\ \E w \in Live : Mates(t, w)' /\ tasks'[w].pc = "waits" /\ tasks'[w].prior = t
    <3>1. Mates(t, u)
      BY <2>1, <2>2 DEF Mates, Stands, Keeps
    <3>2. PICK p : p = tasks[u].prior
      OBVIOUS
    <3>3. /\ tasks[u].pc = "waits" /\ (p = t \/ (p > t /\ p \in Live /\ Mates(p, u)))
          /\ \E w \in Live : Mates(t, w) /\ tasks[w].pc = "waits" /\ tasks[w].prior = t
      BY <2>1, <2>2, <3>1, <3>2 DEF InLine
    <3>4. tasks'[u].prior = p
      BY <2>1, <3>2 DEF Stands, Keeps
    <3> QED BY <2>1, <3>2, <3>3, <3>4 DEF Mates, Stands, Keeps
  <2> QED BY <1>1, <2>2 DEF InLine
<1>3. NewestIsActive'
  BY <1>1 DEF LineInv, NewestIsActive, Stands, Keeps, Live
<1>4. OthersDoomed'
  BY <1>1 DEF LineInv, OthersDoomed, Doomed, Closed, OpsKept, Stands, Keeps, Live
<1> QED BY <1>2, <1>3, <1>4

\* What goes on first still does, unless it is the task that moved.
LEMMA StandsKeepsLeftovers ==
  ASSUME TypeOK, LineInv, Stands,
         \A w \in Tasks : Due(w) => Due(w)' \/ active[tasks[w].service] # 0
  PROVE  LeftoversFirst'
<1>1. Tasks' = Tasks /\ Live' = Live /\ \A t \in Live : t \in Tasks
  BY DEF Stands, Tasks, Live
<1> QED BY <1>1 DEF LineInv, LeftoversFirst, Stands, Keeps, Mates

\* A task that may go on may still do so.
LEMMA DueKept ==
  ASSUME TypeOK, NEW w \in Tasks, Due(w), Len(tasks') >= Len(tasks),
         tasks'[w].pc = tasks[w].pc, tasks'[w].prior = tasks[w].prior,
         \A u \in Tasks : tasks[u].pc = "over" => tasks'[u].pc = "over"
  PROVE  Due(w)'
<1>1. w \in 1..Len(tasks') /\ w \in 1..Len(tasks)
  BY LenProperties, Lengths DEF Tasks, TypeOK
<1>2. CASE InExecute(w)
  BY <1>1, <1>2 DEF InExecute, At, Due
<1>3. CASE MayProceed(w)
  <2>1. PICK p : p = tasks[w].prior
    OBVIOUS
  <2>2. tasks[w].pc = "waits" /\ tasks[p].pc = "over" /\ p \in Tasks
    <3>1. tasks[w].pc = "waits" /\ p # 0 /\ p \in 0..(w - 1)
      BY <1>3, <2>1, ServiceTyped DEF MayProceed, At, TypeOK, Tasks
    <3> QED BY <1>3, <2>1, <3>1, Lengths DEF MayProceed, Tasks
  <2> QED BY <1>1, <2>1, <2>2 DEF Due, MayProceed, At
<1> QED BY <1>2, <1>3 DEF Due

LEMMA DoomedKept ==
  ASSUME TypeOK, OpsKept, NEW t \in Tasks, Doomed(t),
         tasks'[t].op = tasks[t].op, tasks[t].aborted => tasks'[t].aborted
  PROVE  Doomed(t)'
<1>1. tasks[t].op \in 1..Len(ops)
  BY ServiceTyped
<1> QED BY <1>1 DEF Doomed, Closed, OpsKept

\* Tasks that ask again have had their check closed.
LEMMA AgainKept ==
  ASSUME TypeOK, AgainIsClosed, OpsKept,
         \A u \in Tasks' : tasks'[u].pc = "again" =>
           \/ u \in Tasks /\ tasks[u].pc = "again" /\ tasks'[u].op = tasks[u].op
           \/ Closed(tasks[u].op)' /\ tasks'[u].op = tasks[u].op
  PROVE  AgainIsClosed'
<1>1. ASSUME NEW u \in Tasks', tasks'[u].pc = "again" PROVE ops'[tasks'[u].op].state # "checking"
  <2>1. CASE u \in Tasks /\ tasks[u].pc = "again" /\ tasks'[u].op = tasks[u].op
    <3>1. tasks[u].op \in 1..Len(ops) /\ Closed(tasks[u].op)
      BY <2>1, ServiceTyped DEF AgainIsClosed
    <3>2. PICK n \in 1..Len(ops) : n = tasks[u].op
      BY <3>1
    <3> QED BY <2>1, <3>1, <3>2 DEF OpsKept, Closed
  <2>2. CASE Closed(tasks[u].op)' /\ tasks'[u].op = tasks[u].op
    BY <2>2 DEF Closed
  <2> QED BY <1>1, <2>1, <2>2
<1> QED BY <1>1 DEF AgainIsClosed, Closed

LEMMA LineAtRest ==
  ASSUME TypeOK, LineInv, OpsKept, Rests
  PROVE  LineInv'
<1>1. Stands /\ Tasks' = Tasks
  BY DEF Rests, Stands, Keeps, Tasks
<1>2. \A w \in Tasks : Due(w) => Due(w)'
  BY DEF Rests, Due, InExecute, MayProceed, At
<1>3. LeftoversFirst'
  BY <1>1, <1>2, StandsKeepsLeftovers
<1>4. AgainIsClosed'
  BY <1>1, AgainKept DEF LineInv, Rests
<1> QED BY <1>1, <1>3, <1>4, StandsKeepsLine DEF LineInv

LEMMA LineOnAbort ==
  ASSUME TypeOK, LineInv, OpsKept, NEW t \in Tasks, Aborts(t)
  PROVE  LineInv'
<1>1. Stands /\ Tasks' = Tasks
  BY DEF Aborts, Only, Marked, Stands, Keeps, Tasks
<1>2. ASSUME NEW w \in Tasks, Due(w) PROVE Due(w)'
  <2>1. tasks'[w].pc = tasks[w].pc /\ tasks'[w].prior = tasks[w].prior
    BY DEF Aborts, Only, Marked, Keeps
  <2> QED BY <1>1, <1>2, <2>1, DueKept, Lengths DEF Stands
<1>3. LeftoversFirst'
  BY <1>1, <1>2, StandsKeepsLeftovers
<1>4. AgainIsClosed'
  BY <1>1, AgainKept DEF LineInv, Aborts, Only, Marked, Keeps
<1> QED BY <1>1, <1>3, <1>4, StandsKeepsLine DEF LineInv

LEMMA LineOnAdvance ==
  ASSUME TypeOK, LineInv, OpsKept, NEW t \in Tasks, NEW pc, NEW todo, NEW call,
         Advances(t, pc, todo, call)
  PROVE  LineInv'
<1>1. Stands /\ Tasks' = Tasks
  BY DEF Advances, Only, Running, Stands, Keeps, Tasks
<1>2. ASSUME NEW w \in Tasks, Due(w) PROVE Due(w)' \/ active[tasks[w].service] # 0
  <2>1. CASE w # t
    <3>1. tasks'[w].pc = tasks[w].pc /\ tasks'[w].prior = tasks[w].prior
      BY <2>1 DEF Advances, Only
    <3> QED BY <1>1, <1>2, <3>1, DueKept, Lengths DEF Stands
  <2>2. CASE w = t /\ pc \in {"asked", "retried"}
    <3>1. ~Doomed(t) /\ t \in Live
      BY <2>2 DEF Advances, Live, Running
    <3>2. t = active[tasks[t].service]
      BY <3>1 DEF LineInv, OthersDoomed
    <3> QED BY <2>2, <3>2, ServiceTyped
  <2>3. CASE w = t /\ pc \in {"begins", "next", "again"}
    BY <1>1, <2>3 DEF Advances, Due, InExecute, At, Tasks
  <2> QED BY <2>1, <2>2, <2>3 DEF Advances, Running
<1>3. LeftoversFirst'
  BY <1>1, <1>2, StandsKeepsLeftovers
<1>4. AgainIsClosed'
  <2>1. ASSUME NEW u \in Tasks', tasks'[u].pc = "again"
        PROVE  \/ u \in Tasks /\ tasks[u].pc = "again" /\ tasks'[u].op = tasks[u].op
               \/ Closed(tasks[u].op)' /\ tasks'[u].op = tasks[u].op
    <3>1. CASE u # t
      BY <1>1, <2>1, <3>1 DEF Advances, Only
    <3>2. CASE u = t
      BY <2>1, <3>2 DEF Advances, Keeps, Closed
    <3> QED BY <3>1, <3>2
  <2> QED BY <2>1, AgainKept DEF LineInv
<1> QED BY <1>1, <1>3, <1>4, StandsKeepsLine DEF LineInv

\* The three parts of InLine, for one pair.
Waiting(t, u) ==
  /\ tasks[u].pc = "waits"
  /\ \/ tasks[u].prior = t
     \/ tasks[u].prior > t /\ tasks[u].prior \in Live /\ Mates(tasks[u].prior, u)
Follower(t, w) == w \in Live /\ Mates(t, w) /\ tasks[w].pc = "waits" /\ tasks[w].prior = t

LEMMA InLineSplits ==
  InLine <=> \A t, u \in Live : t < u /\ Mates(t, u) => Waiting(t, u) /\ \E w : Follower(t, w)
  BY DEF InLine, Waiting, Follower

\* A pair keeps its place when neither it nor what stands between them moves.
LEMMA WaitingKept ==
  ASSUME NEW t, NEW u, Waiting(t, u), tasks'[u].pc = "waits", tasks'[u].prior = tasks[u].prior,
         tasks'[u].service = tasks[u].service,
         ASSUME NEW p, p = tasks[u].prior, p > t, p \in Live, Mates(p, u)
         PROVE  p \in Live' /\ tasks'[p].service = tasks[p].service
  PROVE  Waiting(t, u)'
<1>1. PICK p : p = tasks[u].prior
  OBVIOUS
<1> QED BY <1>1 DEF Waiting, Mates

LEMMA LineOnProceed ==
  ASSUME TypeOK, LineInv, OpsKept, NEW t \in Tasks, Proceeds(t)
  PROVE  LineInv'
<1>1. /\ Tasks' = Tasks /\ Live' = Live /\ UNCHANGED active
      /\ \A u \in Tasks : Keeps(u) /\ tasks'[u].aborted = tasks[u].aborted
      /\ \A u \in Tasks : u # t => tasks'[u] = tasks[u]
      /\ \A u \in Live : u \in Tasks
  BY DEF Proceeds, Only, Keeps, Tasks, Live, MayProceed, At
<1>2. tasks[t].pc = "waits" /\ t \in Live /\ tasks[t].prior \notin Live
  BY DEF Proceeds, MayProceed, At, Live
<1>3. InLine'
  <2>1. ASSUME NEW u \in Live, NEW v \in Live, u < v, Mates(u, v)'
        PROVE  Waiting(u, v)' /\ \E w : Follower(u, w)'
    <3>1. Mates(u, v)
      BY <1>1, <2>1 DEF Mates, Keeps
    <3>2. Waiting(u, v) /\ \E w : Follower(u, w)
      BY <2>1, <3>1, InLineSplits DEF LineInv
    <3>3. v # t
      BY <1>2, <3>2, <2>1 DEF Waiting
    <3>4. Waiting(u, v)'
      BY <1>1, <2>1, <3>2, <3>3, WaitingKept DEF Keeps, Waiting
    <3>5. PICK w : Follower(u, w)
      BY <3>2
    <3>6. w # t
      BY <1>2, <2>1, <3>5 DEF Follower
    <3> QED BY <1>1, <2>1, <3>4, <3>5, <3>6 DEF Follower, Mates, Keeps
  <2> QED BY <1>1, <2>1 DEF InLine, Waiting, Follower
<1>4. NewestIsActive'
  BY <1>1 DEF LineInv, NewestIsActive, Keeps
<1>5. OthersDoomed'
  <2>1. ASSUME NEW u \in Live, u # active[tasks[u].service] PROVE Doomed(u)'
    <3>1. Doomed(u)
      BY <2>1 DEF LineInv, OthersDoomed
    <3> QED BY <1>1, <3>1, DoomedKept DEF Keeps
  <2> QED BY <1>1, <2>1 DEF OthersDoomed, Keeps
<1>6. LeftoversFirst'
  <2>1. ASSUME NEW u \in Live, active[tasks[u].service] = 0
        PROVE  \E w \in Tasks : Mates(u, w)' /\ Due(w)'
    <3>1. CASE Mates(u, t)
      <4>1. Due(t)'
        BY <1>1 DEF Proceeds, Due, InExecute, At, Tasks
      <4>2. Mates(u, t)'
        BY <1>1, <3>1 DEF Mates, Keeps
      <4> QED BY <4>1, <4>2
    <3>2. CASE ~Mates(u, t)
      <4>1. PICK w \in Tasks : Mates(u, w) /\ Due(w)
        BY <2>1 DEF LineInv, LeftoversFirst
      <4>2. tasks'[w] = tasks[w]
        BY <1>1, <3>2, <4>1
      <4>3. Due(w)'
        <5>1. \A v \in Tasks : tasks[v].pc = "over" => tasks'[v].pc = "over"
          BY <1>1, <1>2
        <5>2. Len(tasks') >= Len(tasks)
          BY Lengths DEF Proceeds, Only
        <5> QED BY <4>1, <4>2, <5>1, <5>2, DueKept
      <4> QED BY <1>1, <4>1, <4>3 DEF Mates, Keeps
    <3> QED BY <3>1, <3>2
  <2> QED BY <1>1, <2>1 DEF LeftoversFirst, Keeps
<1>7. AgainIsClosed'
  <2>1. \A u \in Tasks' : tasks'[u].pc = "again" =>
          u \in Tasks /\ tasks[u].pc = "again" /\ tasks'[u].op = tasks[u].op
    BY <1>1 DEF Proceeds
  <2> QED BY <2>1, AgainKept DEF LineInv
<1> QED BY <1>3, <1>4, <1>5, <1>6, <1>7 DEF LineInv

LEMMA LineOnEnd ==
  ASSUME TypeOK, LineInv, OpsKept, NEW t \in Tasks, Ends(t)
  PROVE  LineInv'
<1> DEFINE s == tasks[t].service
<1>1. /\ Tasks' = Tasks /\ Live' = Live \ {t} /\ t \in Live
      /\ \A u \in Tasks : u # t => tasks'[u] = tasks[u]
      /\ \A u \in Live : u \in Tasks
      /\ tasks[t].pc # "waits" /\ tasks'[t].pc = "over"
  BY DEF Ends, Over, Only, Tasks, Live, Running
<1>2. /\ \A r \in Service : active'[r] = active[r] \/ (active'[r] = 0 /\ r = s)
      /\ active'[s] = 0 \/ tasks[active[s]].op # tasks[t].op
  BY ServiceTyped DEF Ends, Forget, Op, TypeOK
<1>3. \A u \in Live : u < t /\ Mates(u, t) => FALSE
  BY <1>1, InLineSplits DEF LineInv, Waiting
<1>4. InLine'
  <2>1. ASSUME NEW u \in Live, NEW v \in Live, u # t, v # t, u < v, Mates(u, v)'
        PROVE  Waiting(u, v)' /\ \E w : Follower(u, w)'
    <3>1. Mates(u, v)
      BY <1>1, <2>1 DEF Mates
    <3>2. Waiting(u, v) /\ \E w : Follower(u, w)
      BY <2>1, <3>1, InLineSplits DEF LineInv
    <3>3. ASSUME NEW p, p = tasks[v].prior, p > u, p \in Live, Mates(p, v)
          PROVE  p \in Live' /\ tasks'[p].service = tasks[p].service
      <4>1. p # t
        BY <1>3, <2>1, <3>1, <3>3 DEF Mates
      <4> QED BY <1>1, <3>3, <4>1
    <3>4. Waiting(u, v)'
      <4>1. tasks'[v] = tasks[v] /\ tasks[v].pc = "waits"
        BY <1>1, <2>1, <3>2 DEF Waiting
      <4> QED BY <3>2, <3>3, <4>1, WaitingKept
    <3>5. PICK w : Follower(u, w)
      BY <3>2
    <3>6. w # t
      BY <1>1, <3>5 DEF Follower
    <3> QED BY <1>1, <2>1, <3>4, <3>5, <3>6 DEF Follower, Mates
  <2> QED BY <1>1, <2>1 DEF InLine, Waiting, Follower
<1>5. NewestIsActive'
  BY <1>1, <1>2, ServiceTyped DEF LineInv, NewestIsActive
<1>6. OthersDoomed'
  <2>1. ASSUME NEW u \in Live, u # t, u # active'[tasks[u].service] PROVE Doomed(u)'
    <3>1. CASE u # active[tasks[u].service]
      <4>1. Doomed(u)
        BY <2>1, <3>1 DEF LineInv, OthersDoomed
      <4> QED BY <1>1, <2>1, <4>1, DoomedKept
    <3>2. CASE u = active[tasks[u].service]
      <4>1. tasks[u].service = s /\ tasks[u].op = tasks[t].op
        BY <1>1, <1>2, <2>1, <3>2, ServiceTyped DEF Ends, Forget, Op, TypeOK
      <4> QED BY <1>1, <2>1, <4>1 DEF Ends, Doomed, Closed
    <3> QED BY <3>1, <3>2
  <2> QED BY <1>1, <2>1 DEF OthersDoomed
<1>7. LeftoversFirst'
  <2>1. ASSUME NEW u \in Live, u # t, active'[tasks[u].service] = 0
        PROVE  \E w \in Tasks : Mates(u, w)' /\ Due(w)'
    <3>1. CASE Mates(u, t)
      <4>1. u > t
        BY <1>1, <1>3, <2>1, <3>1, ServiceTyped
      <4>2. PICK w : Follower(t, w)
        BY <1>1, <3>1, <4>1, InLineSplits DEF LineInv, Mates
      <4>3. w # t /\ w \in Tasks /\ tasks'[w] = tasks[w]
        BY <1>1, <4>2 DEF Follower
      <4>4. w \in 1..Len(tasks') /\ tasks'[w].pc = "waits" /\ tasks'[w].prior = t
        BY <1>1, <4>2, <4>3 DEF Follower, Tasks
      <4>5. Due(w)'
        BY <1>1, <4>4 DEF Due, MayProceed, At
      <4> QED BY <1>1, <2>1, <3>1, <4>2, <4>3, <4>5 DEF Mates, Follower
    <3>2. CASE ~Mates(u, t)
      <4>1. PICK w \in Tasks : Mates(u, w) /\ Due(w)
        <5>1. active[tasks[u].service] = 0
          BY <1>1, <1>2, <2>1, <3>2, ServiceTyped DEF Mates
        <5> QED BY <5>1 DEF LineInv, LeftoversFirst
      <4>2. w # t /\ tasks'[w] = tasks[w]
        BY <1>1, <3>2, <4>1
      <4>3. Due(w)'
        <5>1. \A v \in Tasks : tasks[v].pc = "over" => tasks'[v].pc = "over"
          BY <1>1
        <5>2. Len(tasks') >= Len(tasks)
          BY Lengths DEF Ends, Only
        <5> QED BY <4>1, <4>2, <5>1, <5>2, DueKept
      <4> QED BY <1>1, <2>1, <4>1, <4>2, <4>3 DEF Mates
    <3> QED BY <3>1, <3>2
  <2> QED BY <1>1, <2>1 DEF LeftoversFirst
<1>8. AgainIsClosed'
  <2>1. \A u \in Tasks' : tasks'[u].pc = "again" =>
          u \in Tasks /\ tasks[u].pc = "again" /\ tasks'[u].op = tasks[u].op
    BY <1>1
  <2> QED BY <2>1, AgainKept DEF LineInv
<1> QED BY <1>4, <1>5, <1>6, <1>7, <1>8 DEF LineInv

LEMMA LineOnLaunch ==
  ASSUME TypeOK, LineInv, OpsKept, NEW s \in Service, NEW n \in 1..MaxOps, Launches(s, n)
  PROVE  LineInv'
<1>1. PICK a : a = active[s]
  OBVIOUS
<1>2. PICK N \in Nat : N = Len(tasks) + 1
  BY Lengths
<1>3. /\ Tasks' = Tasks \cup {N} /\ N # 0 /\ \A u \in Tasks : u \in Nat /\ u < N /\ u # 0
      /\ \A u \in Live : u \in Tasks
  BY <1>2, Lengths DEF Launches, Tasks, Live
<1>4. /\ tasks'[N].service = s /\ tasks'[N].prior = a
      /\ tasks'[N].pc = IF a = 0 THEN "begins" ELSE "waits"
  BY <1>1, <1>2 DEF Launches, AwaitsPrior
<1>5. /\ \A u \in Tasks : Keeps(u) /\ tasks'[u].pc = tasks[u].pc
      /\ \A u \in Tasks : tasks[u].aborted => tasks'[u].aborted
      /\ a \in Tasks => tasks'[a].aborted
  BY <1>1 DEF Launches, Marked, Keeps
<1>6. Live' = Live \cup {N}
  BY <1>3, <1>4, <1>5 DEF Live
<1>7. active'[s] = N /\ \A r \in Service : r # s => active'[r] = active[r]
  BY <1>2 DEF Launches, TypeOK
<1>8. a \in 0..Len(tasks) /\ (a # 0 => a \in Live /\ tasks[a].service = s)
  <2>1. a \in 0..Len(tasks) /\ (a # 0 => tasks[a].service = s /\ tasks[a].pc # "over")
    BY <1>1 DEF TypeOK
  <2> QED BY <2>1, Lengths DEF Live, Tasks
<1>9. a = 0 => \A u \in Live : tasks[u].service # s
  <2>1. ASSUME a = 0, NEW u \in Live, tasks[u].service = s PROVE FALSE
    <3>1. PICK w \in Tasks : Mates(u, w) /\ Due(w)
      BY <1>1, <2>1 DEF LineInv, LeftoversFirst
    <3> QED BY <2>1, <3>1 DEF Launches, Idle, Of, Due, Mates, Tasks
  <2> QED BY <2>1
<1>10. InLine'
  <2>1. ASSUME NEW u \in Live, NEW v \in Live, u < v, Mates(u, v)'
        PROVE  Waiting(u, v)' /\ \E w : Follower(u, w)'
    <3>1. Mates(u, v)
      BY <1>3, <1>5, <2>1 DEF Mates, Keeps
    <3>2. Waiting(u, v) /\ \E w : Follower(u, w)
      BY <2>1, <3>1, InLineSplits DEF LineInv
    <3>3. Waiting(u, v)'
      <4>1. /\ tasks'[v].pc = "waits" /\ tasks'[v].prior = tasks[v].prior
            /\ tasks'[v].service = tasks[v].service
        BY <1>3, <1>5, <2>1, <3>2 DEF Waiting, Keeps
      <4>2. \A p \in Live : p \in Live' /\ tasks'[p].service = tasks[p].service
        BY <1>3, <1>5, <1>6 DEF Keeps
      <4> QED BY <3>2, <4>1, <4>2, WaitingKept
    <3>4. PICK w : Follower(u, w)
      BY <3>2
    <3> QED BY <1>3, <1>5, <1>6, <2>1, <3>3, <3>4 DEF Follower, Mates, Keeps
  <2>2. ASSUME NEW u \in Live, Mates(u, N)'
        PROVE  Waiting(u, N)' /\ \E w : Follower(u, w)'
    <3>1. tasks[u].service = s /\ a # 0
      BY <1>3, <1>4, <1>5, <1>9, <2>2 DEF Mates, Keeps
    <3>2. u \in Nat /\ u <= a /\ a \in Nat
      BY <1>1, <1>3, <1>8, <3>1 DEF LineInv, NewestIsActive
    <3>3. Waiting(u, N)'
      <4>1. tasks'[N].pc = "waits" /\ tasks'[N].prior = a
        BY <1>4, <3>1
      <4>2. a \in Live' /\ tasks'[a].service = s /\ tasks'[N].service = s
        BY <1>3, <1>4, <1>5, <1>6, <1>8, <3>1 DEF Keeps
      <4> QED BY <3>2, <4>1, <4>2 DEF Waiting, Mates
    <3>4. CASE u = a
      <4>1. /\ N \in Live' /\ tasks'[u].service = tasks'[N].service
            /\ tasks'[N].pc = "waits" /\ tasks'[N].prior = u
        BY <1>4, <1>6, <2>2, <3>1, <3>4 DEF Mates
      <4> QED BY <3>3, <4>1 DEF Follower, Mates
    <3>5. CASE u < a
      <4>1. PICK w : Follower(u, w)
        BY <1>8, <3>1, <3>5, InLineSplits DEF LineInv, Mates
      <4> QED BY <1>3, <1>5, <1>6, <2>2, <3>3, <4>1 DEF Follower, Mates, Keeps
    <3> QED BY <3>2, <3>4, <3>5
  <2>3. \A u \in Live : ~(N < u)
    BY <1>3
  <2>4. \A u, v \in Live' : u < v /\ Mates(u, v)' => Waiting(u, v)' /\ \E w : Follower(u, w)'
    BY <1>3, <1>6, <2>1, <2>2, <2>3
  <2> QED BY <2>4 DEF InLine, Waiting, Follower
<1>11. NewestIsActive'
  <2>1. ASSUME NEW u \in Live, active'[tasks[u].service] # 0
        PROVE  u <= active'[tasks[u].service]
    <3>1. CASE tasks[u].service = s
      BY <1>3, <1>7, <3>1
    <3>2. CASE tasks[u].service # s
      BY <1>3, <1>7, <2>1, <3>2, ServiceTyped DEF LineInv, NewestIsActive
    <3> QED BY <3>1, <3>2
  <2> QED BY <1>3, <1>4, <1>5, <1>6, <1>7, <2>1 DEF NewestIsActive, Keeps
<1>12. OthersDoomed'
  <2>1. ASSUME NEW u \in Live, u # active'[tasks[u].service] PROVE Doomed(u)'
    <3>1. CASE u = a
      BY <1>3, <1>5, <2>1, <3>1 DEF Doomed
    <3>2. CASE u # a
      <4>1. u # active[tasks[u].service]
        BY <1>1, <1>3, <1>7, <2>1, <3>2, ServiceTyped
      <4>2. Doomed(u)
        BY <2>1, <4>1 DEF LineInv, OthersDoomed
      <4> QED BY <1>3, <1>5, <2>1, <4>2, DoomedKept DEF Keeps
    <3> QED BY <3>1, <3>2
  <2> QED BY <1>3, <1>4, <1>5, <1>6, <1>7, <2>1 DEF OthersDoomed, Keeps
<1>13. LeftoversFirst'
  <2>1. ASSUME NEW u \in Live, active'[tasks[u].service] = 0
        PROVE  \E w \in Tasks : Mates(u, w)' /\ Due(w)'
    <3>1. active[tasks[u].service] = 0
      BY <1>3, <1>7, <2>1, ServiceTyped
    <3>2. PICK w \in Tasks : Mates(u, w) /\ Due(w)
      BY <2>1, <3>1 DEF LineInv, LeftoversFirst
    <3>3. Due(w)'
      <4>1. \A v \in Tasks : tasks[v].pc = "over" => tasks'[v].pc = "over"
        BY <1>5
      <4>2. Len(tasks') >= Len(tasks)
        BY Lengths DEF Launches
      <4> QED BY <1>5, <3>2, <4>1, <4>2, DueKept DEF Keeps
    <3> QED BY <1>3, <1>5, <2>1, <3>2, <3>3 DEF Mates, Keeps
  <2> QED BY <1>3, <1>4, <1>5, <1>6, <1>7, <2>1 DEF LeftoversFirst, Keeps
<1>14. AgainIsClosed'
  <2>1. ASSUME NEW u \in Tasks', tasks'[u].pc = "again"
        PROVE  u \in Tasks /\ tasks[u].pc = "again" /\ tasks'[u].op = tasks[u].op
    BY <1>3, <1>4, <1>5, <2>1 DEF Keeps
  <2> QED BY <2>1, AgainKept DEF LineInv
<1> QED BY <1>10, <1>11, <1>12, <1>13, <1>14 DEF LineInv

LEMMA LineOnCrash ==
  ASSUME TypeOK, LineInv, OpsKept, NEW s \in Service, Crashes(s)
  PROVE  LineInv'
<1>1. /\ Tasks' = Tasks /\ \A u \in Live : u \in Tasks
      /\ \A u \in Tasks : tasks[u].service = s => tasks'[u].pc = "over"
      /\ \A u \in Tasks : tasks[u].service # s => tasks'[u] = tasks[u]
  BY DEF Crashes, Over, Tasks, Live
<1>2. Live' = {u \in Live : tasks[u].service # s}
  BY <1>1 DEF Live
<1>3. active'[s] = 0 /\ \A r \in Service : r # s => active'[r] = active[r]
  BY DEF Crashes, TypeOK
<1>4. InLine'
  <2>1. ASSUME NEW u \in Live', NEW v \in Live', u < v, Mates(u, v)'
        PROVE  Waiting(u, v)' /\ \E w : Follower(u, w)'
    <3>1. Mates(u, v) /\ u \in Live /\ v \in Live
      BY <1>1, <1>2, <2>1 DEF Mates
    <3>2. Waiting(u, v) /\ \E w : Follower(u, w)
      BY <2>1, <3>1, InLineSplits DEF LineInv
    <3>3. \A p \in Live : Mates(p, v) \/ Mates(u, p) => p \in Live' /\ tasks'[p] = tasks[p]
      BY <1>1, <1>2, <2>1, <3>1 DEF Mates
    <3>4. Waiting(u, v)'
      BY <1>1, <1>2, <2>1, <3>1, <3>2, <3>3, WaitingKept DEF Waiting
    <3>5. PICK w : Follower(u, w)
      BY <3>2
    <3> QED BY <1>1, <1>2, <2>1, <3>3, <3>4, <3>5 DEF Follower, Mates
  <2> QED BY <2>1 DEF InLine, Waiting, Follower
<1>5. NewestIsActive'
  BY <1>1, <1>2, <1>3, ServiceTyped DEF LineInv, NewestIsActive
<1>6. OthersDoomed'
  <2>1. ASSUME NEW u \in Live', u # active'[tasks'[u].service] PROVE Doomed(u)'
    <3>1. Doomed(u)
      BY <1>1, <1>2, <1>3, <2>1, ServiceTyped DEF LineInv, OthersDoomed
    <3> QED BY <1>1, <1>2, <2>1, <3>1, DoomedKept
  <2> QED BY <2>1 DEF OthersDoomed
<1>7. LeftoversFirst'
  <2>1. ASSUME NEW u \in Live', active'[tasks'[u].service] = 0
        PROVE  \E w \in Tasks : Mates(u, w)' /\ Due(w)'
    <3>1. u \in Live /\ tasks'[u] = tasks[u] /\ active[tasks[u].service] = 0
      BY <1>1, <1>2, <1>3, <2>1, ServiceTyped
    <3>2. PICK w \in Tasks : Mates(u, w) /\ Due(w)
      BY <3>1 DEF LineInv, LeftoversFirst
    <3>3. tasks'[w] = tasks[w]
      BY <1>1, <1>2, <2>1, <3>2 DEF Mates
    <3>4. Due(w)'
      <4>1. \A v \in Tasks : tasks[v].pc = "over" => tasks'[v].pc = "over"
        BY <1>1
      <4>2. Len(tasks') >= Len(tasks)
        BY Lengths DEF Crashes
      <4> QED BY <3>2, <3>3, <4>1, <4>2, DueKept
    <3> QED BY <3>1, <3>2, <3>3, <3>4 DEF Mates
  <2> QED BY <1>1, <2>1 DEF LeftoversFirst
<1>8. AgainIsClosed'
  <2>1. \A u \in Tasks' : tasks'[u].pc = "again" =>
          u \in Tasks /\ tasks[u].pc = "again" /\ tasks'[u].op = tasks[u].op
    BY <1>1
  <2> QED BY <2>1, AgainKept DEF LineInv
<1> QED BY <1>4, <1>5, <1>6, <1>7, <1>8 DEF LineInv

\* The line is kept by every step.
LEMMA LineStep ==
  ASSUME TypeOK, LineInv, OpsKept, TasksStep
  PROVE  LineInv'
  BY LineAtRest, LineOnAbort, LineOnAdvance, LineOnProceed, LineOnEnd, LineOnLaunch, LineOnCrash
  DEF TasksStep

-----------------------------------------------------------------------------
(* What a check has read *)

Unread(t) ==
  IF HasCall(t) THEN tasks[t].todo \cup {calls[tasks[t].call].passage} ELSE tasks[t].todo
\* A task's open call is of its check; what it has no result for it still asks about.
ReadRow(t) ==
  /\ HasCall(t) => calls[tasks[t].call].op = tasks[t].op
  /\ HasCall(t) \/ tasks[t].pc = "next" =>
       ops[tasks[t].op].candidate \subseteq records \cup Unread(t)
ReadInv == (\A t \in Tasks : ReadRow(t)) /\ OpenCallIsLeased /\ CompleteIsChecked

LEMMA ReadRowKept ==
  ASSUME TypeOK, OpsKept, CallsKept, records \subseteq records', NEW t \in Tasks, ReadRow(t),
         tasks'[t].op = tasks[t].op, tasks'[t].pc = tasks[t].pc,
         tasks'[t].todo = tasks[t].todo, tasks'[t].call = tasks[t].call
  PROVE  ReadRow(t)'
<1>1. PICK n \in 1..Len(ops), k \in 0..Len(calls) :
        n = tasks[t].op /\ k = tasks[t].call /\ (HasCall(t) => k \in 1..Len(calls))
  BY TaskRow
<1>2. ops'[n].candidate = ops[n].candidate
  BY DEF OpsKept
<1>3. HasCall(t) => calls'[k].op = calls[k].op /\ calls'[k].passage = calls[k].passage
  BY <1>1 DEF CallsKept
<1>4. HasCall(t)' <=> HasCall(t)
  BY DEF HasCall
<1>5. Unread(t)' = Unread(t)
  BY <1>1, <1>3, <1>4 DEF Unread
<1> QED BY <1>1, <1>2, <1>3, <1>4, <1>5 DEF ReadRow

\* What every step does to the rows of tasks that are there and that it does not move.
RowsKept(except) ==
  \A u \in Tasks' : u \notin except =>
    \/ tasks'[u].pc \notin {"next", "asked", "again", "retried"}
    \/ u \in Tasks /\ tasks'[u].op = tasks[u].op /\ tasks'[u].pc = tasks[u].pc
       /\ tasks'[u].todo = tasks[u].todo /\ tasks'[u].call = tasks[u].call

LEMMA ReadRows ==
  ASSUME TypeOK, OpsKept, CallsKept, records \subseteq records', \A t \in Tasks : ReadRow(t),
         NEW except, RowsKept(except)
  PROVE  \A u \in Tasks' : u \notin except => ReadRow(u)'
<1>1. TAKE u \in Tasks'
<1>2. CASE tasks'[u].pc \notin {"next", "asked", "again", "retried"}
  BY <1>2 DEF ReadRow, HasCall
<1> QED BY <1>1, <1>2, ReadRowKept DEF RowsKept

\* Ends, launches, crashes and the like move no task to where it reads.
LEMMA RowsOfOthers ==
  /\ \A t \in Tasks : Only(t) => RowsKept({t})
  /\ \A t \in Tasks : Ends(t) \/ Proceeds(t) \/ Aborts(t) => RowsKept({})
  /\ TypeOK => \A s \in Service, n \in 1..MaxOps : Launches(s, n) => RowsKept({})
  /\ \A s \in Service : Crashes(s) => RowsKept({})
  /\ Rests => RowsKept({})
<1>1. \A t \in Tasks : Only(t) => RowsKept({t})
  BY DEF Only, RowsKept, Tasks
<1>2. ASSUME NEW t \in Tasks, Ends(t) \/ Proceeds(t) \/ Aborts(t) PROVE RowsKept({})
  BY <1>2 DEF Ends, Over, Proceeds, Aborts, Marked, Keeps, Only, RowsKept, Tasks
<1>3. ASSUME TypeOK, NEW s \in Service, NEW n \in 1..MaxOps, Launches(s, n) PROVE RowsKept({})
  <2>1. \A u \in Tasks' : u = Len(tasks) + 1 \/ u \in Tasks
    BY <1>3, Lengths DEF Launches, Tasks
  <2>2. tasks'[Len(tasks) + 1].pc \in {"begins", "waits"}
    BY <1>3 DEF Launches, AwaitsPrior
  <2>3. PICK N : N = Len(tasks) + 1
    OBVIOUS
  <2> QED BY <1>3, <2>1, <2>2, <2>3 DEF Launches, Marked, Keeps, RowsKept
<1>4. ASSUME NEW s \in Service, Crashes(s) PROVE RowsKept({})
  BY <1>4 DEF Crashes, Over, RowsKept, Tasks
<1>5. ASSUME Rests PROVE RowsKept({})
  BY <1>5 DEF Rests, RowsKept, Tasks
<1> QED BY <1>1, <1>2, <1>3, <1>4, <1>5

LEMMA OtherRows ==
  ASSUME TypeOK, OpsKept, CallsKept, records \subseteq records', ReadInv, NEW t \in Tasks, Only(t)
  PROVE  \A u \in Tasks' : u # t => ReadRow(u)'
<1>1. RowsKept({t})
  BY RowsOfOthers
<1>2. \A u \in Tasks' : u \notin {t} => ReadRow(u)'
  BY <1>1, ReadRows DEF ReadInv
<1>3. \A u : u # t => u \notin {t}
  OBVIOUS
<1> QED BY <1>2, <1>3

\* Complete checks stay read when none becomes complete.
LEMMA CompleteKept ==
  ASSUME TypeOK, OpsKept, CompleteIsChecked, records \subseteq records',
         NEW except,
         \A n \in 1..Len(ops') : n # except /\ ops'[n].state = "complete" =>
           n \in 1..Len(ops) /\ ops[n].state = "complete",
         except \in 1..Len(ops') => ops'[except].candidate \subseteq records'
  PROVE  CompleteIsChecked'
<1>1. ASSUME NEW n \in 1..Len(ops'), ops'[n].state = "complete"
      PROVE  ops'[n].candidate \subseteq records'
  <2>1. CASE n = except
    BY <2>1
  <2>2. CASE n # except
    BY <1>1, <2>2 DEF OpsKept, CompleteIsChecked
  <2> QED BY <2>1, <2>2
<1> QED BY <1>1 DEF CompleteIsChecked

LEMMA NoneCompleted ==
  ASSUME TypeOK, OpsKept, NoneCompletes, CompleteIsChecked, records \subseteq records'
  PROVE  CompleteIsChecked'
  BY DEF CompleteIsChecked, NoneCompletes, OpsKept

\* A failed call is closed, and one that was leased still is.
LEMMA LeasedOnFailure ==
  ASSUME TypeOK, OpenCallIsLeased, NEW k \in 1..Len(calls), FailCall(k)
  PROVE  OpenCallIsLeased'
<1>1. Fails(calls', k) /\ (lease.call # k => lease'.call = lease.call)
  BY Failing
<1> QED BY <1>1 DEF OpenCallIsLeased, Fails

LEMMA ReadOnPlan ==
  ASSUME TypeOK, ReadInv, NEW t \in Tasks, Plans(t)
  PROVE  ReadInv'
<1>1. OpsKept /\ NoneCompletes /\ CallsKept /\ UNCHANGED <<ops, calls, lease, records>> /\ Tasks' = Tasks
  BY Unchanged DEF Plans, Same, Advances, Only, Tasks
<1>2. \A u \in Tasks' : u # t => ReadRow(u)'
  BY <1>1, OtherRows DEF Plans, Advances
<1>3. ReadRow(t)'
  BY <1>1 DEF Plans, Advances, Keeps, ReadRow, Unread, HasCall, Uncached
<1>4. CompleteIsChecked' /\ OpenCallIsLeased'
  BY <1>1 DEF ReadInv, CompleteIsChecked, OpenCallIsLeased
<1> QED BY <1>1, <1>2, <1>3, <1>4 DEF ReadInv

LEMMA ReadOnAsk ==
  ASSUME TypeOK, ReadInv, NEW t \in Tasks, NEW p \in Passage, Asks(t, p)
  PROVE  ReadInv'
<1>1. PICK n \in 1..Len(ops) : n = tasks[t].op
  BY TaskRow
<1>2. PICK N \in Nat : N = Len(calls) + 1
  BY Lengths
<1>3. /\ OpsKept /\ NoneCompletes /\ CallsKept
      /\ Len(calls') = N /\ calls'[N] = [op |-> n, passage |-> p, result |-> "none"]
      /\ \A m \in 1..Len(calls) :
           calls'[m].result = IF m = lease.call /\ calls[m].result = "none"
                              THEN "unavailable" ELSE calls[m].result
      /\ lease' = [call |-> N, live |-> TRUE]
  BY <1>1, <1>2, Reserving DEF Asks
<1>4. UNCHANGED records /\ Tasks' = Tasks
  BY DEF Asks, Advances, Only, Tasks
<1>5. \A u \in Tasks' : u # t => ReadRow(u)'
  BY <1>3, <1>4, OtherRows DEF Asks, Advances
<1>6. ReadRow(t)'
  <2>1. /\ tasks'[t].op = n /\ tasks'[t].pc = "asked" /\ tasks'[t].todo = tasks[t].todo \ {p}
        /\ tasks'[t].call = N
    BY <1>1, <1>2 DEF Asks, Advances, Keeps
  <2>2. calls'[N].op = n /\ calls'[N].passage = p
    BY <1>3
  <2>3. ops[n].candidate \subseteq records \cup tasks[t].todo
    BY <1>1 DEF ReadInv, ReadRow, Unread, HasCall, Asks
  <2>4. ops'[n].candidate = ops[n].candidate
    BY <1>3 DEF OpsKept
  <2> QED BY <1>4, <2>1, <2>2, <2>3, <2>4 DEF ReadRow, Unread, HasCall
<1>7. OpenCallIsLeased'
  BY <1>2, <1>3, Lengths DEF ReadInv, OpenCallIsLeased
<1>8. CompleteIsChecked'
  BY <1>3, <1>4, NoneCompleted DEF ReadInv
<1> QED BY <1>4, <1>5, <1>6, <1>7, <1>8 DEF ReadInv

LEMMA ReadOnAnswer ==
  ASSUME TypeOK, ReadInv, NEW t \in Tasks, Answers(t)
  PROVE  ReadInv'
<1>1. PICK n \in 1..Len(ops), k \in 1..Len(calls) : n = tasks[t].op /\ k = tasks[t].call /\ HasCall(t)
  BY TaskRow DEF Answers, HasCall
<1>2. /\ OpsKept /\ NoneCompletes /\ CallsKept /\ Len(calls') = Len(calls)
      /\ \A m \in 1..Len(calls) :
           calls'[m].result = IF m = k THEN "complete" ELSE calls[m].result
      /\ records' = records \cup {calls[k].passage}
  BY <1>1, Completing DEF Answers
<1>3. Tasks' = Tasks /\ records \subseteq records'
  BY <1>2 DEF Answers, Advances, Only, Tasks
<1>4. \A u \in Tasks' : u # t => ReadRow(u)'
  BY <1>2, <1>3, OtherRows DEF Answers, Advances
<1>5. ReadRow(t)'
  <2>1. tasks'[t].op = n /\ tasks'[t].pc = "next" /\ tasks'[t].todo = tasks[t].todo
    BY <1>1 DEF Answers, Advances, Keeps
  <2>2. ops[n].candidate \subseteq records \cup tasks[t].todo \cup {calls[k].passage}
    BY <1>1 DEF ReadInv, ReadRow, Unread
  <2>3. ops'[n].candidate = ops[n].candidate
    BY <1>2 DEF OpsKept
  <2> QED BY <1>2, <2>1, <2>2, <2>3 DEF ReadRow, Unread, HasCall
<1>6. OpenCallIsLeased'
  BY <1>1, <1>2 DEF ReadInv, OpenCallIsLeased, Answers, MayComplete, Owns
<1>7. CompleteIsChecked'
  BY <1>2, <1>3, NoneCompleted DEF ReadInv
<1> QED BY <1>3, <1>4, <1>5, <1>6, <1>7 DEF ReadInv

LEMMA ReadOnRetry ==
  ASSUME TypeOK, ReadInv, NEW t \in Tasks, Retries(t)
  PROVE  ReadInv'
<1>1. PICK n \in 1..Len(ops), k \in 1..Len(calls) : n = tasks[t].op /\ k = tasks[t].call /\ HasCall(t)
  BY TaskRow DEF Retries, HasCall
<1>2. OpsKept /\ NoneCompletes /\ CallsKept /\ UNCHANGED records /\ Tasks' = Tasks
  BY DEF Retries, Advances, Only, Tasks
<1>3. \A u \in Tasks' : u # t => ReadRow(u)'
  BY <1>2, OtherRows DEF Retries, Advances
<1>4. ReadRow(t)'
  <2>1. /\ tasks'[t].op = n /\ tasks'[t].pc = "again" /\ tasks'[t].todo = tasks[t].todo
        /\ tasks'[t].call = k
    BY <1>1 DEF Retries, Advances, Keeps
  <2>2. /\ ops[n].candidate \subseteq records \cup tasks[t].todo \cup {calls[k].passage}
        /\ calls[k].op = n
    BY <1>1 DEF ReadInv, ReadRow, Unread
  <2>3. ops'[n].candidate = ops[n].candidate /\ calls'[k].op = calls[k].op
        /\ calls'[k].passage = calls[k].passage
    BY <1>2 DEF OpsKept, CallsKept
  <2> QED BY <1>2, <2>1, <2>2, <2>3 DEF ReadRow, Unread, HasCall
<1>5. OpenCallIsLeased'
  BY <1>1, LeasedOnFailure DEF ReadInv, Retries
<1>6. CompleteIsChecked'
  BY <1>2, NoneCompleted DEF ReadInv
<1> QED BY <1>2, <1>3, <1>4, <1>5, <1>6 DEF ReadInv

LEMMA ReadOnEnding ==
  ASSUME TypeOK, ReadInv, NEW t \in Tasks, Ending(t)
  PROVE  ReadInv'
<1>1. Ends(t) /\ OpsKept /\ UNCHANGED records /\ RowsKept({})
  BY RowsOfOthers DEF Ending, GivesUp, GetsNothing, Finishes
<1>2. CallsKept /\ OpenCallIsLeased'
  <2>1. CASE UNCHANGED <<calls, lease>>
    BY <2>1, Unchanged DEF ReadInv, OpenCallIsLeased
  <2>2. CASE GetsNothing(t)
    <3>1. PICK k \in 1..Len(calls) : k = tasks[t].call
      BY <2>2, TaskRow DEF GetsNothing, HasCall
    <3> QED BY <2>2, <3>1, LeasedOnFailure DEF GetsNothing, ReadInv
  <2> QED BY <2>1, <2>2 DEF Ending, GivesUp, Finishes
<1>3. \A u \in Tasks' : ReadRow(u)'
  BY <1>1, <1>2, ReadRows DEF ReadInv
<1>4. CompleteIsChecked'
  <2>1. CASE NoneCompletes
    BY <1>1, <2>1, NoneCompleted DEF ReadInv
  <2>2. CASE Finishes(t)
    <3>1. PICK n \in 1..Len(ops) : n = tasks[t].op
      BY TaskRow
    <3>2. ops[n].candidate \subseteq records
      BY <2>2, <3>1 DEF Finishes, ReadInv, ReadRow, Unread, HasCall
    <3>3. ops'[n].candidate \subseteq records'
      BY <1>1, <3>2 DEF OpsKept
    <3>4. \A m \in 1..Len(ops') : m # n /\ ops'[m].state = "complete" =>
            m \in 1..Len(ops) /\ ops[m].state = "complete"
      BY <2>2, <3>1 DEF Finishes
    <3> QED BY <1>1, <3>3, <3>4, CompleteKept DEF ReadInv
  <2> QED BY <2>1, <2>2 DEF Ending, GivesUp, GetsNothing
<1> QED BY <1>2, <1>3, <1>4 DEF ReadInv

\* Nothing is forgotten by any step.
LEMMA ReadStep ==
  ASSUME TypeOK, ReadInv, Step
  PROVE  ReadInv'
<1>1. ASSUME RowsKept({}), OpsKept, NoneCompletes, UNCHANGED <<calls, records>>, lease'.call = lease.call
      PROVE  ReadInv'
  <2>1. CallsKept
    BY <1>1, Unchanged
  <2>2. \A u \in Tasks' : ReadRow(u)'
    BY <1>1, <2>1, ReadRows DEF ReadInv
  <2>3. OpenCallIsLeased'
    BY <1>1 DEF ReadInv, OpenCallIsLeased
  <2> QED BY <1>1, <2>2, <2>3, NoneCompleted DEF ReadInv
<1>2. ASSUME NEW t \in Tasks, TaskStep(t) PROVE ReadInv'
  <2>1. CASE Proceeds(t) /\ Same
    BY <1>1, <2>1, RowsOfOthers, Unchanged DEF Same
  <2> QED BY <1>2, <2>1, ReadOnPlan, ReadOnAsk, ReadOnAnswer, ReadOnRetry, ReadOnEnding DEF TaskStep
<1>3. ASSUME NEW s \in Service, NEW n \in 1..MaxOps, LaunchStep(s, n) PROVE ReadInv'
  BY <1>1, <1>3, RowsOfOthers DEF LaunchStep
<1>4. ASSUME NEW t \in Tasks, Aborts(t) /\ Same PROVE ReadInv'
  BY <1>1, <1>4, RowsOfOthers, Unchanged DEF Same
<1>5. ASSUME NEW s \in Service, Crashes(s) /\ Same PROVE ReadInv'
  BY <1>1, <1>5, RowsOfOthers, Unchanged DEF Same
<1>6. CASE Outside
  BY <1>1, <1>6, RowsOfOthers, Unchanged DEF Outside
<1> QED BY <1>2, <1>3, <1>4, <1>5, <1>6 DEF Step

-----------------------------------------------------------------------------
(* What a check has asked *)

\* A check is worked on by one service.
OneService == \A t, u \in Live : tasks[t].op = tasks[u].op => Mates(t, u)
\* A task that may still ask has nothing on its list that its check asked about,
\* and has a list if anything was asked at all.
Fresh(t, k) == tasks[t].pc \notin {"waits", "begins"} /\ calls[k].passage \notin tasks[t].todo
NotYetAsked ==
  \A t \in Live : \A k \in 1..Len(calls) : ~Doomed(t) /\ calls[k].op = tasks[t].op => Fresh(t, k)
SpendInv == OneService /\ NotYetAsked /\ SpendsOnce

CallsSame == CallsKept /\ Len(calls') = Len(calls)
\* What a step that asks nothing does to the lists of live tasks.
ListKept(t) ==
  /\ t \in Live /\ tasks'[t].service = tasks[t].service /\ tasks'[t].op = tasks[t].op
  /\ tasks[t].aborted => tasks'[t].aborted
  /\ tasks'[t].pc \in {"waits", "begins"} => tasks[t].pc \in {"waits", "begins"}
  /\ tasks[t].pc \in {"waits", "begins"} \/ tasks'[t].todo = tasks[t].todo

LEMMA Undoomed ==
  ASSUME TypeOK, OpsKept, NEW t \in Tasks, ListKept(t), ~Doomed(t)'
  PROVE  ~Doomed(t)
  BY DoomedKept DEF ListKept

LEMMA SpendKept ==
  ASSUME TypeOK, OpsKept, CallsSame, SpendInv, \A t \in Live' : ListKept(t)
  PROVE  SpendInv'
<1>1. \A t \in Live' : t \in Live /\ t \in Tasks
  BY DEF ListKept, Live
<1>2. OneService'
  BY <1>1 DEF SpendInv, OneService, ListKept, Mates
<1>3. ASSUME NEW t \in Live', NEW k \in 1..Len(calls), ~Doomed(t)', calls'[k].op = tasks'[t].op
      PROVE  Fresh(t, k)'
  <2>1. ListKept(t) /\ ~Doomed(t) /\ calls[k].op = tasks[t].op /\ calls'[k].passage = calls[k].passage
    BY <1>1, <1>3, Undoomed DEF ListKept, CallsSame, CallsKept
  <2>2. Fresh(t, k)
    BY <1>1, <2>1 DEF SpendInv, NotYetAsked
  <2> QED BY <2>1, <2>2 DEF Fresh, ListKept
<1>4. NotYetAsked'
  BY <1>3 DEF NotYetAsked, CallsSame
<1>5. SpendsOnce'
  BY DEF SpendInv, SpendsOnce, CallsSame, CallsKept
<1> QED BY <1>2, <1>4, <1>5 DEF SpendInv

LEMMA CallSame ==
  ASSUME TypeOK
  PROVE  /\ UNCHANGED calls => CallsSame
         /\ \A k \in 1..Len(calls) : FailCall(k) \/ Complete(k) => CallsSame
<1>1. UNCHANGED calls => CallsSame
  BY Unchanged DEF CallsSame
<1>2. ASSUME NEW k \in 1..Len(calls), FailCall(k) PROVE CallsSame
  BY <1>2, Failing DEF Fails, CallsSame
<1>3. ASSUME NEW k \in 1..Len(calls), Complete(k) PROVE CallsSame
  BY <1>3, Completing DEF CallsSame
<1> QED BY <1>1, <1>2, <1>3

\* A question is new, and its task is the only one of the check that may ask again.
LEMMA SpendOnAsk ==
  ASSUME TypeOK, LineInv, SpendInv, NEW t \in Tasks, NEW p \in Passage, Asks(t, p)
  PROVE  SpendInv'
<1>1. PICK n \in 1..Len(ops) : n = tasks[t].op
  BY TaskRow
<1>2. PICK N \in Nat : N = Len(calls) + 1
  BY Lengths
<1>3. /\ OpsKept /\ CallsKept /\ Len(calls') = N
      /\ calls'[N] = [op |-> n, passage |-> p, result |-> "none"]
  BY <1>1, <1>2, Reserving DEF Asks
<1>4. \A k \in 1..Len(calls') : k = N \/ (k # N /\ k \in 1..Len(calls))
  BY <1>2, <1>3, Lengths
<1>5. /\ Only(t) /\ Keeps(t) /\ tasks'[t].aborted = tasks[t].aborted
      /\ tasks'[t].pc = "asked" /\ tasks'[t].todo = tasks[t].todo \ {p}
      /\ p \in tasks[t].todo /\ ~Doomed(t) /\ t \in Live
  BY DEF Asks, Advances, Live
<1>6. Live' = Live /\ Tasks' = Tasks /\ \A u \in Live : u \in Tasks
  BY <1>5 DEF Live, Only, Tasks
<1>7. \A k \in 1..Len(calls) : calls[k].op = n => calls[k].passage # p /\ Fresh(t, k)
  BY <1>1, <1>5 DEF SpendInv, NotYetAsked, Fresh
<1>8. \A k \in 1..Len(calls) : calls'[k].op = calls[k].op /\ calls'[k].passage = calls[k].passage
  BY <1>3 DEF CallsKept
<1>9. calls'[N].op = n /\ calls'[N].passage = p
  BY <1>3
<1>10. SpendsOnce'
  <2>1. ASSUME NEW j \in 1..Len(calls'), NEW k \in 1..Len(calls'), j # k, calls'[j].op = calls'[k].op
        PROVE  calls'[j].passage # calls'[k].passage
    <3>1. CASE j # N /\ k # N
      BY <1>4, <1>8, <2>1, <3>1 DEF SpendInv, SpendsOnce
    <3>2. CASE j = N
      BY <1>4, <1>7, <1>8, <1>9, <2>1, <3>2
    <3>3. CASE k = N
      BY <1>4, <1>7, <1>8, <1>9, <2>1, <3>3
    <3> QED BY <3>1, <3>2, <3>3
  <2> QED BY <2>1 DEF SpendsOnce
<1>11. OneService'
  BY <1>5, <1>6 DEF SpendInv, OneService, Only, Keeps, Mates
<1>12. NotYetAsked'
  <2>1. ASSUME NEW u \in Live, NEW k \in 1..Len(calls'), ~Doomed(u)', calls'[k].op = tasks'[u].op
        PROVE  Fresh(u, k)'
    <3>1. CASE u = t
      <4>1. calls'[k].passage \notin tasks[t].todo \ {p}
        BY <1>1, <1>4, <1>5, <1>7, <1>8, <1>9, <2>1, <3>1 DEF Fresh, Keeps
      <4> QED BY <1>5, <3>1, <4>1 DEF Fresh
    <3>2. CASE u # t
      <4>1. tasks'[u] = tasks[u]
        BY <1>5, <1>6, <3>2 DEF Only
      <4>2. ~Doomed(u)
        BY <1>3, <1>6, <2>1, <4>1, DoomedKept
      <4>3. tasks[u].op # n
        <5>1. u = active[tasks[u].service] /\ t = active[tasks[t].service]
          BY <1>5, <4>2 DEF LineInv, OthersDoomed
        <5> QED BY <1>1, <1>5, <3>2, <5>1 DEF SpendInv, OneService, Mates
      <4>4. k \in 1..Len(calls) /\ calls[k].op = tasks[u].op
        BY <1>4, <1>8, <1>9, <2>1, <4>1, <4>3
      <4>5. Fresh(u, k)
        BY <4>2, <4>4 DEF SpendInv, NotYetAsked
      <4> QED BY <1>8, <4>1, <4>4, <4>5 DEF Fresh
    <3> QED BY <3>1, <3>2
  <2> QED BY <1>6, <2>1 DEF NotYetAsked
<1> QED BY <1>10, <1>11, <1>12 DEF SpendInv

LEMMA SpendOnLaunch ==
  ASSUME TypeOK, SpendInv, NEW s \in Service, NEW n \in 1..MaxOps, LaunchStep(s, n)
  PROVE  SpendInv'
<1>1. PICK N \in Nat : N = Len(tasks) + 1
  BY Lengths
<1>2. Launches(s, n) /\ OpsKept /\ UNCHANGED calls
  BY DEF LaunchStep
<1>3. /\ Tasks' = Tasks \cup {N} /\ N \notin Tasks /\ \A u \in Live : u \in Tasks
  BY <1>1, <1>2, Lengths DEF Launches, Tasks, Live
<1>4. /\ tasks'[N].service = s /\ tasks'[N].op = n /\ tasks'[N].pc # "over"
  BY <1>1, <1>2 DEF Launches, AwaitsPrior
<1>5. \A u \in Live : ListKept(u)
  BY <1>2, <1>3 DEF Launches, Marked, Keeps, ListKept
<1>6. Live' = Live \cup {N}
  BY <1>2, <1>3, <1>4 DEF Launches, Marked, Live
<1>7. OneService'
  <2>1. \A u \in Live : tasks[u].op = n => tasks[u].service = s
    BY <1>2 DEF Launches
  <2>2. ASSUME NEW t \in Live', NEW u \in Live', tasks'[t].op = tasks'[u].op
        PROVE  tasks'[t].service = tasks'[u].service
    BY <1>4, <1>5, <1>6, <2>1, <2>2 DEF ListKept, SpendInv, OneService, Mates
  <2> QED BY <2>2 DEF OneService, Mates
<1>8. NotYetAsked'
  <2>1. ASSUME NEW u \in Live', NEW k \in 1..Len(calls), ~Doomed(u)', calls[k].op = tasks'[u].op
        PROVE  Fresh(u, k)'
    <3>1. u # N
      BY <1>2, <1>4, <2>1 DEF Launches
    <3>2. u \in Live /\ u \in Tasks /\ ListKept(u)
      BY <1>3, <1>5, <1>6, <3>1
    <3>3. ~Doomed(u) /\ calls[k].op = tasks[u].op
      BY <1>2, <2>1, <3>2, Undoomed DEF ListKept
    <3>4. Fresh(u, k)
      BY <3>2, <3>3 DEF SpendInv, NotYetAsked
    <3> QED BY <1>2, <3>2, <3>4 DEF Fresh, ListKept
  <2> QED BY <1>2, <2>1 DEF NotYetAsked
<1>9. SpendsOnce'
  BY <1>2 DEF SpendInv, SpendsOnce
<1> QED BY <1>7, <1>8, <1>9 DEF SpendInv

\* No step asks twice.
LEMMA SpendStep ==
  ASSUME TypeOK, LineInv, SpendInv, Step
  PROVE  SpendInv'
<1>1. \A t \in Live : ListKept(t) \/ tasks'[t] # tasks[t]
  BY DEF ListKept
<1>2. ASSUME NEW t \in Tasks, Only(t), OpsKept, CallsSame, t \in Live' => ListKept(t)
      PROVE  SpendInv'
  <2>1. \A u \in Live' : ListKept(u)
    BY <1>1, <1>2 DEF Only, Live, Tasks
  <2> QED BY <1>2, <2>1, SpendKept
<1>3. ASSUME NEW t \in Tasks, Proceeds(t) /\ Same PROVE SpendInv'
  BY <1>2, <1>3, Unchanged, CallSame DEF Proceeds, MayProceed, At, Same, ListKept, Keeps, Live
<1>4. ASSUME NEW t \in Tasks, Plans(t) PROVE SpendInv'
  BY <1>2, <1>4, Unchanged, CallSame DEF Plans, Advances, Running, Same, ListKept, Keeps, Live
<1>5. ASSUME NEW t \in Tasks, Retries(t) PROVE SpendInv'
  <2>1. tasks[t].call \in 1..Len(calls)
    BY <1>5, TaskRow DEF Retries, HasCall
  <2> QED BY <1>2, <1>5, <2>1, CallSame DEF Retries, Advances, ListKept, Keeps, Live
<1>6. ASSUME NEW t \in Tasks, Answers(t) PROVE SpendInv'
  <2>1. tasks[t].call \in 1..Len(calls)
    BY <1>6, TaskRow DEF Answers, HasCall
  <2> QED BY <1>2, <1>6, <2>1, CallSame DEF Answers, Advances, ListKept, Keeps, Live
<1>7. ASSUME NEW t \in Tasks, Ending(t) PROVE SpendInv'
  <2>1. Only(t) /\ OpsKept /\ t \notin Live'
    BY <1>7 DEF Ending, GivesUp, GetsNothing, Finishes, Ends, Over, Live
  <2>2. CallsSame
    <3>1. GetsNothing(t) => tasks[t].call \in 1..Len(calls)
      BY TaskRow DEF GetsNothing, HasCall
    <3> QED BY <1>7, <3>1, CallSame DEF Ending, GivesUp, GetsNothing, Finishes
  <2> QED BY <1>2, <2>1, <2>2
<1>8. ASSUME NEW t \in Tasks, Aborts(t) /\ Same PROVE SpendInv'
  BY <1>2, <1>8, Unchanged, CallSame DEF Aborts, Marked, Same, ListKept, Keeps, Live
<1>9. ASSUME NEW s \in Service, Crashes(s) /\ Same PROVE SpendInv'
  <2>1. \A u \in Live' : ListKept(u)
    BY <1>1, <1>9 DEF Crashes, Over, Live, Tasks
  <2> QED BY <1>9, <2>1, SpendKept, Unchanged, CallSame DEF Same
<1>10. CASE Outside
  <2>1. \A u \in Live' : ListKept(u)
    BY <1>1, <1>10 DEF Outside, Rests, Live, Tasks
  <2> QED BY <1>10, <2>1, SpendKept, Unchanged, CallSame DEF Outside
<1> QED BY <1>3, <1>4, <1>5, <1>6, <1>7, <1>8, <1>9, <1>10, SpendOnAsk, SpendOnLaunch
        DEF Step, TaskStep

-----------------------------------------------------------------------------
(* The calls of a cycle *)

\* A step that is no question leaves the calls and their checks.
LEMMA CallsStep ==
  ASSUME TypeOK, Step
  PROVE  CallsSame \/ \E t \in Tasks, p \in Passage : Asks(t, p)
<1>1. ASSUME NEW t \in Tasks, HasCall(t), FailCall(tasks[t].call) \/ Complete(tasks[t].call)
      PROVE  CallsSame
  BY <1>1, TaskRow, CallSame
<1>2. ASSUME NEW t \in Tasks, Retries(t) \/ Answers(t) \/ GetsNothing(t) PROVE CallsSame
  BY <1>1, <1>2 DEF Retries, Answers, GetsNothing, HasCall
<1>3. UNCHANGED calls => CallsSame
  BY CallSame
<1>4. ASSUME NEW t \in Tasks, TaskStep(t)
      PROVE  CallsSame \/ \E p \in Passage : Asks(t, p)
  BY <1>2, <1>3, <1>4 DEF TaskStep, Ending, Same, Plans, GivesUp, Finishes
<1> QED BY <1>3, <1>4 DEF Step, LaunchStep, Outside, Same

LEMMA CallsOfFinite ==
  ASSUME TypeOK, NEW cycle
  PROVE  IsFiniteSet(CallsOf(cycle)) /\ Cardinality(CallsOf(cycle)) \in Nat
<1>1. IsFiniteSet(1..Len(calls))
  BY Lengths, FS_Interval
<1>2. CallsOf(cycle) \subseteq 1..Len(calls)
  BY DEF CallsOf
<1> QED BY <1>1, <1>2, FS_Subset, FS_CardinalityType

\* A question adds one call to its cycle, which had room for it.
LEMMA LimitStep ==
  ASSUME TypeOK, CallsWithinLimit, Step
  PROVE  CallsWithinLimit'
<1>1. OpsKept /\ CallsKept
  BY StepKeepsStore DEF StoreKept
<1>2. \A k \in 1..Len(calls) :
        calls[k].op \in 1..Len(ops) /\ ops'[calls'[k].op].cycle = ops[calls[k].op].cycle
  BY <1>1, CallTyped DEF OpsKept, CallsKept
<1>3. CASE CallsSame
  <2>1. \A cycle \in Cycles : CallsOf(cycle)' = CallsOf(cycle)
    BY <1>2, <1>3 DEF CallsSame, CallsOf
  <2> QED BY <2>1 DEF CallsWithinLimit
<1>4. ASSUME NEW t \in Tasks, NEW p \in Passage, Asks(t, p), NEW cycle \in Cycles
      PROVE  Cardinality(CallsOf(cycle))' <= Limit
  <2>1. PICK n \in 1..Len(ops) : n = tasks[t].op
    BY TaskRow
  <2>2. PICK N \in Nat : N = Len(calls) + 1
    BY Lengths
  <2>3. /\ Len(calls') = N /\ calls'[N].op = n /\ MayReserve(n)
    <3>1. MayReserve(n) /\ Reserve(n, p)
      BY <1>4, <2>1 DEF Asks
    <3>2. /\ Len(calls') = Len(calls) + 1
          /\ calls'[Len(calls) + 1] = [op |-> n, passage |-> p, result |-> "none"]
      BY <3>1, Reserving
    <3> QED BY <2>2, <3>1, <3>2
  <2>4. \A k \in 1..Len(calls') : k = N \/ (k # N /\ k \in 1..Len(calls))
    BY <2>2, <2>3, Lengths
  <2>5. ops'[n].cycle = ops[n].cycle
    BY <1>1 DEF OpsKept
  <2>6. /\ Cardinality(CallsOf(cycle)) \in Nat /\ IsFiniteSet(CallsOf(cycle))
        /\ Cardinality(CallsOf(cycle)) <= Limit /\ Limit \in Nat
    BY CallsOfFinite, SemanticAssumption DEF CallsWithinLimit
  <2>7. CASE ops[n].cycle = cycle
    <3>1. CallsOf(cycle)' = CallsOf(cycle) \cup {N} /\ N \notin CallsOf(cycle)
      BY <1>2, <2>2, <2>3, <2>4, <2>5, <2>7, Lengths DEF CallsOf
    <3>2. Cardinality(CallsOf(cycle)) < Limit
      BY <2>3, <2>7 DEF MayReserve, WithinLimit
    <3>3. Cardinality(CallsOf(cycle) \cup {N}) = Cardinality(CallsOf(cycle)) + 1
      BY <2>6, <3>1, FS_AddElement
    <3> QED BY <2>6, <3>1, <3>2, <3>3
  <2>8. CASE ops[n].cycle # cycle
    <3>1. CallsOf(cycle)' = CallsOf(cycle)
      BY <1>2, <2>2, <2>3, <2>4, <2>5, <2>8, Lengths DEF CallsOf
    <3> QED BY <2>6, <3>1
  <2> QED BY <2>7, <2>8
<1>5. ASSUME NEW t \in Tasks, NEW p \in Passage, Asks(t, p) PROVE CallsWithinLimit'
  BY <1>4, <1>5 DEF CallsWithinLimit, Cycles
<1> QED BY <1>3, <1>5, CallsStep

-----------------------------------------------------------------------------
(* The invariant and the theorems *)

CheckInv == TypeOK /\ LineInv /\ ReadInv /\ SpendInv /\ CallsWithinLimit

LEMMA InitInv ==
  ASSUME Init
  PROVE  CheckInv
<1>1. /\ ops = <<>> /\ calls = <<>> /\ tasks = <<>> /\ Len(ops) = 0 /\ Len(calls) = 0 /\ Len(tasks) = 0
      /\ lease = NoLease /\ records = {} /\ head = 0 /\ rev = 0 /\ gen = 0 /\ answers = 0
      /\ active = [s \in Service |-> 0]
  BY EmptySeq DEF Init
<1>2. MaxOps \in Nat /\ MaxTasks \in Nat /\ MaxEdits \in Nat
  BY SemanticAssumption
<1>3. ops \in Seq(OpRow) /\ calls \in Seq(CallRow) /\ tasks \in Seq(Task)
  BY <1>1, EmptySeq
<1>4. Tasks = {} /\ Live = {}
  BY <1>1 DEF Tasks, Live
<1>5. TypeOK
  BY <1>1, <1>2, <1>3, <1>4, TypeSplits DEF TasksOK, ActiveOK, NoLease
<1>6. LineInv
  BY <1>4 DEF LineInv, InLine, NewestIsActive, OthersDoomed, LeftoversFirst, AgainIsClosed
<1>7. ReadInv
  BY <1>1, <1>4 DEF ReadInv, OpenCallIsLeased, CompleteIsChecked
<1>8. SpendInv
  BY <1>1, <1>4 DEF SpendInv, OneService, NotYetAsked, SpendsOnce
<1>9. CallsWithinLimit
  <2>1. \A cycle \in Cycles : CallsOf(cycle) = {}
    BY <1>1 DEF CallsOf
  <2> QED BY <2>1, FS_EmptySet, SemanticAssumption DEF CallsWithinLimit
<1> QED BY <1>5, <1>6, <1>7, <1>8, <1>9 DEF CheckInv

LEMMA InvIsStep ==
  ASSUME CheckInv, [Next]_vars
  PROVE  Step
  BY NextIsStep DEF CheckInv, LineInv, ReadInv, ReadRow, CallsMatch

LEMMA StepInv ==
  ASSUME CheckInv, [Next]_vars
  PROVE  CheckInv'
<1>1. TypeOK /\ LineInv /\ ReadInv /\ SpendInv /\ CallsWithinLimit /\ Step
  BY InvIsStep DEF CheckInv
<1>2. StoreKept /\ TasksStep
  BY <1>1, StepKeepsStore, StepOfTasks
<1>3. /\ head' \in Nat /\ rev' \in 0..MaxEdits /\ gen' \in 0..MaxEdits /\ answers' \in 0..MaxEdits
  BY <1>1, CountersTyped
<1>4. TasksOK'
  BY <1>1, <1>2, TasksTyped
<1>5. TypeOK'
  BY <1>2, <1>3, <1>4 DEF StoreKept, OpsKept, CallsKept, TypeOK, TasksOK, RowOK, ActiveOK, Tasks
<1>6. LineInv' /\ ReadInv' /\ SpendInv' /\ CallsWithinLimit'
  BY <1>1, <1>2, LineStep, ReadStep, SpendStep, LimitStep DEF StoreKept
<1> QED BY <1>5, <1>6 DEF CheckInv

LEMMA Invariance == Spec => []CheckInv
BY InitInv, StepInv, PTL DEF Spec

\* The tables, the promises and the running check have their types.
THEOREM TypeCorrect == Spec => []TypeOK
<1>1. CheckInv => TypeOK
  BY DEF CheckInv
<1> QED BY <1>1, Invariance, PTL

\* A check is complete only when its whole resume has been read.
THEOREM CompleteIsAlwaysChecked == Spec => []CompleteIsChecked
<1>1. CheckInv => CompleteIsChecked
  BY DEF CheckInv, ReadInv
<1> QED BY <1>1, Invariance, PTL

\* At most one call is open, and it holds the lease.
THEOREM OpenCallIsAlwaysLeased == Spec => []OpenCallIsLeased
<1>1. CheckInv => OpenCallIsLeased
  BY DEF CheckInv, ReadInv
<1> QED BY <1>1, Invariance, PTL

\* A service has one check at the model, because its tasks stand in a line.
THEOREM OneTaskAlwaysAsks == Spec => []OneTaskAsks
<1>1. ASSUME CheckInv PROVE OneTaskAsks
  <2>1. ASSUME NEW t \in Tasks, NEW u \in Tasks, Asking(t), Asking(u), Mates(t, u), t < u
        PROVE  FALSE
    BY <1>1, <2>1 DEF CheckInv, LineInv, InLine, Asking, At, Live
  <2>2. ASSUME NEW t \in Tasks, NEW u \in Tasks, Asking(t), Asking(u), Mates(t, u)
        PROVE  t = u
    <3>1. t \in Nat /\ u \in Nat
      BY <1>1, TaskRow DEF CheckInv
    <3>2. Mates(u, t)
      BY <2>2 DEF Mates
    <3>3. t < u \/ t = u \/ u < t
      BY <3>1
    <3> QED BY <2>1, <2>2, <3>2, <3>3
  <2> QED BY <2>2 DEF OneTaskAsks, Mates, Tasks
<1> QED BY <1>1, Invariance, PTL

\* A check asks about a passage at most once, whatever is aborted, replayed,
\* answered late or failed for a moment.
THEOREM ChecksSpendOnce == Spec => []SpendsOnce
<1>1. CheckInv => SpendsOnce
  BY DEF CheckInv, SpendInv
<1> QED BY <1>1, Invariance, PTL

\* The checks of a cycle together never make more calls than its limit.
THEOREM CallsStayWithinLimit == Spec => []CallsWithinLimit
<1>1. CheckInv => CallsWithinLimit
  BY DEF CheckInv
<1> QED BY <1>1, Invariance, PTL

\* A result is stored for the newest check, of what the store holds, and by no other step.
THEOREM ResultsStayCurrent == Spec => ResultsAreCurrent
<1> DEFINE Good == \A k \in 1..Len(calls) : calls[k].result = "none" /\ calls'[k].result = "complete" =>
                     LET o == ops[calls[k].op]
                     IN  calls[k].op = Len(ops) /\ o.rev = rev /\ o.head = head /\ o.gen = gen
           Stored(k) == calls[k].result = "none" /\ calls'[k].result = "complete"
<1>1. ASSUME CheckInv, Step PROVE Good
  <2>1. TypeOK
    BY <1>1 DEF CheckInv
  <2>2. ASSUME NEW t \in Tasks, Answers(t) PROVE Good
    <3>1. PICK k \in 1..Len(calls) : k = tasks[t].call
      BY <2>1, <2>2, TaskRow DEF Answers, HasCall
    <3>2. \A m \in 1..Len(calls) : calls'[m].result = IF m = k THEN "complete" ELSE calls[m].result
      BY <2>1, <2>2, <3>1, Completing DEF Answers
    <3>3. Current(calls[k].op)
      BY <2>2, <3>1 DEF Answers, MayComplete
    <3> QED BY <3>2, <3>3 DEF Current, Latest
  <2>3. ASSUME NEW k \in 1..Len(calls), FailCall(k) PROVE \A m \in 1..Len(calls) : ~Stored(m)
    BY <2>1, <2>3, Failing DEF Fails
  <2>4. ASSUME NEW t \in Tasks, HasCall(t), FailCall(tasks[t].call)
        PROVE  \A m \in 1..Len(calls) : ~Stored(m)
    BY <2>1, <2>3, <2>4, TaskRow
  <2>5. ASSUME NEW t \in Tasks, NEW p \in Passage, Asks(t, p)
        PROVE  \A m \in 1..Len(calls) : ~Stored(m)
    BY <2>1, <2>5, TaskRow, Reserving DEF Asks
  <2>6. ASSUME UNCHANGED calls PROVE \A m \in 1..Len(calls) : ~Stored(m)
    BY <2>6
  <2>7. ASSUME NEW t \in Tasks, TaskStep(t) PROVE Good
    <3>1. CASE Retries(t)
      BY <2>4, <3>1 DEF Retries, HasCall
    <3>2. CASE GetsNothing(t)
      BY <2>4, <3>2 DEF GetsNothing, HasCall
    <3>3. CASE GivesUp(t) \/ Finishes(t) \/ Plans(t) \/ (Proceeds(t) /\ Same)
      BY <2>6, <3>3 DEF GivesUp, Finishes, Plans, Same
    <3> QED BY <2>2, <2>5, <2>7, <3>1, <3>2, <3>3 DEF TaskStep, Ending
  <2>8. CASE UNCHANGED calls
    BY <2>6, <2>8
  <2> QED BY <1>1, <2>7, <2>8 DEF Step, LaunchStep, Same, Outside
<1>2. [Next]_vars /\ CheckInv => [Good]_vars
  BY <1>1, InvIsStep
<1>3. Spec => [][Good]_vars
  <2> HIDE DEF Good
  <2> QED BY <1>2, Invariance, PTL DEF Spec
<1> QED BY <1>3 DEF ResultsAreCurrent

=============================================================================
