--------------------------- MODULE DraftAutosave ---------------------------
(***************************************************************************)
(* Autosave of one draft in the browser, packages/ui/src/tailoring-drafts: *)
(* the DraftCoordinator of each open page sends its record to the server,  *)
(* one request at a time, and keeps a snapshot of what the server has not  *)
(* acknowledged in the browser's storage, under a key of its own.  Pages   *)
(* hear of each other's snapshots, and of versions of the server.          *)
(*                                                                         *)
(* The server is DraftRepository's part of the story: a save is refused    *)
(* unless it expects the present revision, and answered again when it is   *)
(* repeated.  A page is loaded once: a reload closes one and opens         *)
(* another.  Payloads and contexts are numbers, fresh at every change, so  *)
(* a request is its own mutation id, and a snapshot's is what the record   *)
(* was when the id was drawn.  The draft stays open: that it is completed  *)
(* or discarded, and that the workspace changes, is left out, and so is    *)
(* the writing of a snapshot that is already there.                        *)
(***************************************************************************)
EXTENDS Naturals, Sequences, FiniteSets

CONSTANTS
  Bounds,   \* the sizes to look at: how many pages, and how often something happens
  NONE

\* edits are changes of a payload or a context, by a page or by somebody else; choices,
\* conflicts resolved and commands that replace the draft; faults, lost calls and
\* answers, refusals and failures of the storage.
ASSUME BoundsAssumption ==
  Bounds \subseteq [pages : Nat, edits : Nat, choices : Nat, faults : Nat]

\* What NONE stands for the absence of.
Mutation == Nat \X Nat
Requests == [page : Nat, expected : Nat, change : {"content", "context"},
             payload : Nat \cup {NONE}, context : Nat]
Waiting == [req : Requests, seq : Nat, ctx : Nat]
Snapshot == [base : Nat, mut : Mutation, payload : Nat, context : Nat]
Chosen == [kind : {"fork", "load", "command"},
           copies : SUBSET [who : Nat, mut : Mutation, payload : Nat],
           seq : Nat, ctx : Nat, token : Nat]

ASSUME NoneAssumption ==
  NONE \notin Nat \cup Mutation \cup Requests \cup Waiting \cup Snapshot \cup Chosen

VARIABLES
  log,     \* the versions of the draft: its revision is the length
  late,    \* requests that are still on their way although their page gave up on them
  page,    \* the coordinator of each page, and its key of the storage
  full,    \* the storage refuses to be written
  bad,     \* payloads that the server refuses as invalid
  from,    \* for each payload, those it was made from, one edit after another
  owed,    \* edits that nobody replaced or gave up
  bound, edits, choices, faults

vars == <<log, late, page, full, bad, from, owed, bound, edits, choices, faults>>

-----------------------------------------------------------------------------
(* What a page holds *)

Page == 1..bound.pages
fresh == edits + 1
Version(payload, context, by) == [payload |-> payload, context |-> context, by |-> by]

\* token is 0 before there is a version.  snap is the snapshot under the page's own
\* key: it outlives the page.  heard are payloads of other pages' snapshots whose
\* notification has not arrived.
New == [at |-> "new", payload |-> 0, context |-> 0, token |-> 0,
        seq |-> 0, saved |-> 0, browser |-> NONE, ctx |-> 0, savedCtx |-> 0,
        mut |-> NONE, pending |-> NONE, deferred |-> 0, adopted |-> {},
        paused |-> FALSE, invalid |-> FALSE, conflict |-> FALSE,
        timer |-> FALSE, sent |-> NONE, answer |-> NONE, obsolete |-> FALSE, choice |-> NONE,
        snap |-> NONE, heard |-> {}]

Init ==
  /\ bound \in Bounds
  /\ log \in {<<>>, <<Version(0, 0, NONE)>>}
  /\ late = {}
  /\ page = [p \in Page |-> New]
  /\ full = FALSE /\ bad = {}
  /\ from = [n \in 0..bound.edits |-> {}]
  /\ owed = {}
  /\ edits = 0 /\ choices = 0 /\ faults = 0

Open(p) == page[p].at \notin {"new", "closed"}
active(pg) == pg.at # "idle"
Dirty(pg) == pg.seq # pg.saved \/ pg.ctx # pg.savedCtx
hasUnsavedContent(pg) == pg.seq # pg.saved /\ pg.browser # pg.seq
Held(pg) == pg.paused \/ pg.choice # NONE
Stored == {p \in Page : page[p].snap # NONE}

\* The other pages lose the snapshots that removed names by key and mutation id, and
\* those that are open will hear of a snapshot that pg wrote.
Becomes(p, pg, removed) ==
  page' = [q \in Page |->
    LET old == IF q = p THEN pg ELSE page[q]
        kept == IF old.snap # NONE /\ <<q, old.snap.mut>> \in removed
                  THEN [old EXCEPT !.snap = NONE] ELSE old
    IN  IF q # p /\ Open(q) /\ pg.snap \notin {NONE, page[p].snap}
          THEN [kept EXCEPT !.heard = @ \cup {pg.snap.payload}] ELSE kept]

-----------------------------------------------------------------------------
(* What the methods of the coordinator do to their page *)

\* A timer that would find nothing to save is left out.
schedule(pg) == [pg EXCEPT !.timer = ~Held(pg) /\ (pg.pending # NONE \/ Dirty(pg))]
newId(pg) == [pg EXCEPT !.mut = <<pg.payload, pg.context>>]

persist(pg) ==
  IF full THEN pg
  ELSE [pg EXCEPT !.browser = pg.seq,
                  !.snap = [base |-> pg.token, mut |-> pg.mut,
                            payload |-> pg.payload, context |-> pg.context]]

enterConflict(pg) ==
  LET marked == [pg EXCEPT !.paused = TRUE, !.conflict = TRUE,
                           !.seq = IF @ = pg.saved THEN @ + 1 ELSE @]
  IN  persist(IF pg.mut = NONE THEN newId(marked) ELSE marked)

\* Only navigation can be rebased: the context was changed, the content was not.
MayAdopt(pg, v) ==
  /\ ~pg.paused /\ pg.seq = pg.saved /\ pg.pending = NONE
  /\ pg.token # 0 /\ v > pg.token
\* Fault: only the token is adopted.
adoptToken(pg, v) == persist([pg EXCEPT !.token = v])
adoptContextRevision(pg, v) == persist([pg EXCEPT !.payload = log[v].payload, !.token = v])

\* reconcile: what the server says of version v.
\* Fault: a newer version only moves the token, and the edits go on top of it.
reconcileToken(pg, v) ==
  IF v <= pg.token THEN pg
  ELSE IF active(pg) \/ pg.pending # NONE
    THEN [pg EXCEPT !.deferred = IF v >= @ THEN v ELSE @]
  ELSE IF pg.paused THEN enterConflict(pg)
  ELSE IF Dirty(pg) THEN schedule([pg EXCEPT !.token = v])
  ELSE [pg EXCEPT !.payload = log[v].payload, !.context = log[v].context, !.token = v]
reconcile(pg, v) ==
  IF v = pg.token THEN pg
  ELSE IF active(pg) \/ pg.pending # NONE
    THEN [pg EXCEPT !.deferred = IF v >= @ THEN v ELSE @]
  ELSE IF v < pg.token THEN pg
  ELSE IF pg.paused \/ pg.seq # pg.saved THEN enterConflict(pg)
  ELSE IF pg.ctx # pg.savedCtx
    THEN IF MayAdopt(pg, v) THEN schedule(adoptContextRevision(pg, v)) ELSE enterConflict(pg)
  ELSE [pg EXCEPT !.payload = log[v].payload, !.context = log[v].context, !.token = v]

Request(p, pg) ==
  LET change == IF pg.seq # pg.saved \/ pg.token = 0 THEN "content" ELSE "context"
  IN  [page |-> p, expected |-> pg.token, change |-> change,
       payload |-> IF change = "content" THEN pg.payload ELSE NONE, context |-> pg.context]

\* A request that has no definite answer is sent again before anything newer.
Dispatched(p, pg) ==
  LET pending == IF pg.pending # NONE THEN pg.pending
                 ELSE [req |-> Request(p, pg), seq |-> pg.seq, ctx |-> pg.ctx]
  IN  [pg EXCEPT !.at = "sent", !.pending = pending, !.sent = pending.req]

\* The workspace is confirmed before each request: the program leaves this await out
\* while an earlier confirmation stands.
flush(pg) ==
  IF active(pg) \/ Held(pg) \/ (pg.pending = NONE /\ ~Dirty(pg)) THEN pg
  ELSE [pg EXCEPT !.at = "health"]

\* Fault: what is left waits for the next edit.
FinishedIdle(pg, acknowledged) ==
  LET idle == [pg EXCEPT !.at = "idle", !.sent = NONE, !.answer = NONE, !.obsolete = FALSE]
  IN  IF acknowledged /\ pg.deferred # 0
        THEN reconcile([idle EXCEPT !.deferred = 0], pg.deferred) ELSE idle
\* The finally block: an acknowledgement lets the deferred version be compared, and
\* what is left to save is sent at once.
Finished(pg, acknowledged) ==
  LET idle == [pg EXCEPT !.at = "idle", !.sent = NONE, !.answer = NONE, !.obsolete = FALSE]
      compared == IF acknowledged /\ pg.deferred # 0
                    THEN reconcile([idle EXCEPT !.deferred = 0], pg.deferred) ELSE idle
  IN  IF (acknowledged \/ pg.obsolete) /\ ~compared.paused /\ Dirty(compared)
        THEN flush(compared) ELSE compared

\* The request or the check before it failed without a definite answer.
Failed(pg) ==
  IF pg.obsolete THEN Finished(pg, FALSE)
  ELSE Finished(schedule([pg EXCEPT !.invalid = FALSE, !.paused = FALSE, !.conflict = FALSE]), FALSE)

Refused(pg) == Finished(enterConflict([pg EXCEPT !.invalid = FALSE]), FALSE)

-----------------------------------------------------------------------------
(* A page is opened, edited and closed *)

\* Pages are numbered as they open.
Opens(p) == page[p].at = "new" /\ \A q \in 1..(p - 1) : page[q].at # "new"

\* The first edit of a draft that exists nowhere else.
NewDraft(p) ==
  /\ p = 1 /\ Opens(p) /\ log = <<>>
  /\ edits < bound.edits
  /\ Becomes(p, schedule(persist(newId([New EXCEPT !.at = "idle", !.seq = 1, !.payload = fresh]))), {})
  /\ owed' = {fresh} /\ edits' = fresh
  /\ UNCHANGED <<log, late, full, bad, from, choices, faults>>

Snapshots == {page[p].snap : p \in Stored}
Shown(pg, s) == [pg EXCEPT !.payload = s.payload, !.context = s.context]

\* hydrate with a record, what it is based on, and the snapshots of all pages: one is
\* taken up when all of them hold the same edits of that version.  Sequences are only
\* compared, so the page need not go on counting where the snapshot's did.
Hydrated(p, record, base) ==
  LET pg == [New EXCEPT !.at = "idle", !.token = base]
  IN  IF Stored = {} THEN Becomes(p, Shown(pg, record), {})
      ELSE IF \E s, t \in Snapshots : s.base # base \/ s.payload # t.payload
        THEN Becomes(p, [Shown(pg, record) EXCEPT !.paused = TRUE, !.conflict = TRUE], {})
      ELSE \E s \in Snapshots :
             Becomes(p, schedule(persist(newId(
               [Shown(pg, s) EXCEPT !.adopted = {<<q, page[q].snap.mut>> : q \in Stored},
                                    !.seq = 1, !.browser = 1, !.ctx = 1]))), {})

\* The answer of the server may be old by now.  Without a version, every snapshot has
\* to be of a draft that was never saved.
Hydrate(p) ==
  /\ Opens(p)
  /\ \/ \E v \in DOMAIN log : Hydrated(p, log[v], v)
     \/ (\A s \in Snapshots : s.base = 0) /\ \E s \in Snapshots : Hydrated(p, s, 0)
  /\ UNCHANGED <<log, late, full, bad, from, owed, edits, choices, faults>>

HydrateOffline(p) ==
  /\ Opens(p)
  /\ faults < bound.faults /\ faults' = faults + 1
  /\ \E s \in Snapshots : Hydrated(p, s, s.base)
  /\ UNCHANGED <<log, late, full, bad, from, owed, edits, choices>>

Edit(p) ==
  /\ Open(p) /\ edits < bound.edits
  /\ LET old == page[p]
         pg == newId([old EXCEPT !.seq = @ + 1, !.payload = fresh])
     IN  /\ Becomes(p, schedule([persist(pg) EXCEPT !.conflict = old.paused /\ ~old.invalid]), {})
         /\ from' = [from EXCEPT ![fresh] = from[old.payload] \cup {old.payload}]
         /\ owed' = (owed \ {old.payload}) \cup {fresh}
  /\ \/ UNCHANGED <<bad, faults>>
     \/ /\ faults < bound.faults /\ faults' = faults + 1
        /\ bad' = bad \cup {fresh}
  /\ edits' = fresh
  /\ UNCHANGED <<log, late, full, choices>>

updateContext(p) ==
  /\ Open(p) /\ edits < bound.edits
  /\ Becomes(p, schedule(persist(newId([page[p] EXCEPT !.ctx = @ + 1, !.context = fresh]))), {})
  /\ edits' = fresh
  /\ UNCHANGED <<log, late, full, bad, from, owed, choices, faults>>

Undelivered(pg) == IF pg.at = "sent" /\ pg.answer = NONE THEN late \cup {pg.sent} ELSE late

\* The page asks before it closes on content that is stored nowhere.
Close(p) ==
  /\ Open(p)
  /\ Becomes(p, [New EXCEPT !.at = "closed", !.snap = page[p].snap], {})
  /\ owed' = IF hasUnsavedContent(page[p]) THEN owed \ {page[p].payload} ELSE owed
  /\ late' = Undelivered(page[p])
  /\ UNCHANGED <<log, full, bad, from, edits, choices, faults>>

-----------------------------------------------------------------------------
(* Saving *)

TimerFires(p) ==
  /\ page[p].timer
  /\ Becomes(p, flush([page[p] EXCEPT !.timer = FALSE]), {})
  /\ UNCHANGED <<log, late, full, bad, from, owed, edits, choices, faults>>

\* retry, by hand or because the page is online or in focus again.
Retry(p) ==
  /\ Open(p) /\ ~page[p].conflict
  /\ Becomes(p, flush([page[p] EXCEPT !.paused = FALSE, !.invalid = FALSE,
                                         !.timer = FALSE]), {})
  /\ UNCHANGED <<log, late, full, bad, from, owed, edits, choices, faults>>

\* getHealth confirmed the workspace.  A page that was paused meanwhile goes on.
Healthy(p) ==
  /\ page[p].at = "health"
  /\ Becomes(p, IF page[p].obsolete THEN Finished(page[p], FALSE)
                ELSE Dispatched(p, page[p]), {})
  /\ UNCHANGED <<log, late, full, bad, from, owed, edits, choices, faults>>

\* DraftRepository: the receipt is found, the revision is not the expected one, or
\* the next version is written.
Receipt(req) == {v \in DOMAIN log : log[v].by = req}
Answer(req) ==
  IF req.payload \in bad THEN 422
  ELSE IF Receipt(req) # {} \/ req.expected = Len(log) THEN 200 ELSE 409
Written(req) ==
  IF Answer(req) = 200 /\ Receipt(req) = {}
    THEN Append(log, Version(IF req.change = "content" THEN req.payload
                             ELSE log[req.expected].payload, req.context, req))
    ELSE log

Serve(p) ==
  /\ page[p].at = "sent" /\ page[p].answer = NONE
  /\ LET req == page[p].sent
     IN  /\ Becomes(p, [page[p] EXCEPT !.answer = Answer(req)], {})
         /\ log' = Written(req)
  /\ UNCHANGED <<late, full, bad, from, owed, edits, choices, faults>>

\* An operation of the journal is unresolved.
Busy(p) ==
  /\ page[p].at = "sent" /\ page[p].answer = NONE
  /\ faults < bound.faults /\ faults' = faults + 1
  /\ Becomes(p, [page[p] EXCEPT !.answer = 409], {})
  /\ UNCHANGED <<log, late, full, bad, from, owed, edits, choices>>

ServeLate ==
  /\ \E req \in late : log' = Written(req) /\ late' = late \ {req}
  /\ UNCHANGED <<page, full, bad, from, owed, edits, choices, faults>>

\* The answer to the present request is an acknowledgement: the version becomes the
\* page's, but for what was edited since the request was made.
Merged(pg, req, v) ==
  LET newer == pg.seq # pg.saved \/ req.change = "context"
  IN  [pg EXCEPT !.payload = IF newer THEN @ ELSE log[v].payload,
                 !.context = IF pg.ctx # pg.savedCtx THEN @ ELSE log[v].context,
                 !.token = v]
\* Its own snapshot goes when nothing is left to save, or is written anew.
\* Fault: it goes when the request it was written for is acknowledged.
DroppedAtOnce(pg) == IF ~pg.paused THEN [pg EXCEPT !.snap = NONE] ELSE persist(pg)
Dropped(pg) ==
  IF pg.paused \/ Dirty(pg) THEN persist(pg)
  ELSE IF pg.snap # NONE /\ pg.snap.mut = pg.mut THEN [pg EXCEPT !.snap = NONE] ELSE pg

Acknowledged(p) ==
  LET pg == page[p]
      req == pg.sent
      settled == [pg EXCEPT !.pending = NONE, !.savedCtx = pg.pending.ctx,
                            !.saved = IF req.change = "content" THEN pg.pending.seq ELSE @]
      kept == Dropped(Merged(settled, req, CHOOSE v \in Receipt(req) : TRUE))
      adopts == ~pg.paused /\ req.change = "content"
  IN  Becomes(p,
        Finished([kept EXCEPT !.conflict = pg.paused,
                                 !.adopted = IF adopts THEN {} ELSE @], TRUE),
        IF adopts THEN pg.adopted ELSE {})

\* A refused context is tried again on top of the version that is there now.
Refreshing(pg) ==
  /\ pg.answer = 409 /\ pg.sent.change = "context"
  /\ pg.seq = pg.saved /\ ~pg.paused

Receive(p) ==
  LET pg == page[p]
  IN  /\ pg.at = "sent" /\ pg.answer # NONE
      /\ \/ pg.obsolete /\ Becomes(p, Finished(pg, FALSE), {})
         \/ ~pg.obsolete /\ pg.answer = 200 /\ Acknowledged(p)
         \/ /\ ~pg.obsolete /\ Refreshing(pg)
            /\ Becomes(p, [pg EXCEPT !.at = "refresh", !.pending = NONE,
                                     !.sent = NONE, !.answer = NONE], {})
         \/ /\ ~pg.obsolete /\ pg.answer = 409 /\ ~Refreshing(pg)
            /\ Becomes(p, Refused(pg), {})
         \/ /\ ~pg.obsolete /\ pg.answer = 422
            /\ Becomes(p, Finished([pg EXCEPT !.pending = NONE,
                             !.paused = TRUE, !.invalid = TRUE, !.conflict = FALSE], FALSE), {})
      /\ UNCHANGED <<log, late, full, bad, from, owed, edits, choices, faults>>

Refreshed(p) ==
  LET pg == page[p]
      v == Len(log)
  IN  /\ pg.at = "refresh"
      /\ Becomes(p,
           IF pg.obsolete THEN Finished(pg, FALSE)
           ELSE IF MayAdopt(pg, v)
             THEN Finished(adoptContextRevision(pg, v), TRUE)
           ELSE Refused(pg), {})
      /\ UNCHANGED <<log, late, full, bad, from, owed, edits, choices, faults>>

\* An error without a status is tried again, but the refusal that a refresh was made
\* for stands, whatever became of the refresh.
CallFailed(pg) == IF pg.at = "refresh" /\ ~pg.obsolete THEN Refused(pg) ELSE Failed(pg)

\* A call or its answer is lost; a save may still arrive.
Lost(p) ==
  /\ Open(p) /\ active(page[p])
  /\ faults < bound.faults /\ faults' = faults + 1
  /\ Becomes(p, CallFailed(page[p]), {})
  /\ late' \in {late} \cup {late \cup {req} : req \in {page[p].sent} \ {NONE}}
  /\ UNCHANGED <<log, full, bad, from, owed, edits, choices>>

-----------------------------------------------------------------------------
(* What others do *)

\* A version of the server arrives at a page, in whatever order.
Event(p) ==
  /\ Open(p)
  /\ \E v \in DOMAIN log : Becomes(p, reconcile(page[p], v), {})
  /\ UNCHANGED <<log, late, full, bad, from, owed, edits, choices, faults>>

Notice(p) ==
  /\ Open(p)
  /\ \E n \in page[p].heard :
       LET pg == [page[p] EXCEPT !.heard = @ \ {n}]
       IN  Becomes(p, IF n = pg.payload \/ pg.conflict THEN pg ELSE enterConflict(pg), {})
  /\ UNCHANGED <<log, late, full, bad, from, owed, edits, choices, faults>>

\* Another client saves, or an operation publishes what was made from the draft.
ServerChange ==
  /\ log # <<>> /\ edits < bound.edits
  /\ log' = Append(log, Version(fresh, log[Len(log)].context, NONE))
  /\ from' = [from EXCEPT ![fresh] = from[log[Len(log)].payload] \cup {log[Len(log)].payload}]
  /\ edits' = fresh
  /\ UNCHANGED <<late, page, full, bad, owed, choices, faults>>

StorageFails ==
  /\ IF full THEN faults' = faults ELSE faults < bound.faults /\ faults' = faults + 1
  /\ full' = ~full
  /\ UNCHANGED <<log, late, page, bad, from, owed, edits, choices>>

-----------------------------------------------------------------------------
(* Choices: resolveConflict holds the page while its command runs *)

\* A copy in the storage, or the page's own that could not be stored.
Copies(p) ==
  {[who |-> q, mut |-> page[q].snap.mut, payload |-> page[q].snap.payload] : q \in Stored}
  \cup {[who |-> p, mut |-> pg.mut, payload |-> pg.payload] : pg \in {x \in {page[p]} : Dirty(x)}}

\* In a conflict a copy is chosen, to be forked or given up for the version of the
\* server; otherwise a command replaces the draft, and what the page had with it.
Choose(p) ==
  /\ Open(p) /\ page[p].choice = NONE
  /\ choices < bound.choices /\ choices' = choices + 1
  /\ LET held(kind, copies) ==
           [kind |-> kind, copies |-> copies, seq |-> page[p].seq, ctx |-> page[p].ctx,
            token |-> page[p].token]
         own == {c \in Copies(p) : <<c.who, c.mut>> \in page[p].adopted \/ c.who = p}
     IN  \/ /\ page[p].conflict
            /\ \E c \in Copies(p), kind \in {"fork", "load"} :
                 Becomes(p, [page[p] EXCEPT !.choice = held(kind, {c})], {})
         \/ /\ ~page[p].conflict /\ page[p].token # 0 /\ edits < bound.edits
            /\ Becomes(p, [page[p] EXCEPT !.choice = held("command", own)], {})
  /\ UNCHANGED <<log, late, full, bad, from, owed, edits, faults>>

Removed(choice) == {<<c.who, c.mut>> : c \in choice.copies}
GivenUp(choice) == {c.payload : c \in choice.copies}
Released(pg) == schedule([pg EXCEPT !.choice = NONE])

\* The copy is a draft of its own now, and the page goes there.
Forked(p) ==
  /\ page[p].choice # NONE /\ page[p].choice.kind = "fork"
  /\ Becomes(p, [New EXCEPT !.at = "closed", !.snap = page[p].snap], Removed(page[p].choice))
  /\ owed' = owed \ (GivenUp(page[p].choice)
               \cup {n \in {page[p].payload} : hasUnsavedContent(page[p])})
  /\ late' = Undelivered(page[p])
  /\ UNCHANGED <<log, full, bad, from, edits, choices, faults>>

\* The result replaces what the page holds unless it was edited meanwhile; an answer
\* that is on its way no longer counts.
Loaded(pg, version, v) ==
  [New EXCEPT !.at = pg.at, !.sent = pg.sent, !.answer = pg.answer, !.obsolete = active(pg),
              !.snap = pg.snap, !.heard = pg.heard,
              !.payload = version.payload, !.context = version.context, !.token = v]
Replaced(p, version, v) ==
  LET pg == page[p]
      choice == pg.choice
  IN  IF choice.seq # pg.seq \/ choice.ctx # pg.ctx
        THEN /\ Becomes(p, Released([pg EXCEPT !.paused = TRUE, !.conflict = TRUE]), {})
             /\ UNCHANGED owed
        ELSE /\ Becomes(p, Released(Loaded(pg, version, v)), Removed(choice))
             /\ owed' = owed \ (GivenUp(choice) \cup {pg.payload})

Load(p) ==
  /\ page[p].choice # NONE /\ page[p].choice.kind = "load"
  /\ log # <<>>
  /\ Replaced(p, log[Len(log)], Len(log))
  /\ UNCHANGED <<log, late, full, bad, from, edits, choices, faults>>

Command(p) ==
  /\ page[p].choice # NONE /\ page[p].choice.kind = "command"
  /\ page[p].choice.token = Len(log)
  /\ edits < bound.edits
  /\ LET version == Version(fresh, log[Len(log)].context, NONE)
     IN  /\ log' = Append(log, version)
         /\ Replaced(p, version, Len(log) + 1)
  /\ from' = [from EXCEPT ![fresh] = from[log[Len(log)].payload] \cup {log[Len(log)].payload}]
  /\ edits' = fresh
  /\ UNCHANGED <<late, full, bad, choices, faults>>

\* The command fails and nothing is given up; a conflict is entered when it was refused
\* because the draft has moved.
Kept(p) ==
  /\ page[p].choice # NONE
  /\ \/ Becomes(p, Released(page[p]), {})
     \/ /\ page[p].choice.kind = "command" /\ page[p].choice.token # Len(log)
        /\ Becomes(p, Released(enterConflict(page[p])), {})
  /\ UNCHANGED <<log, late, full, bad, from, owed, edits, choices, faults>>

-----------------------------------------------------------------------------

Person(p) ==
  \/ NewDraft(p) \/ Hydrate(p) \/ HydrateOffline(p)
  \/ Edit(p) \/ updateContext(p) \/ Close(p) \/ Retry(p) \/ Choose(p)
Network(p) ==
  \/ Healthy(p) \/ Serve(p) \/ Busy(p) \/ Receive(p) \/ Refreshed(p) \/ Lost(p)
  \/ Event(p) \/ Notice(p)
Choice(p) == Forked(p) \/ Load(p) \/ Command(p) \/ Kept(p)
Next ==
  /\ \/ \E p \in Page : Person(p) \/ TimerFires(p) \/ Network(p) \/ Choice(p)
     \/ ServeLate \/ ServerChange \/ StorageFails
  /\ UNCHANGED bound

Spec == Init /\ [][Next]_vars

-----------------------------------------------------------------------------
(* Properties *)

\* A page's save never replaces content its own was not made from
\* (coordinator.ts:196 sends the token of what it shows, :314-323 compares versions).
NoBlindOverwrite ==
  \A v \in 2..Len(log) :
    log[v].by # NONE /\ log[v].by.change = "content" =>
      log[v - 1].payload \in from[log[v].payload] \cup {log[v].payload}

\* An edit that nobody replaced or gave up was saved, or is held by an open page or by
\* the storage (coordinator.ts:74, :219-225, :360, :371).
NothingLost ==
  \A n \in owed :
    \/ \E v \in DOMAIN log : log[v].payload = n
    \/ \E p \in Page : Open(p) /\ page[p].payload = n
    \/ \E s \in Snapshots : s.payload = n

\* When awaitSaved lets a command start, the page shows the version of its token
\* (coordinator.ts:297), whatever was edited, deferred or replayed before.
Barrier(pg) ==
  /\ pg.at = "idle" /\ pg.pending = NONE /\ pg.deferred = 0
  /\ ~Held(pg) /\ ~pg.conflict /\ ~Dirty(pg) /\ pg.token # 0
SavedIsShown ==
  \A p \in Page : Barrier(page[p]) =>
    /\ page[p].payload = log[page[p].token].payload
    /\ page[p].context = log[page[p].token].context

\* An edit that may be sent will be: each way out of flush leaves a page whose timer is
\* set when there is something to save and nobody has to choose or correct
\* (coordinator.ts:258 and :272 restart what waits, :374 after a choice).
SaveIsScheduled ==
  \A p \in Page :
    page[p].at = "idle" /\ (Dirty(page[p]) \/ page[p].pending # NONE) /\ ~Held(page[p])
      => page[p].timer

=============================================================================
