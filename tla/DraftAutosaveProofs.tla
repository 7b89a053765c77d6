------------------------ MODULE DraftAutosaveProofs ------------------------
(***************************************************************************)
(* Proofs about DraftAutosave, for any number of pages, edits, choices and *)
(* faults.                                                                 *)
(*                                                                         *)
(* What is said of a page is said of a record pg and a world w: the log,   *)
(* what descends from what, and which edits are safe because the server    *)
(* has them or nobody owes them any more.  So what a method does to its    *)
(* page is shown once, as a lemma about the method, and holds wherever the *)
(* method is called; worlds only grow.                                     *)
(***************************************************************************)
EXTENDS DraftAutosave, TLAPS

-----------------------------------------------------------------------------
(* Types *)

Places == {"new", "idle", "health", "sent", "refresh", "closed"}

\* A page is nothing but its fields.
Whole(x) ==
  [at |-> x.at, payload |-> x.payload, context |-> x.context, token |-> x.token,
   seq |-> x.seq, saved |-> x.saved, browser |-> x.browser, ctx |-> x.ctx, savedCtx |-> x.savedCtx,
   mut |-> x.mut, pending |-> x.pending, deferred |-> x.deferred, adopted |-> x.adopted,
   paused |-> x.paused, invalid |-> x.invalid, conflict |-> x.conflict, timer |-> x.timer,
   sent |-> x.sent, answer |-> x.answer, obsolete |-> x.obsolete,
   choice |-> x.choice, snap |-> x.snap, heard |-> x.heard]

Fields(x) ==
  /\ x = Whole(x)
  /\ x.at \in Places /\ x.payload \in Nat /\ x.context \in Nat /\ x.token \in Nat
  /\ x.seq \in Nat /\ x.saved \in Nat /\ x.browser \in Nat \cup {NONE}
  /\ x.ctx \in Nat /\ x.savedCtx \in Nat
  /\ x.mut \in Mutation \cup {NONE} /\ x.pending \in Waiting \cup {NONE} /\ x.deferred \in Nat
  /\ x.adopted \subseteq Nat \X Mutation
  /\ x.sent \in Requests \cup {NONE} /\ x.answer \in {200, 409, 422, NONE}
  /\ x.choice \in Chosen \cup {NONE} /\ x.snap \in Snapshot \cup {NONE} /\ x.heard \subseteq Nat

Versions == [payload : Nat, context : Nat, by : Requests \cup {NONE}]

-----------------------------------------------------------------------------
(* The world a page is in *)

Safe == {n \in 0..edits : n \notin owed \/ \E v \in DOMAIN log : log[v].payload = n}
Stowed == Safe \cup {page[p].snap.payload : p \in Stored}
World == [log |-> log, from |-> from, safe |-> Safe, stowed |-> Stowed, edits |-> edits]

\* Content n was made from content m, or is it.
Descends(n, m, w) == m \in w.from[n] \cup {n}
\* Content n may be saved over version v.
Based(n, v, w) == v # 0 => Descends(n, w.log[v].payload, w)

\* A version is what its request made of the version before.
Follows(v, w) ==
  LET r == w.log[v].by
  IN  /\ v = r.expected + 1 /\ w.log[v].context = r.context
      /\ r.change = "content" => /\ w.log[v].payload = r.payload
                                 /\ v > 1 => Descends(r.payload, w.log[v - 1].payload, w)
      /\ r.change = "context" => v > 1 /\ w.log[v].payload = w.log[v - 1].payload

Sane(w) ==
  /\ w.edits \in Nat /\ w.log \in Seq(Versions)
  /\ w.safe \subseteq 0..w.edits /\ w.safe \subseteq w.stowed
  /\ \A v \in DOMAIN w.log : w.log[v].payload \in w.safe
  /\ \A v \in DOMAIN w.log : w.log[v].by # NONE => Follows(v, w)

\* Edits are not forgotten: of what is known, nothing changes.
Grows(w, x) ==
  /\ w.edits <= x.edits /\ Len(w.log) <= Len(x.log)
  /\ \A v \in DOMAIN w.log : x.log[v] = w.log[v]
  /\ w.safe \subseteq x.safe /\ w.stowed \subseteq x.stowed
  /\ \A n \in 0..w.edits : x.from[n] = w.from[n]

-----------------------------------------------------------------------------
(* The invariant of a page *)

\* A request that may be served at any time.
Sound(r, w) ==
  /\ r \in Requests /\ r.expected <= Len(w.log)
  /\ r.change = "content" => r.payload \in 0..w.edits /\ Based(r.payload, r.expected, w)
  /\ r.change = "context" => r.expected # 0

\* An id was drawn for the content, or both are safe.
Named(mut, payload, w) ==
  /\ mut[1] \in 0..w.edits
  /\ payload = mut[1] \/ (payload \in w.safe /\ mut[1] \in w.safe)

Counts(pg, w) ==
  /\ pg.payload <= w.edits /\ pg.token <= Len(w.log) /\ pg.deferred <= Len(w.log)
  /\ pg.saved <= pg.seq /\ pg.savedCtx <= pg.ctx
  /\ pg.browser # NONE => pg.browser <= pg.seq

\* Where a page is, and what it has then.
Talks(pg, w) ==
  /\ pg.at \notin {"new", "closed"}
  /\ pg.obsolete => pg.pending = NONE /\ active(pg)
  /\ pg.at = "health" => pg.obsolete \/ pg.pending # NONE \/ Dirty(pg)
  /\ pg.at = "sent" => pg.sent # NONE /\ (pg.obsolete \/ (pg.pending # NONE /\ pg.sent = pg.pending.req))
  /\ pg.at = "refresh" => pg.obsolete \/ (pg.pending = NONE /\ pg.savedCtx < pg.ctx)
  /\ pg.at # "sent" => pg.sent = NONE /\ pg.answer = NONE
  /\ pg.sent # NONE => Sound(pg.sent, w)
  /\ pg.answer = 200 => \E v \in DOMAIN w.log : w.log[v].by = pg.sent

\* What the request that waits for its answer was made of is still there.
Remembers(pg, pending, w) ==
  LET r == pending.req
  IN  /\ Sound(r, w) /\ r.expected = pg.token
      /\ pending.seq <= pg.seq /\ pg.savedCtx <= pending.ctx /\ pending.ctx <= pg.ctx
      /\ r.change = "content" => /\ pg.saved < pending.seq
                                 /\ Descends(pg.payload, r.payload, w)
                                 /\ pg.seq = pending.seq => pg.payload = r.payload
      /\ r.change = "context" => pg.savedCtx < pending.ctx
Waits(pg, w) == pg.pending # NONE => Remembers(pg, pg.pending, w)

\* Opened offline on snapshots that differ: it waits for a choice.
Choosing(pg) == pg.at = "idle" /\ pg.pending = NONE /\ pg.paused /\ pg.conflict /\ ~pg.invalid
\* What a page has nothing to save of is what its version says.
Shows(pg, w) ==
  /\ pg.seq = pg.saved => pg.token # 0 /\ pg.payload = w.log[pg.token].payload
  /\ pg.ctx = pg.savedCtx /\ pg.token # 0 => pg.context = w.log[pg.token].context

Identified(pg) == pg.mut = NONE => ~Dirty(pg) /\ pg.pending = NONE
\* What was taken from another snapshot is still there, or is safe.
Holds(pg, n, w) ==
  \/ n \in w.safe
  \/ /\ pg.payload = n
     /\ pg.pending # NONE /\ pg.pending.req.change = "content" => pg.pending.req.payload = n
Adopts(pg, w) == \A a \in pg.adopted : Holds(pg, a[2][1], w)
Chooses(pg, w) ==
  pg.choice # NONE =>
    /\ pg.choice.kind = "command" => pg.choice.token # 0
    /\ \A c \in pg.choice.copies : Named(c.mut, c.payload, w) /\ c.payload <= w.edits

\* The snapshot under the page's key, whether the page is open or not.
Stores(pg, w) ==
  pg.snap # NONE =>
    /\ pg.snap.payload <= w.edits /\ pg.snap.base <= Len(w.log)
    /\ Based(pg.snap.payload, pg.snap.base, w) /\ Named(pg.snap.mut, pg.snap.payload, w)
Covers(pg, w) ==
  /\ pg.snap # NONE => pg.snap.payload \in w.safe \cup {pg.payload}
  /\ ~hasUnsavedContent(pg) => \/ pg.payload \in w.stowed
                               \/ pg.snap # NONE /\ pg.snap.payload = pg.payload

Fair(pg, w) ==
  /\ Fields(pg) /\ Counts(pg, w) /\ Talks(pg, w) /\ Waits(pg, w)
  /\ Choosing(pg) \/ Shows(pg, w)
  /\ Based(pg.payload, pg.token, w)
  /\ Adopts(pg, w) /\ Chooses(pg, w) /\ Stores(pg, w) /\ Covers(pg, w)
Good(pg, w) ==
  /\ Fair(pg, w) /\ Identified(pg)
  /\ pg.mut # NONE => Named(pg.mut, pg.payload, w)

Opened(pg) == pg.at \notin {"new", "closed"}
Scheduled(pg) == pg.at = "idle" /\ (Dirty(pg) \/ pg.pending # NONE) /\ ~Held(pg) => pg.timer
Blank(pg) == /\ pg = [New EXCEPT !.at = pg.at, !.snap = pg.snap]
             /\ pg.at = "new" => pg.snap = NONE

Fit(pg, w) ==
  /\ Fields(pg) /\ Stores(pg, w)
  /\ IF Opened(pg) THEN Good(pg, w) /\ Scheduled(pg) ELSE Blank(pg)

AutosaveInv ==
  /\ bound \in Bounds /\ owed \subseteq 0..edits /\ edits <= bound.edits
  /\ from \in [0..bound.edits -> SUBSET Nat]
  /\ page = [p \in Page |-> page[p]]
  /\ Sane(World)
  /\ \A r \in late : Sound(r, World)
  /\ \A p \in Page : Fit(page[p], World)
  /\ NothingLost

-----------------------------------------------------------------------------
(* Worlds grow.                                                               *)

LEMMA SameGrows ==
  ASSUME NEW w, Sane(w)
  PROVE  Grows(w, w)
BY DEF Grows, Sane

LEMMA DescendsGrows ==
  ASSUME NEW w, NEW x, Grows(w, x), NEW n \in 0..w.edits, NEW m, Descends(n, m, w)
  PROVE  Descends(n, m, x)
BY DEF Descends, Grows

LEMMA BasedGrows ==
  ASSUME NEW w, NEW x, Sane(w), Grows(w, x), NEW n \in 0..w.edits,
         NEW v \in Nat, v <= Len(w.log), Based(n, v, w)
  PROVE  Based(n, v, x)
<1>1. CASE v # 0
  <2>1. v \in DOMAIN w.log
    BY <1>1 DEF Sane
  <2>2. Descends(n, w.log[v].payload, x)
    BY <1>1, DescendsGrows DEF Based
  <2> QED
    BY <2>1, <2>2 DEF Based, Grows
<1> QED
  BY <1>1 DEF Based

LEMMA SoundGrows ==
  ASSUME NEW w, NEW x, Sane(w), Sane(x), Grows(w, x), NEW r, Sound(r, w)
  PROVE  Sound(r, x)
<1>1. r.expected \in Nat /\ Len(w.log) \in Nat /\ Len(x.log) \in Nat
  BY DEF Sound, Requests, Sane
<1>2. r.expected <= Len(x.log)
  BY <1>1 DEF Sound, Grows
<1>3. r.change = "content" => r.payload \in 0..x.edits /\ Based(r.payload, r.expected, x)
  BY <1>1, BasedGrows DEF Sound, Grows, Sane
<1> QED
  BY <1>2, <1>3 DEF Sound

LEMMA NamedGrows ==
  ASSUME NEW w, NEW x, Sane(w), Sane(x), Grows(w, x), NEW mut, NEW n, Named(mut, n, w)
  PROVE  Named(mut, n, x)
BY DEF Named, Grows, Sane

LEMMA StoresGrows ==
  ASSUME NEW w, NEW x, Sane(w), Sane(x), Grows(w, x), NEW pg, Fields(pg), Stores(pg, w)
  PROVE  Stores(pg, x)
<1> SUFFICES ASSUME pg.snap # NONE
             PROVE  Stores(pg, x)
  BY DEF Stores
<1>1. pg.snap \in Snapshot /\ pg.snap.payload \in Nat /\ pg.snap.base \in Nat
  BY DEF Fields, Snapshot
<1>2. pg.snap.payload <= x.edits /\ pg.snap.base <= Len(x.log)
  BY <1>1 DEF Stores, Grows, Sane
<1>3. Based(pg.snap.payload, pg.snap.base, x)
  BY <1>1, BasedGrows DEF Stores, Sane
<1>4. Named(pg.snap.mut, pg.snap.payload, x)
  BY NamedGrows DEF Stores
<1> QED
  BY <1>2, <1>3, <1>4 DEF Stores

LEMMA GoodGrows ==
  ASSUME NEW w, NEW x, Sane(w), Sane(x), Grows(w, x), NEW pg, Good(pg, w)
  PROVE  Good(pg, x)
<1> USE DEF Good, Fair
<1>1. Counts(pg, x)
  BY DEF Counts, Grows, Fields, Sane
<1>2. Talks(pg, x)
  <2>1. pg.sent # NONE => Sound(pg.sent, x)
    BY SoundGrows DEF Talks
  <2>2. pg.answer = 200 => \E v \in DOMAIN x.log : x.log[v].by = pg.sent
    BY DEF Talks, Grows, Sane
  <2> QED
    BY <2>1, <2>2 DEF Talks
<1>3. Waits(pg, x)
  <2> SUFFICES ASSUME pg.pending # NONE
               PROVE  Remembers(pg, pg.pending, x)
    BY DEF Waits
  <2>1. Remembers(pg, pg.pending, w) /\ pg.payload \in 0..w.edits
    BY DEF Waits, Counts, Fields, Sane
  <2>2. Sound(pg.pending.req, x)
    BY <2>1, SoundGrows DEF Remembers
  <2>3. pg.pending.req.change = "content" => Descends(pg.payload, pg.pending.req.payload, x)
    BY <2>1, DescendsGrows DEF Remembers
  <2> QED
    BY <2>1, <2>2, <2>3 DEF Remembers
<1>4. Choosing(pg) \/ Shows(pg, x)
  <2>1. pg.token # 0 => pg.token \in DOMAIN w.log
    BY DEF Counts, Fields, Sane
  <2> QED
    BY <2>1 DEF Shows, Grows
<1>5. Based(pg.payload, pg.token, x)
  BY BasedGrows DEF Counts, Fields, Sane
<1>6. pg.mut # NONE => Named(pg.mut, pg.payload, x)
  BY NamedGrows
<1>7. Adopts(pg, x)
  BY DEF Adopts, Holds, Grows
<1>8. Chooses(pg, x)
  <2> SUFFICES ASSUME pg.choice # NONE, NEW c \in pg.choice.copies
               PROVE  Named(c.mut, c.payload, x) /\ c.payload <= x.edits
    BY DEF Chooses
  <2>1. c.payload \in Nat
    BY DEF Fields, Chosen
  <2>2. Named(c.mut, c.payload, w) /\ c.payload <= w.edits
    BY DEF Chooses
  <2>3. Named(c.mut, c.payload, x)
    BY <2>2, NamedGrows
  <2>4. c.payload <= x.edits
    BY <2>1, <2>2 DEF Grows, Sane
  <2> QED
    BY <2>3, <2>4
<1>9. Stores(pg, x)
  BY StoresGrows
<1>10. Covers(pg, x)
  BY DEF Covers, Grows
<1> QED
  BY <1>1, <1>2, <1>3, <1>4, <1>5, <1>6, <1>7, <1>8, <1>9, <1>10

-----------------------------------------------------------------------------
(* What the methods do to their page.                                         *)

\* All fields but the timer and the flags.
Content(x, y) ==
  /\ x.at = y.at /\ x.payload = y.payload /\ x.context = y.context /\ x.token = y.token
  /\ x.seq = y.seq /\ x.saved = y.saved /\ x.browser = y.browser
  /\ x.ctx = y.ctx /\ x.savedCtx = y.savedCtx
  /\ x.mut = y.mut /\ x.pending = y.pending /\ x.deferred = y.deferred /\ x.adopted = y.adopted
  /\ x.sent = y.sent /\ x.answer = y.answer /\ x.obsolete = y.obsolete
  /\ x.choice = y.choice /\ x.snap = y.snap /\ x.heard = y.heard

\* What a page shows, and what it has in the storage, is left only when it is safe.
PassesSnap(x, y, w) ==
  x.snap # NONE => \/ x.snap.payload \in w.safe
                   \/ y.snap # NONE /\ y.snap.payload = x.snap.payload
Passes(x, y, w) ==
  /\ y.payload = x.payload \/ x.payload \in w.safe
  /\ PassesSnap(x, y, w)

LEMMA PassesOn ==
  ASSUME NEW w, NEW x, NEW y, NEW z, Passes(x, y, w), Passes(y, z, w)
  PROVE  Passes(x, z, w)
BY DEF Passes, PassesSnap

LEMMA FlagsGood ==
  ASSUME NEW w, NEW pg, NEW x, Good(pg, w), Fields(x), Content(x, pg),
         Choosing(x) \/ Shows(pg, w)
  PROVE  Good(x, w) /\ Passes(pg, x, w)
<1> USE DEF Good, Fair, Content
<1>1. Counts(x, w) /\ Talks(x, w) /\ Identified(x)
  BY DEF Counts, Talks, Identified, active, Dirty
<1>2. Waits(x, w) /\ Adopts(x, w) /\ Chooses(x, w) /\ Stores(x, w)
  BY DEF Waits, Remembers, Adopts, Holds, Chooses, Stores
<1>3. (Choosing(x) \/ Shows(x, w)) /\ Covers(x, w)
  BY DEF Shows, Covers, hasUnsavedContent
<1>4. /\ Based(x.payload, x.token, w)
      /\ x.mut # NONE => Named(x.mut, x.payload, w)
  OBVIOUS
<1> QED
  BY <1>1, <1>2, <1>3, <1>4 DEF Passes, PassesSnap

LEMMA ScheduleFields ==
  ASSUME NEW pg, Fields(pg)
  PROVE  /\ Fields(schedule(pg)) /\ Content(schedule(pg), pg)
         /\ schedule(pg).paused = pg.paused /\ schedule(pg).invalid = pg.invalid
         /\ schedule(pg).conflict = pg.conflict
         /\ ~Held(pg) /\ (pg.pending # NONE \/ Dirty(pg)) => schedule(pg).timer
         /\ Scheduled(schedule(pg))
<1> DEFINE b == ~Held(pg) /\ (pg.pending # NONE \/ Dirty(pg))
           x == [pg EXCEPT !.timer = b]
<1>1. x = schedule(pg)
  BY DEF schedule
<1> HIDE DEF b
<1>2. /\ Fields(x) /\ Content(x, pg) /\ x.timer = b
      /\ x.paused = pg.paused /\ x.invalid = pg.invalid /\ x.conflict = pg.conflict
  BY DEF Fields, Whole, Content
<1> HIDE DEF x
<1>3. ~Held(x) /\ (Dirty(x) \/ x.pending # NONE) => b
  BY <1>2 DEF b, Held, Dirty, Content
<1>4. Scheduled(x)
  BY <1>2, <1>3 DEF Scheduled
<1> QED
  BY <1>1, <1>2, <1>4 DEF b

LEMMA ScheduleGood ==
  ASSUME NEW w, NEW pg, Good(pg, w)
  PROVE  /\ Good(schedule(pg), w) /\ Scheduled(schedule(pg)) /\ Passes(pg, schedule(pg), w)
<1> USE DEF Good, Fair
<1>1. /\ Fields(schedule(pg)) /\ Content(schedule(pg), pg) /\ Scheduled(schedule(pg))
      /\ Choosing(pg) => Choosing(schedule(pg))
  BY ScheduleFields DEF Choosing, Content
<1> QED
  BY <1>1, FlagsGood

LEMMA NewIdGood ==
  ASSUME NEW w, NEW pg, Sane(w), Fair(pg, w)
  PROVE  /\ Good(newId(pg), w) /\ Passes(pg, newId(pg), w)
         /\ newId(pg).mut # NONE /\ newId(pg).at = pg.at /\ newId(pg).pending = pg.pending
         /\ newId(pg).paused = pg.paused /\ newId(pg).obsolete = pg.obsolete
<1> USE DEF Fair
<1> DEFINE m == <<pg.payload, pg.context>>
           x == [pg EXCEPT !.mut = m]
<1>1. m \in Mutation /\ m # NONE /\ m[1] = pg.payload
  BY NoneAssumption DEF Fields, Mutation
<1>2. x = newId(pg)
  BY DEF newId
<1> HIDE DEF m
<1>3. /\ Fields(x) /\ x.mut = m
      /\ x.at = pg.at /\ x.payload = pg.payload /\ x.context = pg.context /\ x.token = pg.token
      /\ x.seq = pg.seq /\ x.saved = pg.saved /\ x.browser = pg.browser
      /\ x.ctx = pg.ctx /\ x.savedCtx = pg.savedCtx
      /\ x.pending = pg.pending /\ x.deferred = pg.deferred
      /\ x.adopted = pg.adopted /\ x.paused = pg.paused /\ x.invalid = pg.invalid
      /\ x.conflict = pg.conflict /\ x.sent = pg.sent /\ x.answer = pg.answer
      /\ x.obsolete = pg.obsolete /\ x.choice = pg.choice /\ x.snap = pg.snap
  BY <1>1 DEF Fields, Whole
<1> HIDE DEF x
<1>4. Counts(x, w) /\ Talks(x, w) /\ Identified(x)
  BY <1>1, <1>3 DEF Counts, Talks, Identified, active, Dirty
<1>5. Waits(x, w) /\ Adopts(x, w) /\ Chooses(x, w) /\ Stores(x, w)
  BY <1>3 DEF Waits, Remembers, Adopts, Holds, Chooses, Stores
<1>6. (Choosing(x) \/ Shows(x, w)) /\ Covers(x, w)
  BY <1>3 DEF Choosing, Shows, Covers, hasUnsavedContent
<1>7. Based(x.payload, x.token, w) /\ Named(x.mut, x.payload, w)
  BY <1>1, <1>3 DEF Named, Counts, Fields, Sane
<1> QED
  BY <1>1, <1>2, <1>3, <1>4, <1>5, <1>6, <1>7 DEF Good, Passes, PassesSnap

LEMMA PersistGood ==
  ASSUME NEW w, NEW pg, Sane(w), Good(pg, w), pg.mut # NONE
  PROVE  /\ Good(persist(pg), w) /\ Passes(pg, persist(pg), w)
         /\ persist(pg).at = pg.at /\ persist(pg).pending = pg.pending
         /\ persist(pg).paused = pg.paused /\ persist(pg).obsolete = pg.obsolete
<1> USE DEF Good, Fair
<1>1. CASE full
  BY <1>1 DEF persist, Passes, PassesSnap
<1>2. CASE ~full
  <2> SUFFICES ASSUME NEW s, s = [base |-> pg.token, mut |-> pg.mut,
                                  payload |-> pg.payload, context |-> pg.context],
                      NEW x, x = [pg EXCEPT !.browser = pg.seq, !.snap = s]
               PROVE  /\ Good(x, w) /\ Passes(pg, x, w)
                      /\ x.at = pg.at /\ x.pending = pg.pending
                      /\ x.paused = pg.paused /\ x.obsolete = pg.obsolete
    BY <1>2 DEF persist
  <2>1. /\ s \in Snapshot /\ s # NONE
        /\ s.base = pg.token /\ s.mut = pg.mut /\ s.payload = pg.payload
    BY NoneAssumption DEF Fields, Snapshot
  <2>2. x = Whole(x) /\ x.mut = pg.mut /\ x.snap = s /\ x.browser = pg.seq
        /\ x.at = pg.at /\ x.payload = pg.payload /\ x.context = pg.context
        /\ x.token = pg.token /\ x.seq = pg.seq /\ x.saved = pg.saved /\ x.ctx = pg.ctx
        /\ x.savedCtx = pg.savedCtx /\ x.pending = pg.pending
        /\ x.deferred = pg.deferred /\ x.adopted = pg.adopted /\ x.paused = pg.paused
        /\ x.invalid = pg.invalid /\ x.conflict = pg.conflict /\ x.timer = pg.timer
        /\ x.sent = pg.sent /\ x.answer = pg.answer /\ x.obsolete = pg.obsolete
        /\ x.choice = pg.choice /\ x.heard = pg.heard
    BY DEF Fields, Whole
  <2>8. Fields(x)
    BY <2>1, <2>2 DEF Fields
  <2>3. Counts(x, w) /\ Talks(x, w) /\ Identified(x)
    BY <2>2 DEF Counts, Talks, Identified, active, Dirty, Fields
  <2>4. Waits(x, w) /\ Adopts(x, w) /\ Chooses(x, w)
    BY <2>2 DEF Waits, Remembers, Adopts, Holds, Chooses
  <2>5. (Choosing(x) \/ Shows(x, w)) /\ Covers(x, w) /\ Stores(x, w)
    BY <2>1, <2>2 DEF Choosing, Shows, Covers, Stores, Counts
  <2>6. Based(x.payload, x.token, w) /\ (x.mut # NONE => Named(x.mut, x.payload, w))
    BY <2>2
  <2>7. Passes(pg, x, w)
    BY <2>1, <2>2 DEF Passes, PassesSnap, Covers
  <2> QED
    BY <2>2, <2>3, <2>4, <2>5, <2>6, <2>7, <2>8
<1> QED
  BY <1>1, <1>2

\* What enterConflict notes first.
Marked(pg) == [pg EXCEPT !.paused = TRUE, !.conflict = TRUE,
                         !.seq = IF @ = pg.saved THEN @ + 1 ELSE @]

LEMMA MarkFair ==
  ASSUME NEW w, NEW pg, Sane(w), Good(pg, w), NEW x, x = Marked(pg)
  PROVE  /\ Fair(x, w) /\ (x.mut # NONE => Named(x.mut, x.payload, w))
         /\ Passes(pg, x, w) /\ x.paused
         /\ x.at = pg.at /\ x.pending = pg.pending /\ x.mut = pg.mut /\ x.obsolete = pg.obsolete
<1> USE DEF Good, Fair
<1> DEFINE s == IF pg.seq = pg.saved THEN pg.seq + 1 ELSE pg.seq
<1>1. /\ s \in Nat /\ s >= pg.seq /\ s > pg.saved
      /\ pg.seq # pg.saved => s = pg.seq
      /\ pg.browser # NONE /\ pg.seq = pg.saved => pg.browser < s
  BY DEF Fields, Counts
<1>2. PICK t : t = TRUE /\ pg = Whole(pg) /\ x = [pg EXCEPT !.paused = t, !.conflict = t, !.seq = s]
  BY DEF Marked, Fields
<1> HIDE DEF s
<1>3. x = Whole(x) /\ x.paused = t /\ x.conflict = t /\ x.seq = s
      /\ x.at = pg.at /\ x.payload = pg.payload /\ x.context = pg.context
      /\ x.token = pg.token /\ x.saved = pg.saved /\ x.browser = pg.browser
      /\ x.ctx = pg.ctx /\ x.savedCtx = pg.savedCtx /\ x.mut = pg.mut
      /\ x.pending = pg.pending /\ x.deferred = pg.deferred /\ x.adopted = pg.adopted
      /\ x.invalid = pg.invalid /\ x.timer = pg.timer /\ x.sent = pg.sent
      /\ x.answer = pg.answer /\ x.obsolete = pg.obsolete /\ x.choice = pg.choice
      /\ x.snap = pg.snap /\ x.heard = pg.heard
  BY ONLY <1>2, Zenon DEF Whole
<1>4. Fields(x)
  BY <1>1, <1>3 DEF Fields
<1>5. Counts(x, w) /\ Talks(x, w)
  BY <1>1, <1>3 DEF Counts, Talks, active, Dirty, Fields
<1>6. Waits(x, w)
  <2> SUFFICES ASSUME pg.pending # NONE
               PROVE  Remembers(x, pg.pending, w)
    BY <1>3 DEF Waits
  <2>1. Remembers(pg, pg.pending, w) /\ pg.pending.seq \in Nat
    BY DEF Waits, Fields, Waiting
  <2>2. pg.pending.req.change = "content" => s = pg.seq
    BY <1>1, <2>1 DEF Remembers, Fields
  <2>3. pg.pending.seq <= s
    BY <1>1, <2>1 DEF Remembers, Fields
  <2> QED
    BY <1>3, <2>1, <2>2, <2>3 DEF Remembers
<1>7. Choosing(x) \/ Shows(x, w)
  BY <1>1, <1>2, <1>3 DEF Choosing, Shows, Fields
<1>8. Adopts(x, w) /\ Chooses(x, w) /\ Stores(x, w)
  BY <1>3 DEF Adopts, Holds, Chooses, Stores
<1>9. Covers(x, w)
  BY <1>1, <1>3 DEF Covers, hasUnsavedContent, Fields
<1> QED
  BY <1>2, <1>3, <1>4, <1>5, <1>6, <1>7, <1>8, <1>9 DEF Passes, PassesSnap

\* A conflict is entered: the edit gets a number and an id, and is stored.
LEMMA EnterGood ==
  ASSUME NEW w, NEW pg, Sane(w), Good(pg, w)
  PROVE  /\ Good(enterConflict(pg), w) /\ Passes(pg, enterConflict(pg), w)
         /\ enterConflict(pg).at = pg.at /\ enterConflict(pg).pending = pg.pending
         /\ enterConflict(pg).paused /\ enterConflict(pg).obsolete = pg.obsolete
<1> SUFFICES ASSUME NEW x, x = Marked(pg), NEW y, y = IF pg.mut = NONE THEN newId(x) ELSE x
             PROVE  /\ Good(persist(y), w) /\ Passes(pg, persist(y), w)
                    /\ persist(y).at = pg.at /\ persist(y).pending = pg.pending
                    /\ persist(y).paused /\ persist(y).obsolete = pg.obsolete
  BY DEF enterConflict, Marked
<1>1. /\ Fair(x, w) /\ (x.mut # NONE => Named(x.mut, x.payload, w))
      /\ Passes(pg, x, w) /\ x.paused
      /\ x.at = pg.at /\ x.pending = pg.pending /\ x.mut = pg.mut /\ x.obsolete = pg.obsolete
  BY MarkFair
<1>2. /\ Good(y, w) /\ Passes(pg, y, w) /\ y.mut # NONE /\ y.paused
      /\ y.at = pg.at /\ y.pending = pg.pending /\ y.obsolete = pg.obsolete
  <2>1. CASE pg.mut = NONE
    BY <1>1, <2>1, NewIdGood, PassesOn
  <2>2. CASE pg.mut # NONE
    BY <1>1, <2>2 DEF Good, Identified
  <2> QED
    BY <2>1, <2>2
<1> QED
  BY <1>2, PersistGood, PassesOn

\* A version that arrives too early is kept for later.
LEMMA DeferGood ==
  ASSUME NEW w, NEW pg, Good(pg, w), NEW d \in Nat, d <= Len(w.log),
         NEW x, x = [pg EXCEPT !.deferred = d]
  PROVE  /\ Good(x, w) /\ Passes(pg, x, w) /\ x.at = pg.at /\ x.pending = pg.pending
         /\ x.obsolete = pg.obsolete /\ x.paused = pg.paused /\ x.choice = pg.choice
         /\ Scheduled(pg) => Scheduled(x)
<1> USE DEF Good, Fair
<1>1. pg = Whole(pg)
  BY DEF Fields
<1>2. x = Whole(x) /\ x.deferred = d
      /\ x.at = pg.at /\ x.payload = pg.payload /\ x.context = pg.context
      /\ x.token = pg.token /\ x.seq = pg.seq /\ x.saved = pg.saved
      /\ x.browser = pg.browser /\ x.ctx = pg.ctx /\ x.savedCtx = pg.savedCtx
      /\ x.mut = pg.mut /\ x.pending = pg.pending /\ x.adopted = pg.adopted
      /\ x.paused = pg.paused /\ x.invalid = pg.invalid /\ x.conflict = pg.conflict
      /\ x.timer = pg.timer /\ x.sent = pg.sent /\ x.answer = pg.answer
      /\ x.obsolete = pg.obsolete /\ x.choice = pg.choice /\ x.snap = pg.snap
      /\ x.heard = pg.heard
  BY ONLY <1>1, x = [pg EXCEPT !.deferred = d], Zenon DEF Whole
<1>3. Fields(x)
  BY <1>2 DEF Fields
<1>4. Counts(x, w) /\ Talks(x, w) /\ Identified(x)
  BY <1>2 DEF Counts, Talks, Identified, active, Dirty
<1>5. Waits(x, w) /\ Adopts(x, w) /\ Chooses(x, w) /\ Stores(x, w)
  BY <1>2 DEF Waits, Remembers, Adopts, Holds, Chooses, Stores
<1>6. (Choosing(x) \/ Shows(x, w)) /\ Covers(x, w)
  BY <1>2 DEF Choosing, Shows, Covers, hasUnsavedContent
<1>7. Based(x.payload, x.token, w) /\ (x.mut # NONE => Named(x.mut, x.payload, w))
  BY <1>2
<1>8. Scheduled(pg) => Scheduled(x)
  BY <1>2 DEF Scheduled, Dirty, Held
<1> QED
  BY <1>2, <1>3, <1>4, <1>5, <1>6, <1>7, <1>8 DEF Passes, PassesSnap

\* Content without unsaved edits is replaced by that of another version.
Rebased(pg, n, c, v) == [pg EXCEPT !.payload = n, !.context = c, !.token = v]

LEMMA RebaseGood ==
  ASSUME NEW w, NEW pg, Sane(w), Good(pg, w), NEW v \in DOMAIN w.log,
         ~pg.paused, pg.seq = pg.saved, pg.pending = NONE,
         NEW c \in Nat, pg.ctx = pg.savedCtx => c = w.log[v].context,
         NEW x, x = Rebased(pg, w.log[v].payload, c, v)
  PROVE  /\ Good(x, w) /\ Passes(pg, x, w) /\ x.at = pg.at /\ x.pending = pg.pending
         /\ x.obsolete = pg.obsolete /\ x.paused = pg.paused /\ x.choice = pg.choice
         /\ x.mut = pg.mut /\ Dirty(x) = Dirty(pg)
<1> USE DEF Good, Fair
<1>0. PICK n : n = w.log[v].payload
  OBVIOUS
<1>1. pg = Whole(pg) /\ x = [pg EXCEPT !.payload = n, !.context = c, !.token = v]
  BY <1>0 DEF Fields, Rebased
<1>2. x = Whole(x) /\ x.payload = n /\ x.context = c /\ x.token = v
      /\ x.at = pg.at /\ x.seq = pg.seq /\ x.saved = pg.saved /\ x.browser = pg.browser
      /\ x.ctx = pg.ctx /\ x.savedCtx = pg.savedCtx /\ x.mut = pg.mut
      /\ x.pending = pg.pending /\ x.deferred = pg.deferred /\ x.adopted = pg.adopted
      /\ x.paused = pg.paused /\ x.invalid = pg.invalid /\ x.conflict = pg.conflict
      /\ x.timer = pg.timer /\ x.sent = pg.sent /\ x.answer = pg.answer
      /\ x.obsolete = pg.obsolete /\ x.choice = pg.choice /\ x.snap = pg.snap
      /\ x.heard = pg.heard
  BY ONLY <1>1, Zenon DEF Whole
<1>3. /\ n \in w.safe /\ n \in w.stowed /\ n \in Nat /\ n <= w.edits
      /\ v \in Nat /\ v # 0 /\ v <= Len(w.log)
  BY <1>0 DEF Sane
<1>4. pg.payload \in w.safe /\ Shows(pg, w)
  <2>1. Shows(pg, w)
    BY DEF Choosing
  <2>2. pg.token \in DOMAIN w.log
    BY <2>1 DEF Shows, Fields, Counts, Sane
  <2> QED
    BY <2>1, <2>2 DEF Shows, Sane
<1>5. Fields(x)
  BY <1>2, <1>3 DEF Fields
<1>6. Counts(x, w) /\ Talks(x, w) /\ Identified(x) /\ Dirty(x) = Dirty(pg)
  BY <1>2, <1>3 DEF Counts, Talks, Identified, active, Dirty
<1>7. Waits(x, w) /\ Chooses(x, w) /\ Stores(x, w)
  BY <1>2 DEF Waits, Chooses, Stores
<1>8. Adopts(x, w)
  BY <1>2, <1>4 DEF Adopts, Holds
<1>9. Shows(x, w) /\ Covers(x, w)
  BY <1>0, <1>2, <1>3, <1>4 DEF Shows, Covers
<1>10. Based(x.payload, x.token, w)
  BY <1>0, <1>2 DEF Based, Descends
<1>11. x.mut # NONE => Named(x.mut, x.payload, w)
  BY <1>2, <1>3, <1>4 DEF Named
<1> QED
  BY <1>2, <1>4, <1>5, <1>6, <1>7, <1>8, <1>9, <1>10, <1>11 DEF Passes, PassesSnap

LEMMA AdoptGood ==
  ASSUME NEW w, w.log = log, NEW pg, Sane(w), Good(pg, w), NEW v \in DOMAIN w.log,
         MayAdopt(pg, v), pg.ctx # pg.savedCtx
  PROVE  LET x == adoptContextRevision(pg, v)
         IN  /\ Good(x, w) /\ Passes(pg, x, w) /\ x.at = pg.at /\ x.pending = pg.pending
             /\ x.obsolete = pg.obsolete
<1> USE DEF Good, Fair
<1>1. PICK x : x = Rebased(pg, w.log[v].payload, pg.context, v)
  OBVIOUS
<1>2. [pg EXCEPT !.payload = w.log[v].payload, !.token = v] = x
  <2>1. pg = Whole(pg)
    BY DEF Fields
  <2> QED
    BY ONLY <1>1, <2>1 DEF Whole, Rebased
<1>3. /\ Good(x, w) /\ Passes(pg, x, w) /\ x.at = pg.at /\ x.pending = pg.pending
      /\ x.obsolete = pg.obsolete /\ x.mut = pg.mut
  BY <1>1, RebaseGood DEF MayAdopt, Fields
<1>4. x.mut # NONE
  BY <1>3 DEF Identified, Dirty
<1>5. adoptContextRevision(pg, v) = persist(x)
  BY <1>2 DEF adoptContextRevision
<1> QED
  BY <1>3, <1>4, <1>5, PersistGood, PassesOn

LEMMA ReconcileGood ==
  ASSUME NEW w, w.log = log, NEW pg, Sane(w), Good(pg, w), NEW v \in DOMAIN w.log
  PROVE  LET x == reconcile(pg, v)
         IN  /\ Good(x, w) /\ Passes(pg, x, w) /\ x.at = pg.at /\ x.pending = pg.pending
             /\ x.obsolete = pg.obsolete
             /\ Scheduled(pg) => Scheduled(x)
<1> USE DEF Good, Fair
<1> v \in Nat /\ v <= Len(w.log)
  BY DEF Sane
<1>1. CASE v = pg.token
  BY <1>1 DEF reconcile, Passes, PassesSnap
<1>2. CASE v # pg.token /\ (active(pg) \/ pg.pending # NONE)
  <2>1. PICK d \in Nat : d = (IF v >= pg.deferred THEN v ELSE pg.deferred)
    BY DEF Fields
  <2>2. PICK x : x = [pg EXCEPT !.deferred = d]
    OBVIOUS
  <2>3. reconcile(pg, v) = x
    BY <1>2, <2>1, <2>2 DEF reconcile
  <2>4. d <= Len(w.log)
    BY <2>1 DEF Counts
  <2> QED
    BY <2>2, <2>3, <2>4, DeferGood
<1>3. CASE v # pg.token /\ ~active(pg) /\ pg.pending = NONE
  <2>1. CASE v < pg.token
    BY <1>3, <2>1 DEF reconcile, Passes, PassesSnap
  <2>2. CASE ~(v < pg.token) /\ (pg.paused \/ pg.seq # pg.saved)
    BY <1>3, <2>2, EnterGood DEF reconcile, Scheduled, Held
  <2>3. CASE ~(v < pg.token) /\ ~(pg.paused \/ pg.seq # pg.saved)
    <3>1. CASE pg.ctx # pg.savedCtx /\ MayAdopt(pg, v)
      <4>1. reconcile(pg, v) = schedule(adoptContextRevision(pg, v))
        BY <1>3, <2>3, <3>1 DEF reconcile
      <4> QED
        BY <3>1, <4>1, AdoptGood, ScheduleGood, ScheduleFields, PassesOn DEF Content
    <3>2. CASE pg.ctx # pg.savedCtx /\ ~MayAdopt(pg, v)
      BY <1>3, <2>3, <3>2, EnterGood DEF reconcile, Scheduled, Held
    <3>3. CASE pg.ctx = pg.savedCtx
      <4>1. PICK c \in Nat : c = w.log[v].context
        <5>1. w.log[v] \in Versions
          BY DEF Sane
        <5> QED
          BY <5>1 DEF Versions
      <4>2. PICK x : x = Rebased(pg, w.log[v].payload, c, v)
        OBVIOUS
      <4>3. reconcile(pg, v) = x
        BY <1>3, <2>3, <3>3, <4>1, <4>2 DEF reconcile, Rebased
      <4>4. /\ Good(x, w) /\ Passes(pg, x, w) /\ x.at = pg.at /\ x.pending = pg.pending
            /\ x.obsolete = pg.obsolete /\ Dirty(x) = Dirty(pg)
        BY <1>3, <2>3, <3>3, <4>1, <4>2, RebaseGood
      <4>5. ~Dirty(x) /\ x.pending = NONE
        BY <1>3, <2>3, <3>3, <4>4 DEF Dirty
      <4> QED
        BY <4>3, <4>4, <4>5 DEF Scheduled
    <3> QED
      BY <3>1, <3>2, <3>3
  <2> QED
    BY <2>1, <2>2, <2>3
<1> QED
  BY <1>1, <1>2, <1>3

LEMMA FlushGood ==
  ASSUME NEW w, NEW pg, Good(pg, w)
  PROVE  Good(flush(pg), w) /\ Scheduled(flush(pg)) /\ Passes(pg, flush(pg), w)
<1> USE DEF Good, Fair
<1>1. CASE active(pg) \/ Held(pg) \/ (pg.pending = NONE /\ ~Dirty(pg))
  BY <1>1 DEF flush, Scheduled, active, Passes, PassesSnap
<1>2. CASE ~(active(pg) \/ Held(pg) \/ (pg.pending = NONE /\ ~Dirty(pg)))
  <2>1. PICK x : x = [pg EXCEPT !.at = "health"]
    OBVIOUS
  <2>2. x = flush(pg)
    BY <1>2, <2>1 DEF flush
  <2>3. pg = Whole(pg)
    BY DEF Fields
  <2>4. x = Whole(x) /\ x.at = "health"
        /\ x.payload = pg.payload /\ x.context = pg.context /\ x.token = pg.token
        /\ x.seq = pg.seq /\ x.saved = pg.saved /\ x.browser = pg.browser
        /\ x.ctx = pg.ctx /\ x.savedCtx = pg.savedCtx /\ x.mut = pg.mut
        /\ x.pending = pg.pending /\ x.deferred = pg.deferred /\ x.adopted = pg.adopted
        /\ x.paused = pg.paused /\ x.invalid = pg.invalid /\ x.conflict = pg.conflict
        /\ x.timer = pg.timer /\ x.sent = pg.sent /\ x.answer = pg.answer
        /\ x.obsolete = pg.obsolete /\ x.choice = pg.choice /\ x.snap = pg.snap
        /\ x.heard = pg.heard
    BY ONLY <2>1, <2>3, Zenon DEF Whole
  <2>5. Fields(x)
    BY <2>4 DEF Fields, Places
  <2>6. Counts(x, w) /\ Talks(x, w) /\ Identified(x)
    BY <1>2, <2>4 DEF Counts, Talks, Identified, active, Dirty
  <2>7. Waits(x, w) /\ Adopts(x, w) /\ Chooses(x, w) /\ Stores(x, w)
    BY <2>4 DEF Waits, Remembers, Adopts, Holds, Chooses, Stores
  <2>8. Shows(x, w) /\ Covers(x, w)
    BY <1>2, <2>4 DEF Choosing, Shows, Covers, hasUnsavedContent, Held
  <2>9. Based(x.payload, x.token, w) /\ (x.mut # NONE => Named(x.mut, x.payload, w))
    BY <2>4
  <2> QED
    BY <2>2, <2>4, <2>5, <2>6, <2>7, <2>8, <2>9 DEF Passes, PassesSnap, Scheduled
<1> QED
  BY <1>1, <1>2

No == FALSE
\* The page when the request is over.
Idle(pg) == [pg EXCEPT !.at = "idle", !.sent = NONE, !.answer = NONE, !.obsolete = FALSE]

LEMMA IdleFields ==
  ASSUME NEW pg, pg = Whole(pg), NEW x, x = Idle(pg)
  PROVE  /\ x = Whole(x) /\ x.at = "idle" /\ x.sent = NONE /\ x.answer = NONE
         /\ ~x.obsolete /\ x.obsolete = No
         /\ x.payload = pg.payload /\ x.context = pg.context /\ x.token = pg.token
         /\ x.seq = pg.seq /\ x.saved = pg.saved /\ x.browser = pg.browser
         /\ x.ctx = pg.ctx /\ x.savedCtx = pg.savedCtx /\ x.mut = pg.mut
         /\ x.pending = pg.pending /\ x.deferred = pg.deferred /\ x.adopted = pg.adopted
         /\ x.paused = pg.paused /\ x.invalid = pg.invalid /\ x.conflict = pg.conflict
         /\ x.timer = pg.timer /\ x.choice = pg.choice /\ x.snap = pg.snap
         /\ x.heard = pg.heard
<1>1. PICK f : f = No /\ ~f /\ x = [pg EXCEPT !.at = "idle", !.sent = NONE, !.answer = NONE,
                                           !.obsolete = f]
  BY DEF Idle, No
<1>2. /\ x = Whole(x) /\ x.at = "idle" /\ x.sent = NONE /\ x.answer = NONE
      /\ x.obsolete = f
      /\ x.payload = pg.payload /\ x.context = pg.context /\ x.token = pg.token
      /\ x.seq = pg.seq /\ x.saved = pg.saved /\ x.browser = pg.browser
      /\ x.ctx = pg.ctx /\ x.savedCtx = pg.savedCtx /\ x.mut = pg.mut
      /\ x.pending = pg.pending /\ x.deferred = pg.deferred /\ x.adopted = pg.adopted
      /\ x.paused = pg.paused /\ x.invalid = pg.invalid /\ x.conflict = pg.conflict
      /\ x.timer = pg.timer /\ x.choice = pg.choice /\ x.snap = pg.snap
      /\ x.heard = pg.heard
  BY ONLY <1>1, pg = Whole(pg), Zenon DEF Whole
<1> QED
  BY <1>1, <1>2

LEMMA IdleGood ==
  ASSUME NEW w, NEW pg, Good(pg, w)
  PROVE  Good(Idle(pg), w) /\ Passes(pg, Idle(pg), w)
<1> USE DEF Good, Fair
<1>1. PICK x : x = Idle(pg)
  OBVIOUS
<1>2. /\ x = Whole(x) /\ x.at = "idle" /\ x.sent = NONE /\ x.answer = NONE /\ ~x.obsolete
      /\ x.payload = pg.payload /\ x.context = pg.context /\ x.token = pg.token
      /\ x.seq = pg.seq /\ x.saved = pg.saved /\ x.browser = pg.browser
      /\ x.ctx = pg.ctx /\ x.savedCtx = pg.savedCtx /\ x.mut = pg.mut
      /\ x.pending = pg.pending /\ x.deferred = pg.deferred /\ x.adopted = pg.adopted
      /\ x.paused = pg.paused /\ x.invalid = pg.invalid /\ x.conflict = pg.conflict
      /\ x.timer = pg.timer /\ x.choice = pg.choice /\ x.snap = pg.snap
      /\ x.heard = pg.heard
  BY <1>1, IdleFields DEF Fields
<1>3. Fields(x)
  BY <1>2 DEF Fields, Places
<1>4. Counts(x, w) /\ Talks(x, w) /\ Identified(x)
  BY <1>2, NoneAssumption DEF Counts, Talks, Identified, active, Dirty
<1>5. Waits(x, w) /\ Adopts(x, w) /\ Chooses(x, w) /\ Stores(x, w)
  BY <1>2 DEF Waits, Remembers, Adopts, Holds, Chooses, Stores
<1>6. (Choosing(x) \/ Shows(x, w)) /\ Covers(x, w)
  BY <1>2 DEF Choosing, Shows, Covers, hasUnsavedContent
<1>7. Based(x.payload, x.token, w) /\ (x.mut # NONE => Named(x.mut, x.payload, w))
  BY <1>2
<1> QED
  BY <1>1, <1>2, <1>3, <1>4, <1>5, <1>6, <1>7 DEF Passes, PassesSnap

\* The finally block leaves the page idle or on its way to the next request.
LEMMA FinishedGood ==
  ASSUME NEW w, w.log = log, Sane(w), NEW pg, pg = Whole(pg), Good(Idle(pg), w),
         NEW acknowledged,
         acknowledged \/ pg.obsolete => pg.pending = NONE,
         ~acknowledged /\ ~pg.obsolete => Scheduled(Idle(pg))
  PROVE  LET x == Finished(pg, acknowledged)
         IN  Good(x, w) /\ Scheduled(x) /\ Passes(Idle(pg), x, w)
<1> USE DEF Good, Fair
<1>1. PICK x : x = Idle(pg)
  OBVIOUS
<1>2. x.deferred = pg.deferred /\ x.pending = pg.pending /\ x.at = "idle"
  BY <1>1, IdleFields
<1> PICK y : y = IF acknowledged /\ pg.deferred # 0
                   THEN reconcile([x EXCEPT !.deferred = 0], pg.deferred) ELSE x
  OBVIOUS
<1>3. Good(y, w) /\ Passes(x, y, w) /\ y.at = "idle" /\ y.pending = pg.pending
  <2>1. CASE acknowledged /\ pg.deferred # 0
    <3>1. PICK z : z = [x EXCEPT !.deferred = 0]
      OBVIOUS
    <3>2. pg.deferred \in DOMAIN w.log
      BY <1>1, <1>2, <2>1 DEF Fields, Counts, Sane
    <3>3. Good(z, w) /\ Passes(x, z, w) /\ z.at = x.at /\ z.pending = x.pending
      BY <1>1, <3>1, DeferGood DEF Sane
    <3>4. y = reconcile(z, pg.deferred)
      BY <2>1, <3>1
    <3> QED
      BY <1>2, <3>2, <3>3, <3>4, ReconcileGood, PassesOn
  <2>2. CASE ~(acknowledged /\ pg.deferred # 0)
    BY <1>1, <1>2, <2>2 DEF Passes, PassesSnap
  <2> QED
    BY <2>1, <2>2
<1> PICK r : r = IF (acknowledged \/ pg.obsolete) /\ ~y.paused /\ Dirty(y) THEN flush(y) ELSE y
  OBVIOUS
<1>4. r = Finished(pg, acknowledged)
  BY <1>1 DEF Finished, Idle
<1>5. Good(r, w) /\ Scheduled(r) /\ Passes(y, r, w)
  <2>1. CASE (acknowledged \/ pg.obsolete) /\ ~y.paused /\ Dirty(y)
    BY <1>3, <2>1, FlushGood
  <2>2. CASE (acknowledged \/ pg.obsolete) /\ ~(~y.paused /\ Dirty(y))
    BY <1>3, <2>2 DEF Scheduled, Held, Passes, PassesSnap
  <2>3. CASE ~acknowledged /\ ~pg.obsolete
    BY <1>1, <1>3, <2>3 DEF Passes, PassesSnap
  <2> QED
    BY <2>1, <2>2, <2>3
<1> QED
  BY <1>1, <1>3, <1>4, <1>5, PassesOn

\* Nothing definite was said: what waits is tried again.
LEMMA FailedGood ==
  ASSUME NEW w, w.log = log, Sane(w), NEW pg, Good(pg, w), active(pg)
  PROVE  Good(Failed(pg), w) /\ Scheduled(Failed(pg)) /\ Passes(pg, Failed(pg), w)
<1> USE DEF Good, Fair
<1>1. CASE pg.obsolete
  <2>1. Good(Idle(pg), w) /\ Passes(pg, Idle(pg), w) /\ pg = Whole(pg) /\ pg.pending = NONE
    <3>1. Good(Idle(pg), w) /\ Passes(pg, Idle(pg), w)
      BY IdleGood
    <3>2. pg = Whole(pg) /\ pg.pending = NONE
      BY <1>1 DEF Talks, Fields
    <3> QED
      BY <3>1, <3>2
  <2>2. LET x == Finished(pg, FALSE)
        IN  Good(x, w) /\ Scheduled(x) /\ Passes(Idle(pg), x, w)
    BY <1>1, <2>1, FinishedGood
  <2> QED
    BY <1>1, <2>1, <2>2, PassesOn DEF Failed
<1>2. CASE ~pg.obsolete
  <2>1. PICK f : f = FALSE
    OBVIOUS
  <2>2. PICK x : x = [pg EXCEPT !.invalid = f, !.paused = f, !.conflict = f]
    OBVIOUS
  <2>3. pg = Whole(pg)
    BY DEF Fields
  <2>4. x = Whole(x) /\ x.invalid = f /\ x.paused = f /\ x.conflict = f
        /\ x.at = pg.at /\ x.payload = pg.payload /\ x.context = pg.context
        /\ x.token = pg.token /\ x.seq = pg.seq /\ x.saved = pg.saved
        /\ x.browser = pg.browser /\ x.ctx = pg.ctx /\ x.savedCtx = pg.savedCtx
        /\ x.mut = pg.mut /\ x.pending = pg.pending /\ x.deferred = pg.deferred
        /\ x.adopted = pg.adopted /\ x.timer = pg.timer /\ x.sent = pg.sent
        /\ x.answer = pg.answer /\ x.obsolete = pg.obsolete /\ x.choice = pg.choice
        /\ x.snap = pg.snap /\ x.heard = pg.heard
    BY ONLY <2>2, <2>3, Zenon DEF Whole
  <2>5. Fields(x) /\ Content(x, pg)
    BY <2>4 DEF Fields, Content
  <2>6. Good(x, w) /\ Passes(pg, x, w)
    BY <2>5, FlagsGood DEF Choosing, active
  <2>7. PICK y : y = schedule(x)
    OBVIOUS
  <2>8. /\ Good(y, w) /\ Passes(x, y, w) /\ Content(y, x) /\ y.paused = f
        /\ ~Held(x) /\ (x.pending # NONE \/ Dirty(x)) => y.timer
    BY <2>4, <2>5, <2>6, <2>7, ScheduleGood, ScheduleFields
  <2>9. PICK z : z = Idle(y)
    OBVIOUS
  <2>10. Good(z, w) /\ Passes(y, z, w) /\ y = Whole(y)
    BY <2>8, <2>9, IdleGood DEF Fields
  <2>11. Scheduled(z)
    <3>1. /\ z.timer = y.timer /\ z.pending = y.pending /\ z.choice = y.choice /\ z.paused = y.paused
          /\ z.seq = y.seq /\ z.saved = y.saved /\ z.ctx = y.ctx /\ z.savedCtx = y.savedCtx
      BY <2>9, <2>10, IdleFields
    <3> QED
      BY <2>4, <2>8, <3>1 DEF Scheduled, Held, Dirty, Content
  <2>12. ~y.obsolete
    BY <1>2, <2>5, <2>8 DEF Content
  <2>13. LET r == Finished(y, FALSE)
         IN  Good(r, w) /\ Scheduled(r) /\ Passes(z, r, w)
    BY <2>9, <2>10, <2>11, <2>12, FinishedGood
  <2>14. Failed(pg) = Finished(y, FALSE)
    BY <1>2, <2>1, <2>2, <2>7 DEF Failed
  <2> QED
    BY <2>6, <2>8, <2>10, <2>13, <2>14, PassesOn
<1> QED
  BY <1>1, <1>2

\* The server said no.
LEMMA RefusedGood ==
  ASSUME NEW w, w.log = log, Sane(w), NEW pg, Good(pg, w), active(pg), ~pg.obsolete
  PROVE  Good(Refused(pg), w) /\ Scheduled(Refused(pg)) /\ Passes(pg, Refused(pg), w)
<1> USE DEF Good, Fair
<1>1. PICK f : f = FALSE
  OBVIOUS
<1>2. PICK x : x = [pg EXCEPT !.invalid = f]
  OBVIOUS
<1>3. pg = Whole(pg)
  BY DEF Fields
<1>4. x = Whole(x) /\ x.invalid = f
      /\ x.at = pg.at /\ x.payload = pg.payload /\ x.context = pg.context
      /\ x.token = pg.token /\ x.seq = pg.seq /\ x.saved = pg.saved
      /\ x.browser = pg.browser /\ x.ctx = pg.ctx /\ x.savedCtx = pg.savedCtx
      /\ x.mut = pg.mut /\ x.pending = pg.pending /\ x.deferred = pg.deferred
      /\ x.adopted = pg.adopted /\ x.paused = pg.paused /\ x.conflict = pg.conflict
      /\ x.timer = pg.timer /\ x.sent = pg.sent /\ x.answer = pg.answer
      /\ x.obsolete = pg.obsolete /\ x.choice = pg.choice /\ x.snap = pg.snap
      /\ x.heard = pg.heard
  BY ONLY <1>2, <1>3, Zenon DEF Whole
<1>5. Fields(x) /\ Content(x, pg)
  BY <1>4 DEF Fields, Content
<1>6. Good(x, w) /\ Passes(pg, x, w)
  BY <1>5, FlagsGood DEF Choosing, active
<1>7. PICK y : y = enterConflict(x)
  OBVIOUS
<1>8. Good(y, w) /\ Passes(x, y, w) /\ y.paused /\ ~y.obsolete
  BY <1>4, <1>6, <1>7, EnterGood
<1>9. Good(Idle(y), w) /\ Passes(y, Idle(y), w) /\ y = Whole(y)
  BY <1>8, IdleGood DEF Fields
<1>10. Scheduled(Idle(y))
  BY <1>8, <1>9, IdleFields DEF Scheduled, Held
<1>11. LET r == Finished(y, FALSE)
       IN  Good(r, w) /\ Scheduled(r) /\ Passes(Idle(y), r, w)
  BY <1>8, <1>9, <1>10, FinishedGood
<1>12. Refused(pg) = Finished(y, FALSE)
  BY <1>1, <1>2, <1>7 DEF Refused
<1> QED
  BY <1>6, <1>8, <1>9, <1>11, <1>12, PassesOn

\* A lost call: the refusal before a refresh stands, anything else is tried again.
LEMMA CallFailedGood ==
  ASSUME NEW w, w.log = log, Sane(w), NEW pg, Good(pg, w), active(pg)
  PROVE  Good(CallFailed(pg), w) /\ Scheduled(CallFailed(pg)) /\ Passes(pg, CallFailed(pg), w)
<1>1. CASE pg.at = "refresh" /\ ~pg.obsolete
  BY <1>1, RefusedGood DEF CallFailed
<1>2. CASE ~(pg.at = "refresh" /\ ~pg.obsolete)
  BY <1>2, FailedGood DEF CallFailed
<1> QED
  BY <1>1, <1>2

\* The content was refused as invalid: it is not sent again.
Rejected(pg) == [pg EXCEPT !.pending = NONE, !.paused = TRUE, !.invalid = TRUE, !.conflict = FALSE]

LEMMA RejectedGood ==
  ASSUME NEW w, w.log = log, Sane(w), NEW pg, Good(pg, w), pg.at = "sent"
  PROVE  LET x == Finished(Rejected(pg), FALSE)
         IN  Good(x, w) /\ Scheduled(x) /\ Passes(pg, x, w)
<1> USE DEF Good, Fair
<1>1. PICK f, t : f = FALSE /\ t = TRUE
  OBVIOUS
<1>2. PICK x : x = [pg EXCEPT !.pending = NONE, !.paused = t, !.invalid = t, !.conflict = f]
  OBVIOUS
<1>3. x = Rejected(pg) /\ pg = Whole(pg)
  BY <1>1, <1>2 DEF Rejected, Fields
<1>4. x = Whole(x) /\ x.pending = NONE /\ x.paused = t /\ x.invalid = t /\ x.conflict = f
      /\ x.at = pg.at /\ x.payload = pg.payload /\ x.context = pg.context
      /\ x.token = pg.token /\ x.seq = pg.seq /\ x.saved = pg.saved
      /\ x.browser = pg.browser /\ x.ctx = pg.ctx /\ x.savedCtx = pg.savedCtx
      /\ x.mut = pg.mut /\ x.deferred = pg.deferred /\ x.adopted = pg.adopted
      /\ x.timer = pg.timer /\ x.sent = pg.sent /\ x.answer = pg.answer
      /\ x.obsolete = pg.obsolete /\ x.choice = pg.choice /\ x.snap = pg.snap
      /\ x.heard = pg.heard
  BY ONLY <1>2, <1>3, Zenon DEF Whole
<1>5. PICK y : y = Idle(x)
  OBVIOUS
<1>6. /\ y = Whole(y) /\ y.at = "idle" /\ y.sent = NONE /\ y.answer = NONE /\ ~y.obsolete
      /\ y.payload = x.payload /\ y.context = x.context /\ y.token = x.token
      /\ y.seq = x.seq /\ y.saved = x.saved /\ y.browser = x.browser /\ y.ctx = x.ctx
      /\ y.savedCtx = x.savedCtx /\ y.mut = x.mut /\ y.pending = x.pending
      /\ y.deferred = x.deferred /\ y.adopted = x.adopted /\ y.paused = x.paused
      /\ y.invalid = x.invalid /\ y.conflict = x.conflict /\ y.timer = x.timer
      /\ y.choice = x.choice /\ y.snap = x.snap /\ y.heard = x.heard
  BY <1>4, <1>5, IdleFields
<1>7. Fields(y)
  BY <1>4, <1>6 DEF Fields, Places
<1>8. Counts(y, w) /\ Talks(y, w) /\ Identified(y)
  BY <1>4, <1>6, NoneAssumption DEF Counts, Talks, Identified, active, Dirty
<1>9. Waits(y, w) /\ Adopts(y, w) /\ Chooses(y, w) /\ Stores(y, w)
  BY <1>4, <1>6 DEF Waits, Adopts, Holds, Chooses, Stores
<1>10. Shows(y, w) /\ Covers(y, w)
  BY <1>4, <1>6 DEF Choosing, Shows, Covers, hasUnsavedContent
<1>11. Based(y.payload, y.token, w) /\ (y.mut # NONE => Named(y.mut, y.payload, w))
  BY <1>4, <1>6
<1>12. Good(y, w) /\ Scheduled(y) /\ Passes(pg, y, w)
  BY <1>1, <1>4, <1>6, <1>7, <1>8, <1>9, <1>10, <1>11 DEF Passes, PassesSnap, Scheduled, Held
<1>13. LET r == Finished(x, FALSE)
       IN  Good(r, w) /\ Scheduled(r) /\ Passes(y, r, w)
  BY <1>4, <1>5, <1>12, FinishedGood
<1> QED
  BY <1>3, <1>12, <1>13, PassesOn

\* The version that is there now is asked for.
Asking(pg) == [pg EXCEPT !.at = "refresh", !.pending = NONE, !.sent = NONE, !.answer = NONE]

LEMMA AskingGood ==
  ASSUME NEW w, NEW pg, Good(pg, w), pg.at = "sent", ~pg.obsolete, pg.sent.change = "context"
  PROVE  Good(Asking(pg), w) /\ Scheduled(Asking(pg)) /\ Passes(pg, Asking(pg), w)
<1> USE DEF Good, Fair
<1>1. PICK x : x = Asking(pg)
  OBVIOUS
<1>2. pg = Whole(pg) /\ x = [pg EXCEPT !.at = "refresh", !.pending = NONE, !.sent = NONE,
                                       !.answer = NONE]
  BY <1>1 DEF Fields, Asking
<1>3. x = Whole(x) /\ x.at = "refresh" /\ x.pending = NONE /\ x.sent = NONE /\ x.answer = NONE
      /\ x.payload = pg.payload /\ x.context = pg.context /\ x.token = pg.token
      /\ x.seq = pg.seq /\ x.saved = pg.saved /\ x.browser = pg.browser
      /\ x.ctx = pg.ctx /\ x.savedCtx = pg.savedCtx /\ x.mut = pg.mut
      /\ x.deferred = pg.deferred /\ x.adopted = pg.adopted /\ x.paused = pg.paused
      /\ x.invalid = pg.invalid /\ x.conflict = pg.conflict /\ x.timer = pg.timer
      /\ x.obsolete = pg.obsolete /\ x.choice = pg.choice /\ x.snap = pg.snap
      /\ x.heard = pg.heard
  BY ONLY <1>2, Zenon DEF Whole
<1>4. Fields(x)
  BY <1>3 DEF Fields, Places
<1>5. x.savedCtx < x.ctx
  <2>1. /\ pg.pending \in Waiting /\ Remembers(pg, pg.pending, w)
        /\ pg.pending.req.change = "context"
    BY DEF Talks, Waits, Fields
  <2>2. pg.pending.ctx \in Nat /\ pg.ctx \in Nat /\ pg.savedCtx \in Nat
    BY <2>1 DEF Waiting, Fields
  <2> QED
    BY <1>3, <2>1, <2>2 DEF Remembers
<1>6. Counts(x, w) /\ Talks(x, w) /\ Identified(x)
  BY <1>3, <1>5, NoneAssumption DEF Counts, Talks, Identified, active, Dirty
<1>7. Waits(x, w) /\ Adopts(x, w) /\ Chooses(x, w) /\ Stores(x, w)
  BY <1>3 DEF Waits, Adopts, Holds, Chooses, Stores
<1>8. Shows(x, w) /\ Covers(x, w)
  BY <1>3 DEF Choosing, Shows, Covers, hasUnsavedContent
<1>9. Based(x.payload, x.token, w) /\ (x.mut # NONE => Named(x.mut, x.payload, w))
  BY <1>3
<1> QED
  BY <1>1, <1>3, <1>4, <1>6, <1>7, <1>8, <1>9 DEF Passes, PassesSnap, Scheduled

\* A new request says what the page holds, and what it expects.
LEMMA RequestSound ==
  ASSUME NEW w, Sane(w), NEW pg, Good(pg, w), NEW p \in Nat, pg.at # "idle"
  PROVE  LET r == Request(p, pg)
         IN  /\ r \in Requests /\ Sound(r, w) /\ r.expected = pg.token
             /\ r.change = "content" => r.payload = pg.payload
             /\ r.change = "content" <=> pg.seq # pg.saved
<1> USE DEF Good, Fair
<1>1. PICK c : c = IF pg.seq # pg.saved \/ pg.token = 0 THEN "content" ELSE "context"
  OBVIOUS
<1>2. PICK n : n = IF c = "content" THEN pg.payload ELSE NONE
  OBVIOUS
<1>3. PICK r : r = [page |-> p, expected |-> pg.token, change |-> c, payload |-> n,
                    context |-> pg.context]
  OBVIOUS
<1>4. r = Request(p, pg)
  BY <1>1, <1>2, <1>3 DEF Request
<1>5. r \in Requests
  BY <1>1, <1>2, <1>3 DEF Requests, Fields
<1>6. pg.token # 0 \/ pg.seq # pg.saved
  BY DEF Choosing, Shows
<1>7. pg.payload \in 0..w.edits /\ pg.token <= Len(w.log)
  BY DEF Fields, Counts, Sane
<1>8. r.expected = pg.token /\ r.change = c /\ r.payload = n
  BY <1>3
<1>9. Sound(r, w)
  BY <1>1, <1>2, <1>5, <1>6, <1>7, <1>8 DEF Sound
<1> QED
  BY <1>1, <1>2, <1>4, <1>5, <1>6, <1>8, <1>9

LEMMA DispatchedGood ==
  ASSUME NEW w, Sane(w), NEW pg, Good(pg, w), NEW p \in Nat, pg.at = "health", ~pg.obsolete
  PROVE  LET x == Dispatched(p, pg)
         IN  Good(x, w) /\ Scheduled(x) /\ Passes(pg, x, w)
<1> USE DEF Good, Fair
<1>1. PICK r : r = Request(p, pg)
  OBVIOUS
<1>2. /\ r \in Requests /\ Sound(r, w) /\ r.expected = pg.token
      /\ r.change = "content" => r.payload = pg.payload
      /\ r.change = "content" <=> pg.seq # pg.saved
  BY <1>1, RequestSound
<1>3. PICK n : n = IF pg.pending # NONE THEN pg.pending ELSE [req |-> r, seq |-> pg.seq, ctx |-> pg.ctx]
  OBVIOUS
<1>4. PICK x : x = [pg EXCEPT !.at = "sent", !.pending = n, !.sent = n.req]
  OBVIOUS
<1>5. x = Dispatched(p, pg)
  BY <1>1, <1>3, <1>4 DEF Dispatched
<1>6. pg = Whole(pg)
  BY DEF Fields
<1>7. x = Whole(x) /\ x.at = "sent" /\ x.pending = n /\ x.sent = n.req
      /\ x.payload = pg.payload /\ x.context = pg.context /\ x.token = pg.token
      /\ x.seq = pg.seq /\ x.saved = pg.saved /\ x.browser = pg.browser
      /\ x.ctx = pg.ctx /\ x.savedCtx = pg.savedCtx /\ x.mut = pg.mut
      /\ x.deferred = pg.deferred /\ x.adopted = pg.adopted /\ x.paused = pg.paused
      /\ x.invalid = pg.invalid /\ x.conflict = pg.conflict /\ x.timer = pg.timer
      /\ x.answer = pg.answer /\ x.obsolete = pg.obsolete /\ x.choice = pg.choice
      /\ x.snap = pg.snap /\ x.heard = pg.heard
  BY ONLY <1>4, <1>6, Zenon DEF Whole
<1>8. n \in Waiting /\ n # NONE /\ n.req \in Requests /\ n.req # NONE
  <2>1. n \in Waiting
    BY <1>2, <1>3 DEF Waiting, Fields
  <2> QED
    BY <2>1, NoneAssumption DEF Waiting
<1>9. Remembers(pg, n, w)
  <2>1. CASE pg.pending # NONE
    BY <1>3, <2>1 DEF Waits
  <2>2. CASE pg.pending = NONE
    <3>1. n.req = r /\ n.seq = pg.seq /\ n.ctx = pg.ctx
      BY <1>3, <2>2
    <3>2. Dirty(pg)
      BY <2>2 DEF Talks
    <3>3. r.change \in {"content", "context"}
      BY <1>2 DEF Requests
    <3> QED
      BY <1>2, <3>1, <3>2, <3>3 DEF Remembers, Dirty, Counts, Fields, Descends
  <2> QED
    BY <2>1, <2>2
<1>10. Fields(x)
  BY <1>7, <1>8 DEF Fields, Places
<1>11. Waits(x, w)
  BY <1>7, <1>9 DEF Waits, Remembers
<1>12. Sound(n.req, w)
  BY <1>9 DEF Remembers
<1>13. Counts(x, w) /\ Talks(x, w)
  <2>1. pg.answer = 200 => \E v \in DOMAIN w.log : w.log[v].by = n.req
    BY NoneAssumption DEF Talks
  <2> QED
    BY <1>7, <1>8, <1>12, <2>1 DEF Counts, Talks, active, Dirty
<1>14. Identified(x)
  BY <1>7 DEF Identified, Talks, Dirty
<1>15. Adopts(x, w)
  BY <1>2, <1>3, <1>7 DEF Adopts, Holds
<1>16. Chooses(x, w) /\ Stores(x, w) /\ Shows(x, w) /\ Covers(x, w)
  BY <1>7 DEF Chooses, Stores, Choosing, Shows, Covers, hasUnsavedContent
<1>17. Based(x.payload, x.token, w) /\ (x.mut # NONE => Named(x.mut, x.payload, w))
  BY <1>7
<1> QED
  BY <1>5, <1>7, <1>10, <1>11, <1>13, <1>14, <1>15, <1>16, <1>17
  DEF Passes, PassesSnap, Scheduled

LEMMA SnapDropped ==
  ASSUME NEW w, Sane(w), NEW pg, Good(pg, w),
         pg.payload \in w.safe \/ pg.snap = NONE \/ pg.snap.payload \in w.safe,
         NEW x, x = [pg EXCEPT !.snap = NONE]
  PROVE  /\ Good(x, w) /\ Passes(pg, x, w) /\ x.pending = pg.pending
         /\ Scheduled(pg) => Scheduled(x)
<1> USE DEF Good, Fair
<1>1. pg = Whole(pg)
  BY DEF Fields
<1>2. x = Whole(x) /\ x.snap = NONE
      /\ x.at = pg.at /\ x.payload = pg.payload /\ x.context = pg.context
      /\ x.token = pg.token /\ x.seq = pg.seq /\ x.saved = pg.saved
      /\ x.browser = pg.browser /\ x.ctx = pg.ctx /\ x.savedCtx = pg.savedCtx
      /\ x.mut = pg.mut /\ x.pending = pg.pending /\ x.deferred = pg.deferred
      /\ x.adopted = pg.adopted /\ x.paused = pg.paused /\ x.invalid = pg.invalid
      /\ x.conflict = pg.conflict /\ x.timer = pg.timer /\ x.sent = pg.sent
      /\ x.answer = pg.answer /\ x.obsolete = pg.obsolete /\ x.choice = pg.choice
      /\ x.heard = pg.heard
  BY ONLY <1>1, x = [pg EXCEPT !.snap = NONE], Zenon DEF Whole
<1>3. Fields(x)
  BY <1>2 DEF Fields
<1>4. Counts(x, w) /\ Talks(x, w) /\ Identified(x)
  BY <1>2 DEF Counts, Talks, Identified, active, Dirty
<1>5. Waits(x, w) /\ Adopts(x, w) /\ Chooses(x, w) /\ Stores(x, w)
  BY <1>2 DEF Waits, Remembers, Adopts, Holds, Chooses, Stores
<1>6. Choosing(x) \/ Shows(x, w)
  BY <1>2 DEF Choosing, Shows
<1>10. Covers(x, w)
  <2>1. w.safe \subseteq w.stowed
    BY DEF Sane
  <2>2. pg.seq # pg.saved /\ pg.browser # pg.seq <=> x.seq # x.saved /\ x.browser # x.seq
    BY <1>2
  <2>3. Covers(pg, w)
    OBVIOUS
  <2> QED
    BY ONLY <1>2, <2>1, <2>2, <2>3,
            pg.payload \in w.safe \/ pg.snap = NONE \/ pg.snap.payload \in w.safe
    DEF Covers, hasUnsavedContent
<1>7. Based(x.payload, x.token, w) /\ (x.mut # NONE => Named(x.mut, x.payload, w))
  BY <1>2
<1>8. Scheduled(pg) => Scheduled(x)
  BY <1>2 DEF Scheduled, Dirty, Held
<1>9. Passes(pg, x, w)
  BY <1>2 DEF Passes, PassesSnap, Covers
<1> QED
  BY <1>2, <1>3, <1>4, <1>5, <1>6, <1>7, <1>8, <1>9, <1>10

\* An acknowledgement, before the storage is brought up to date.
Settled(pg) ==
  [pg EXCEPT !.pending = NONE, !.savedCtx = pg.pending.ctx,
             !.saved = IF pg.sent.change = "content" THEN pg.pending.seq ELSE @]
Marks(pg, conflict, adopted) == [pg EXCEPT !.conflict = conflict, !.adopted = adopted]

LEMMA MergedGood ==
  ASSUME NEW w, w.log = log, Sane(w), NEW pg, Good(pg, w),
         pg.at = "sent", pg.answer = 200, ~pg.obsolete,
         NEW v \in Receipt(pg.sent),
         NEW m, m = Merged(Settled(pg), pg.sent, v),
         NEW c, NEW a \in SUBSET pg.adopted, NEW x, x = Idle(Marks(m, c, a))
  PROVE  /\ Good(x, w) /\ Passes(pg, x, w)
         /\ x.seq = x.saved => x.payload \in w.safe
         /\ pg.sent.change = "content" => \A d \in pg.adopted : d[2][1] \in w.safe
         /\ m = Whole(m) /\ m.mut # NONE /\ m.pending = NONE /\ m.paused = pg.paused
         /\ x.payload = m.payload /\ x.context = m.context /\ x.token = m.token
         /\ x.seq = m.seq /\ x.saved = m.saved /\ x.browser = m.browser /\ x.ctx = m.ctx
         /\ x.savedCtx = m.savedCtx /\ x.mut = m.mut /\ x.pending = m.pending
         /\ x.deferred = m.deferred /\ x.paused = m.paused /\ x.invalid = m.invalid
         /\ x.timer = m.timer /\ x.choice = m.choice /\ x.snap = m.snap
         /\ x.heard = m.heard
         /\ m.snap = pg.snap /\ m.adopted = pg.adopted
<1> USE DEF Good, Fair
<1> PICK r, n : r = pg.sent /\ n = pg.pending
  OBVIOUS
<1>1. /\ n # NONE /\ n \in Waiting /\ n.req = r /\ r \in Requests /\ Remembers(pg, n, w)
      /\ n.seq \in Nat /\ n.ctx \in Nat /\ r.change \in {"content", "context"}
  <2>1. n # NONE /\ n.req = r /\ n \in Waiting /\ Remembers(pg, n, w)
    BY DEF Talks, Waits, Fields
  <2> QED
    BY <2>1 DEF Waiting, Requests
<1>2. /\ v \in DOMAIN w.log /\ v \in Nat /\ v <= Len(w.log) /\ v # 0 /\ v = pg.token + 1
      /\ w.log[v].context \in Nat
      /\ r.change = "content" => w.log[v].payload = r.payload
      /\ r.change = "context" => pg.token # 0 /\ w.log[v].payload = w.log[pg.token].payload
  <2>1. v \in DOMAIN w.log /\ w.log[v].by = r
    BY DEF Receipt, Talks
  <2>2. r # NONE
    BY <1>1, NoneAssumption
  <2>3. Follows(v, w)
    BY <2>1, <2>2 DEF Sane
  <2>4. v \in Nat /\ v <= Len(w.log) /\ v # 0 /\ w.log[v] \in Versions
    <3>1. w.log \in Seq(Versions)
      BY DEF Sane
    <3> QED
      BY ONLY <2>1, <3>1
  <2>5. pg.token \in Nat /\ r.expected = pg.token
    BY <1>1 DEF Remembers, Fields
  <2>6. v = pg.token + 1 /\ v - 1 = pg.token
    <3>1. v = r.expected + 1
      BY <2>1, <2>3 DEF Follows
    <3> QED
      BY ONLY <2>5, <3>1
  <2>7. r.change = "context" => v > 1
    BY <2>1, <2>3 DEF Follows
  <2>8. r.change = "context" => pg.token # 0
    BY ONLY <2>5, <2>6, <2>7
  <2> QED
    BY <2>1, <2>3, <2>4, <2>6, <2>8 DEF Follows, Versions
<1> PICK s : s = IF r.change = "content" THEN n.seq ELSE pg.saved
  OBVIOUS
<1> PICK y : y = Settled(pg)
  OBVIOUS
<1>3. y = Whole(y) /\ y.pending = NONE /\ y.savedCtx = n.ctx /\ y.saved = s
      /\ y.at = pg.at /\ y.payload = pg.payload /\ y.context = pg.context
      /\ y.token = pg.token /\ y.seq = pg.seq /\ y.browser = pg.browser
      /\ y.ctx = pg.ctx /\ y.mut = pg.mut /\ y.deferred = pg.deferred
      /\ y.adopted = pg.adopted /\ y.paused = pg.paused /\ y.invalid = pg.invalid
      /\ y.conflict = pg.conflict /\ y.timer = pg.timer /\ y.sent = pg.sent
      /\ y.answer = pg.answer /\ y.obsolete = pg.obsolete /\ y.choice = pg.choice
      /\ y.snap = pg.snap /\ y.heard = pg.heard
  <2>1. pg = Whole(pg) /\ y = [pg EXCEPT !.pending = NONE, !.savedCtx = n.ctx, !.saved = s]
    BY DEF Fields, Settled
  <2> QED
    BY ONLY <2>1, Zenon DEF Whole
<1> PICK t : t = IF y.seq # y.saved \/ r.change = "context" THEN y.payload
                 ELSE w.log[v].payload
  BY ONLY Zenon
<1> PICK k : k = IF y.ctx # y.savedCtx THEN y.context ELSE w.log[v].context
  BY ONLY Zenon
<1>4. m = Whole(m) /\ m.payload = t /\ m.context = k /\ m.token = v
      /\ m.at = y.at /\ m.seq = y.seq /\ m.saved = y.saved /\ m.browser = y.browser
      /\ m.ctx = y.ctx /\ m.savedCtx = y.savedCtx /\ m.mut = y.mut
      /\ m.pending = y.pending /\ m.deferred = y.deferred /\ m.adopted = y.adopted
      /\ m.paused = y.paused /\ m.invalid = y.invalid /\ m.conflict = y.conflict
      /\ m.timer = y.timer /\ m.sent = y.sent /\ m.answer = y.answer
      /\ m.obsolete = y.obsolete /\ m.choice = y.choice /\ m.snap = y.snap
      /\ m.heard = y.heard
  <2>1. m = [y EXCEPT !.payload = t, !.context = k, !.token = v]
    BY DEF Merged
  <2> QED
    BY ONLY <1>3, <2>1, Zenon DEF Whole
<1> PICK z : z = Marks(m, c, a)
  OBVIOUS
<1>5. z = Whole(z) /\ z.conflict = c /\ z.adopted = a
      /\ z.at = m.at /\ z.payload = m.payload /\ z.context = m.context
      /\ z.token = m.token /\ z.seq = m.seq /\ z.saved = m.saved
      /\ z.browser = m.browser /\ z.ctx = m.ctx /\ z.savedCtx = m.savedCtx
      /\ z.mut = m.mut /\ z.pending = m.pending /\ z.deferred = m.deferred
      /\ z.paused = m.paused /\ z.invalid = m.invalid /\ z.timer = m.timer
      /\ z.sent = m.sent /\ z.answer = m.answer /\ z.obsolete = m.obsolete
      /\ z.choice = m.choice /\ z.snap = m.snap /\ z.heard = m.heard
  <2>1. z = [m EXCEPT !.conflict = c, !.adopted = a]
    BY DEF Marks
  <2> QED
    BY ONLY <1>4, <2>1, Zenon DEF Whole
<1>6. x = Whole(x) /\ x.at = "idle" /\ x.sent = NONE /\ x.answer = NONE /\ ~x.obsolete
      /\ x.payload = z.payload /\ x.context = z.context /\ x.token = z.token
      /\ x.seq = z.seq /\ x.saved = z.saved /\ x.browser = z.browser /\ x.ctx = z.ctx
      /\ x.savedCtx = z.savedCtx /\ x.mut = z.mut /\ x.pending = z.pending
      /\ x.deferred = z.deferred /\ x.adopted = z.adopted /\ x.paused = z.paused
      /\ x.invalid = z.invalid /\ x.conflict = z.conflict /\ x.timer = z.timer
      /\ x.choice = z.choice /\ x.snap = z.snap /\ x.heard = z.heard
  BY <1>5, IdleFields
<1>7. /\ x.pending = NONE /\ x.savedCtx = n.ctx /\ x.saved = s /\ x.payload = t /\ x.context = k
      /\ x.token = v /\ x.adopted = a /\ x.conflict = c
      /\ x.seq = pg.seq /\ x.browser = pg.browser /\ x.ctx = pg.ctx /\ x.mut = pg.mut
      /\ x.deferred = pg.deferred /\ x.paused = pg.paused /\ x.invalid = pg.invalid
      /\ x.timer = pg.timer /\ x.choice = pg.choice /\ x.snap = pg.snap
      /\ x.heard = pg.heard
  BY <1>3, <1>4, <1>5, <1>6
<1>8. /\ r.change = "content" => /\ pg.saved < n.seq /\ s = n.seq
                                 /\ pg.seq = n.seq => pg.payload = r.payload
      /\ r.change = "context" => s = pg.saved
      /\ s <= pg.seq /\ s \in Nat
  BY <1>1 DEF Remembers, Counts, Fields
<1>9. /\ t = pg.payload /\ k \in Nat
      /\ pg.seq = s => pg.payload = w.log[v].payload
      /\ pg.ctx = n.ctx => k = w.log[v].context
  <2>1. Shows(pg, w)
    BY DEF Choosing
  <2>2. pg.seq = s => pg.payload = w.log[v].payload
    BY <1>1, <1>2, <1>8, <2>1 DEF Shows
  <2> QED
    BY <1>2, <1>3, <2>2 DEF Fields
<1>10. pg.mut # NONE
  BY <1>1 DEF Identified
<1>11. w.log[v].payload \in w.safe
  BY <1>2 DEF Sane
<1>12. Fields(x)
  <2>1. a \subseteq Nat \X Mutation
    BY DEF Fields
  <2>2. x.savedCtx \in Nat /\ x.saved \in Nat /\ x.context \in Nat /\ x.token \in Nat
    BY ONLY <1>1, <1>2, <1>7, <1>8, <1>9
  <2>3. Fields(pg)
    OBVIOUS
  <2> QED
    BY ONLY <1>6, <1>7, <1>9, <2>1, <2>2, <2>3 DEF Fields, Places
<1>13. Counts(x, w) /\ Talks(x, w) /\ Identified(x) /\ Waits(x, w)
  <2>1. Counts(x, w)
    BY <1>1, <1>2, <1>7, <1>8, <1>9 DEF Counts, Remembers
  <2>2. Talks(x, w)
    BY <1>6, NoneAssumption DEF Talks
  <2>3. Identified(x) /\ Waits(x, w)
    BY <1>7, <1>10 DEF Identified, Waits
  <2> QED
    BY <2>1, <2>2, <2>3
<1>14. Shows(x, w)
  BY ONLY <1>2, <1>7, <1>9 DEF Shows
<1>15. Adopts(x, w) /\ Chooses(x, w) /\ Stores(x, w)
  BY <1>7, <1>9 DEF Adopts, Holds, Chooses, Stores
<1>16. Covers(x, w)
  BY <1>7, <1>9, <1>11 DEF Covers, hasUnsavedContent, Sane
<1>17. Based(x.payload, x.token, w)
  BY <1>1, <1>2, <1>7, <1>9 DEF Based, Remembers
<1>18. r.change = "content" => \A d \in pg.adopted : d[2][1] \in w.safe
  BY <1>1, <1>2, <1>11 DEF Adopts, Holds
<1>19. /\ Good(x, w) /\ Passes(pg, x, w)
       /\ x.seq = x.saved => x.payload \in w.safe
  BY <1>7, <1>9, <1>11, <1>12, <1>13, <1>14, <1>15, <1>16, <1>17 DEF Passes, PassesSnap
<1> QED
  BY <1>3, <1>4, <1>5, <1>6, <1>10, <1>18, <1>19

LEMMA PersistFields ==
  ASSUME NEW pg, pg = Whole(pg), ~full, NEW x, x = persist(pg)
  PROVE  /\ x = Whole(x) /\ x.browser = pg.seq
         /\ x.snap = [base |-> pg.token, mut |-> pg.mut, payload |-> pg.payload, context |-> pg.context]
         /\ x.at = pg.at /\ x.payload = pg.payload /\ x.context = pg.context
         /\ x.token = pg.token /\ x.seq = pg.seq /\ x.saved = pg.saved /\ x.ctx = pg.ctx
         /\ x.savedCtx = pg.savedCtx /\ x.mut = pg.mut /\ x.pending = pg.pending
         /\ x.deferred = pg.deferred /\ x.adopted = pg.adopted /\ x.paused = pg.paused
         /\ x.invalid = pg.invalid /\ x.conflict = pg.conflict /\ x.timer = pg.timer
         /\ x.sent = pg.sent /\ x.answer = pg.answer /\ x.obsolete = pg.obsolete
         /\ x.choice = pg.choice /\ x.heard = pg.heard
<1>1. PICK s : s = [base |-> pg.token, mut |-> pg.mut, payload |-> pg.payload, context |-> pg.context]
  OBVIOUS
<1>2. x = [pg EXCEPT !.browser = pg.seq, !.snap = s]
  BY <1>1 DEF persist
<1>3. x = Whole(x) /\ x.browser = pg.seq /\ x.snap = s
      /\ x.at = pg.at /\ x.payload = pg.payload /\ x.context = pg.context
      /\ x.token = pg.token /\ x.seq = pg.seq /\ x.saved = pg.saved /\ x.ctx = pg.ctx
      /\ x.savedCtx = pg.savedCtx /\ x.mut = pg.mut /\ x.pending = pg.pending
      /\ x.deferred = pg.deferred /\ x.adopted = pg.adopted /\ x.paused = pg.paused
      /\ x.invalid = pg.invalid /\ x.conflict = pg.conflict /\ x.timer = pg.timer
      /\ x.sent = pg.sent /\ x.answer = pg.answer /\ x.obsolete = pg.obsolete
      /\ x.choice = pg.choice /\ x.heard = pg.heard
  BY ONLY <1>2, pg = Whole(pg), Zenon DEF Whole
<1> QED
  BY <1>1, <1>3

LEMMA MarksFields ==
  ASSUME NEW pg, pg = Whole(pg), NEW c, NEW a, NEW x, x = Marks(pg, c, a)
  PROVE  /\ x = Whole(x) /\ x.conflict = c /\ x.adopted = a
         /\ x.at = pg.at /\ x.payload = pg.payload /\ x.context = pg.context
         /\ x.token = pg.token /\ x.seq = pg.seq /\ x.saved = pg.saved
         /\ x.browser = pg.browser /\ x.ctx = pg.ctx /\ x.savedCtx = pg.savedCtx
         /\ x.mut = pg.mut /\ x.pending = pg.pending /\ x.deferred = pg.deferred
         /\ x.paused = pg.paused /\ x.invalid = pg.invalid /\ x.timer = pg.timer
         /\ x.sent = pg.sent /\ x.answer = pg.answer /\ x.obsolete = pg.obsolete
         /\ x.choice = pg.choice /\ x.snap = pg.snap /\ x.heard = pg.heard
<1>1. x = [pg EXCEPT !.conflict = c, !.adopted = a]
  BY DEF Marks
<1> QED
  BY ONLY <1>1, pg = Whole(pg), Zenon DEF Whole

\* The storage is brought up to date before the page is idle; it might as well be after.
LEMMA DroppedGood ==
  ASSUME NEW w, Sane(w), NEW m, m = Whole(m), m.mut # NONE,
         NEW c, NEW a, Good(Idle(Marks(m, c, a)), w),
         m.seq = m.saved => m.payload \in w.safe,
         NEW f, f = Marks(Dropped(m), c, a)
  PROVE  /\ f = Whole(f) /\ f.pending = m.pending
         /\ Good(Idle(f), w) /\ Passes(Idle(Marks(m, c, a)), Idle(f), w)
<1> PICK g, i, h, z : g = Marks(m, c, a) /\ i = Idle(g) /\ h = Dropped(m) /\ z = Idle(f)
  OBVIOUS
<1>1. g = Whole(g) /\ g.conflict = c /\ g.adopted = a
      /\ g.at = m.at /\ g.payload = m.payload /\ g.context = m.context
      /\ g.token = m.token /\ g.seq = m.seq /\ g.saved = m.saved
      /\ g.browser = m.browser /\ g.ctx = m.ctx /\ g.savedCtx = m.savedCtx
      /\ g.mut = m.mut /\ g.pending = m.pending /\ g.deferred = m.deferred
      /\ g.paused = m.paused /\ g.invalid = m.invalid /\ g.timer = m.timer
      /\ g.sent = m.sent /\ g.answer = m.answer /\ g.obsolete = m.obsolete
      /\ g.choice = m.choice /\ g.snap = m.snap /\ g.heard = m.heard
  BY MarksFields
<1>2. i = Whole(i) /\ i.at = "idle" /\ i.sent = NONE /\ i.answer = NONE /\ i.obsolete = No
      /\ i.payload = g.payload /\ i.context = g.context /\ i.token = g.token
      /\ i.seq = g.seq /\ i.saved = g.saved /\ i.browser = g.browser /\ i.ctx = g.ctx
      /\ i.savedCtx = g.savedCtx /\ i.mut = g.mut /\ i.pending = g.pending
      /\ i.deferred = g.deferred /\ i.adopted = g.adopted /\ i.paused = g.paused
      /\ i.invalid = g.invalid /\ i.conflict = g.conflict /\ i.timer = g.timer
      /\ i.choice = g.choice /\ i.snap = g.snap /\ i.heard = g.heard
  BY <1>1, IdleFields
<1>3. Good(i, w)
  OBVIOUS
<1>4. CASE h = m
  <2>1. f = g
    BY <1>4
  <2> QED
    BY <1>1, <1>3, <2>1 DEF Passes, PassesSnap
<1>5. CASE ~full /\ h = persist(m)
  <2>1. /\ h = Whole(h) /\ h.browser = m.seq
        /\ h.snap = [base |-> m.token, mut |-> m.mut, payload |-> m.payload, context |-> m.context]
        /\ h.at = m.at /\ h.payload = m.payload /\ h.context = m.context
        /\ h.token = m.token /\ h.seq = m.seq /\ h.saved = m.saved /\ h.ctx = m.ctx
        /\ h.savedCtx = m.savedCtx /\ h.mut = m.mut /\ h.pending = m.pending
        /\ h.deferred = m.deferred /\ h.adopted = m.adopted /\ h.paused = m.paused
        /\ h.invalid = m.invalid /\ h.conflict = m.conflict /\ h.timer = m.timer
        /\ h.sent = m.sent /\ h.answer = m.answer /\ h.obsolete = m.obsolete
        /\ h.choice = m.choice /\ h.heard = m.heard
    BY <1>5, PersistFields
  <2>2. f = Whole(f) /\ f.conflict = c /\ f.adopted = a
        /\ f.at = h.at /\ f.payload = h.payload /\ f.context = h.context
        /\ f.token = h.token /\ f.seq = h.seq /\ f.saved = h.saved
        /\ f.browser = h.browser /\ f.ctx = h.ctx /\ f.savedCtx = h.savedCtx
        /\ f.mut = h.mut /\ f.pending = h.pending /\ f.deferred = h.deferred
        /\ f.paused = h.paused /\ f.invalid = h.invalid /\ f.timer = h.timer
        /\ f.sent = h.sent /\ f.answer = h.answer /\ f.obsolete = h.obsolete
        /\ f.choice = h.choice /\ f.snap = h.snap /\ f.heard = h.heard
    BY <2>1, MarksFields
  <2>3. z = Whole(z) /\ z.at = "idle" /\ z.sent = NONE /\ z.answer = NONE /\ z.obsolete = No
        /\ z.payload = f.payload /\ z.context = f.context /\ z.token = f.token
        /\ z.seq = f.seq /\ z.saved = f.saved /\ z.browser = f.browser /\ z.ctx = f.ctx
        /\ z.savedCtx = f.savedCtx /\ z.mut = f.mut /\ z.pending = f.pending
        /\ z.deferred = f.deferred /\ z.adopted = f.adopted /\ z.paused = f.paused
        /\ z.invalid = f.invalid /\ z.conflict = f.conflict /\ z.timer = f.timer
        /\ z.choice = f.choice /\ z.snap = f.snap /\ z.heard = f.heard
    BY <2>2, IdleFields
  <2>4. PICK y : y = persist(i)
    OBVIOUS
  <2>5. /\ y = Whole(y) /\ y.browser = i.seq
        /\ y.snap = [base |-> i.token, mut |-> i.mut, payload |-> i.payload, context |-> i.context]
        /\ y.at = i.at /\ y.payload = i.payload /\ y.context = i.context
        /\ y.token = i.token /\ y.seq = i.seq /\ y.saved = i.saved /\ y.ctx = i.ctx
        /\ y.savedCtx = i.savedCtx /\ y.mut = i.mut /\ y.pending = i.pending
        /\ y.deferred = i.deferred /\ y.adopted = i.adopted /\ y.paused = i.paused
        /\ y.invalid = i.invalid /\ y.conflict = i.conflict /\ y.timer = i.timer
        /\ y.sent = i.sent /\ y.answer = i.answer /\ y.obsolete = i.obsolete
        /\ y.choice = i.choice /\ y.heard = i.heard
    BY <1>2, <1>5, <2>4, PersistFields
  <2>6. z = y
    BY ONLY <1>1, <1>2, <2>1, <2>2, <2>3, <2>5 DEF Whole
  <2>7. Good(y, w) /\ Passes(i, y, w)
    BY <1>1, <1>2, <1>3, <2>4, PersistGood
  <2> QED
    BY <2>1, <2>2, <2>6, <2>7
<1>6. CASE ~Dirty(m) /\ h = [m EXCEPT !.snap = NONE]
  <2>1. h = Whole(h) /\ h.snap = NONE
        /\ h.at = m.at /\ h.payload = m.payload /\ h.context = m.context
        /\ h.token = m.token /\ h.seq = m.seq /\ h.saved = m.saved
        /\ h.browser = m.browser /\ h.ctx = m.ctx /\ h.savedCtx = m.savedCtx
        /\ h.mut = m.mut /\ h.pending = m.pending /\ h.deferred = m.deferred
        /\ h.adopted = m.adopted /\ h.paused = m.paused /\ h.invalid = m.invalid
        /\ h.conflict = m.conflict /\ h.timer = m.timer /\ h.sent = m.sent
        /\ h.answer = m.answer /\ h.obsolete = m.obsolete /\ h.choice = m.choice
        /\ h.heard = m.heard
    BY ONLY <1>6, m = Whole(m), Zenon DEF Whole
  <2>2. f = Whole(f) /\ f.conflict = c /\ f.adopted = a
        /\ f.at = h.at /\ f.payload = h.payload /\ f.context = h.context
        /\ f.token = h.token /\ f.seq = h.seq /\ f.saved = h.saved
        /\ f.browser = h.browser /\ f.ctx = h.ctx /\ f.savedCtx = h.savedCtx
        /\ f.mut = h.mut /\ f.pending = h.pending /\ f.deferred = h.deferred
        /\ f.paused = h.paused /\ f.invalid = h.invalid /\ f.timer = h.timer
        /\ f.sent = h.sent /\ f.answer = h.answer /\ f.obsolete = h.obsolete
        /\ f.choice = h.choice /\ f.snap = h.snap /\ f.heard = h.heard
    BY <2>1, MarksFields
  <2>3. z = Whole(z) /\ z.at = "idle" /\ z.sent = NONE /\ z.answer = NONE /\ z.obsolete = No
        /\ z.payload = f.payload /\ z.context = f.context /\ z.token = f.token
        /\ z.seq = f.seq /\ z.saved = f.saved /\ z.browser = f.browser /\ z.ctx = f.ctx
        /\ z.savedCtx = f.savedCtx /\ z.mut = f.mut /\ z.pending = f.pending
        /\ z.deferred = f.deferred /\ z.adopted = f.adopted /\ z.paused = f.paused
        /\ z.invalid = f.invalid /\ z.conflict = f.conflict /\ z.timer = f.timer
        /\ z.choice = f.choice /\ z.snap = f.snap /\ z.heard = f.heard
    BY <2>2, IdleFields
  <2>4. PICK y : y = [i EXCEPT !.snap = NONE]
    OBVIOUS
  <2>5. y = Whole(y) /\ y.snap = NONE
        /\ y.at = i.at /\ y.payload = i.payload /\ y.context = i.context
        /\ y.token = i.token /\ y.seq = i.seq /\ y.saved = i.saved
        /\ y.browser = i.browser /\ y.ctx = i.ctx /\ y.savedCtx = i.savedCtx
        /\ y.mut = i.mut /\ y.pending = i.pending /\ y.deferred = i.deferred
        /\ y.adopted = i.adopted /\ y.paused = i.paused /\ y.invalid = i.invalid
        /\ y.conflict = i.conflict /\ y.timer = i.timer /\ y.sent = i.sent
        /\ y.answer = i.answer /\ y.obsolete = i.obsolete /\ y.choice = i.choice
        /\ y.heard = i.heard
    BY ONLY <1>2, <2>4, Zenon DEF Whole
  <2>6. z = y
    BY ONLY <1>1, <1>2, <2>1, <2>2, <2>3, <2>5 DEF Whole
  <2>7. i.payload \in w.safe
    BY <1>1, <1>2, <1>6 DEF Dirty
  <2>8. Good(y, w) /\ Passes(i, y, w)
    BY <1>3, <2>4, <2>7, SnapDropped
  <2> QED
    BY <2>1, <2>2, <2>6, <2>8
<1> QED
  BY <1>4, <1>5, <1>6 DEF Dropped, persist

\* The page after an acknowledgement, and the snapshots that go with it.
AfterSaved(pg) ==
  LET m == Merged(Settled(pg), pg.sent, CHOOSE v \in Receipt(pg.sent) : TRUE)
      adopts == ~pg.paused /\ pg.sent.change = "content"
      kept == Dropped(m)
  IN  Finished([kept EXCEPT !.conflict = pg.paused, !.adopted = IF adopts THEN {} ELSE @], TRUE)
NoLonger(pg) == IF ~pg.paused /\ pg.sent.change = "content" THEN pg.adopted ELSE {}

LEMMA AcknowledgedGood ==
  ASSUME NEW w, w.log = log, Sane(w), NEW pg, Good(pg, w),
         pg.at = "sent", pg.answer = 200, ~pg.obsolete
  PROVE  /\ Good(AfterSaved(pg), w) /\ Scheduled(AfterSaved(pg)) /\ Passes(pg, AfterSaved(pg), w)
         /\ \A d \in NoLonger(pg) : d[2][1] \in w.safe
<1> PICK v : v = CHOOSE u \in Receipt(pg.sent) : TRUE
  OBVIOUS
<1>0. v \in Receipt(pg.sent)
  BY DEF Good, Fair, Talks, Receipt
<1> PICK m : m = Merged(Settled(pg), pg.sent, v)
  OBVIOUS
<1> PICK k : k = Dropped(m)
  OBVIOUS
<1> PICK c : c = pg.paused
  OBVIOUS
<1> PICK a : a = IF ~pg.paused /\ pg.sent.change = "content" THEN {} ELSE k.adopted
  BY ONLY Zenon
<1>1. /\ m = Whole(m) /\ m.mut # NONE /\ m.adopted = pg.adopted
      /\ pg.sent.change = "content" => \A d \in pg.adopted : d[2][1] \in w.safe
  <2>1. PICK e \in SUBSET pg.adopted : e = {}
    BY ONLY Zenon
  <2>2. PICK y : y = Idle(Marks(m, c, e))
    BY ONLY Zenon
  <2> QED
    BY ONLY <1>0, <2>1, <2>2, MergedGood, w.log = log, Sane(w), Good(pg, w),
            pg.at = "sent", pg.answer = 200, ~pg.obsolete,
            v \in Receipt(pg.sent), m = Merged(Settled(pg), pg.sent, v)
<1>2. k.adopted = m.adopted
  <2>1. CASE k = persist(m) /\ ~full
    BY ONLY <1>1, <2>1, PersistFields
  <2>2. CASE k = m
    BY <2>2
  <2>3. CASE k = [m EXCEPT !.snap = NONE]
    BY ONLY <1>1, <2>3, Zenon DEF Whole
  <2> QED
    BY <2>1, <2>2, <2>3 DEF Dropped, persist
<1>3. a \in SUBSET pg.adopted
  BY <1>1, <1>2
<1> PICK i : i = Idle(Marks(m, c, a))
  OBVIOUS
<1>4. /\ Good(i, w) /\ Passes(pg, i, w)
      /\ i.seq = i.saved => i.payload \in w.safe
      /\ m.pending = NONE /\ i.payload = m.payload /\ i.seq = m.seq /\ i.saved = m.saved
  <2>1. /\ Good(i, w) /\ Passes(pg, i, w)
        /\ i.seq = i.saved => i.payload \in w.safe
    BY ONLY <1>0, <1>3, MergedGood, w.log = log, Sane(w), Good(pg, w),
            pg.at = "sent", pg.answer = 200, ~pg.obsolete, i = Idle(Marks(m, c, a)),
            m = Merged(Settled(pg), pg.sent, v)
  <2>2. m.pending = NONE
    BY ONLY <1>0, <1>3, MergedGood, w.log = log, Sane(w), Good(pg, w),
            pg.at = "sent", pg.answer = 200, ~pg.obsolete, i = Idle(Marks(m, c, a)),
            m = Merged(Settled(pg), pg.sent, v)
  <2>3. i.payload = m.payload /\ i.seq = m.seq /\ i.saved = m.saved
    <3>1. PICK g : g = Marks(m, c, a)
      BY ONLY Zenon
    <3>2. g = Whole(g) /\ g.payload = m.payload /\ g.seq = m.seq /\ g.saved = m.saved
      BY ONLY <1>1, <3>1, MarksFields
    <3>3. i.payload = g.payload /\ i.seq = g.seq /\ i.saved = g.saved
      BY ONLY <3>1, <3>2, i = Idle(Marks(m, c, a)), IdleFields
    <3> QED
      BY ONLY <3>2, <3>3
  <2> QED
    BY <2>1, <2>2, <2>3
<1> PICK f : f = Marks(k, c, a)
  OBVIOUS
<1>5. /\ f = Whole(f) /\ f.pending = NONE
      /\ Good(Idle(f), w) /\ Passes(i, Idle(f), w)
  BY ONLY <1>1, <1>4, DroppedGood, Sane(w), i = Idle(Marks(m, c, a)), k = Dropped(m),
          f = Marks(k, c, a)
<1>6. LET x == Finished(f, TRUE)
      IN  Good(x, w) /\ Scheduled(x) /\ Passes(Idle(f), x, w)
  BY <1>5, FinishedGood
<1>7. AfterSaved(pg) = Finished(f, TRUE)
  BY DEF AfterSaved, Marks
<1>8. \A d \in NoLonger(pg) : d[2][1] \in w.safe
  BY <1>1 DEF NoLonger
<1> QED
  BY ONLY <1>4, <1>5, <1>6, <1>7, <1>8, PassesOn

\* What the page has on top of the version it was refused for.
AfterRefresh(pg) ==
  IF pg.obsolete THEN Finished(pg, FALSE)
  ELSE IF MayAdopt(pg, Len(log)) THEN Finished(adoptContextRevision(pg, Len(log)), TRUE)
  ELSE Refused(pg)

LEMMA ObsoleteGood ==
  ASSUME NEW w, w.log = log, Sane(w), NEW pg, Good(pg, w), pg.obsolete
  PROVE  LET x == Finished(pg, FALSE)
         IN  Good(x, w) /\ Scheduled(x) /\ Passes(pg, x, w)
<1>1. Good(Idle(pg), w) /\ Passes(pg, Idle(pg), w)
  BY IdleGood
<1>2. pg = Whole(pg) /\ pg.pending = NONE
  BY DEF Good, Fair, Talks, Fields
<1>3. LET x == Finished(pg, FALSE)
      IN  Good(x, w) /\ Scheduled(x) /\ Passes(Idle(pg), x, w)
  BY <1>1, <1>2, FinishedGood
<1> QED
  BY <1>1, <1>3, PassesOn

LEMMA RefreshedGood ==
  ASSUME NEW w, w.log = log, Sane(w), NEW pg, Good(pg, w), pg.at = "refresh"
  PROVE  LET x == AfterRefresh(pg)
         IN  Good(x, w) /\ Scheduled(x) /\ Passes(pg, x, w)
<1>1. CASE pg.obsolete
  BY <1>1, ObsoleteGood DEF AfterRefresh
<1>2. CASE ~pg.obsolete /\ MayAdopt(pg, Len(log))
  <2>1. /\ Len(log) \in DOMAIN w.log /\ pg.ctx # pg.savedCtx
        /\ pg.pending = NONE /\ ~pg.obsolete
    <3>1. pg.token \in Nat /\ pg.ctx \in Nat /\ pg.savedCtx \in Nat
      BY DEF Good, Fair, Fields
    <3>2. log \in Seq(Versions) /\ Len(log) \in Nat
      BY DEF Sane
    <3>3. Len(log) > pg.token /\ pg.pending = NONE
      BY <1>2 DEF MayAdopt
    <3>4. pg.savedCtx < pg.ctx
      BY <1>2 DEF Good, Fair, Talks
    <3>5. pg.ctx # pg.savedCtx
      BY ONLY <3>1, <3>4
    <3>6. Len(log) \in DOMAIN w.log
      BY ONLY <3>1, <3>2, <3>3, w.log = log
    <3> QED
      BY <1>2, <3>3, <3>5, <3>6
  <2>2. PICK x : x = adoptContextRevision(pg, Len(log))
    OBVIOUS
  <2>3. Good(x, w) /\ Passes(pg, x, w) /\ x.pending = NONE /\ ~x.obsolete
    BY <1>2, <2>1, <2>2, AdoptGood
  <2>4. Good(Idle(x), w) /\ Passes(x, Idle(x), w)
    BY <2>3, IdleGood
  <2>6. x = Whole(x)
    BY <2>3 DEF Good, Fair, Fields
  <2>5. LET r == Finished(x, TRUE)
        IN  Good(r, w) /\ Scheduled(r) /\ Passes(Idle(x), r, w)
    BY <2>3, <2>4, <2>6, FinishedGood
  <2> QED
    BY <1>2, <2>2, <2>3, <2>4, <2>5, PassesOn DEF AfterRefresh
<1>3. CASE ~pg.obsolete /\ ~MayAdopt(pg, Len(log))
  BY <1>3, RefusedGood DEF AfterRefresh, active
<1> QED
  BY <1>1, <1>2, <1>3

\* The server answers, and its log is what the answer says.
Answered(pg, c) == [pg EXCEPT !.answer = c]

LEMMA AnswerGood ==
  ASSUME NEW w, Sane(w), NEW pg, Good(pg, w), pg.at = "sent", NEW c \in {200, 409, 422},
         c = 200 => \E v \in DOMAIN w.log : w.log[v].by = pg.sent
  PROVE  LET x == Answered(pg, c)
         IN  Good(x, w) /\ Scheduled(x) /\ Passes(pg, x, w)
<1> USE DEF Good, Fair
<1>1. PICK x : x = [pg EXCEPT !.answer = c]
  OBVIOUS
<1> x = Answered(pg, c)
  BY <1>1 DEF Answered
<1>2. x = Whole(x) /\ x.answer = c
      /\ x.at = pg.at /\ x.payload = pg.payload /\ x.context = pg.context
      /\ x.token = pg.token /\ x.seq = pg.seq /\ x.saved = pg.saved
      /\ x.browser = pg.browser /\ x.ctx = pg.ctx /\ x.savedCtx = pg.savedCtx
      /\ x.mut = pg.mut /\ x.pending = pg.pending /\ x.deferred = pg.deferred
      /\ x.adopted = pg.adopted /\ x.paused = pg.paused /\ x.invalid = pg.invalid
      /\ x.conflict = pg.conflict /\ x.timer = pg.timer /\ x.sent = pg.sent
      /\ x.obsolete = pg.obsolete /\ x.choice = pg.choice /\ x.snap = pg.snap
      /\ x.heard = pg.heard
  <2>1. pg = Whole(pg)
    BY DEF Fields
  <2> QED
    BY ONLY <1>1, <2>1, Zenon DEF Whole
<1>3. Fields(x)
  BY <1>2 DEF Fields
<1>4. Counts(x, w) /\ Talks(x, w) /\ Identified(x)
  BY <1>2 DEF Counts, Talks, Identified, active, Dirty
<1>5. Waits(x, w) /\ Adopts(x, w) /\ Chooses(x, w) /\ Stores(x, w)
  BY <1>2 DEF Waits, Remembers, Adopts, Holds, Chooses, Stores
<1>6. (Choosing(x) \/ Shows(x, w)) /\ Covers(x, w)
  BY <1>2 DEF Choosing, Shows, Covers, hasUnsavedContent
<1>7. Based(x.payload, x.token, w) /\ (x.mut # NONE => Named(x.mut, x.payload, w))
  BY <1>2
<1> QED
  BY <1>1, <1>2, <1>3, <1>4, <1>5, <1>6, <1>7 DEF Passes, PassesSnap, Scheduled

LEMMA HeardGood ==
  ASSUME NEW w, NEW pg, Good(pg, w), NEW h \in SUBSET Nat, NEW x, x = [pg EXCEPT !.heard = h]
  PROVE  /\ Good(x, w) /\ Passes(pg, x, w)
         /\ Scheduled(pg) => Scheduled(x)
<1> USE DEF Good, Fair
<1>1. x = Whole(x) /\ x.heard = h
      /\ x.at = pg.at /\ x.payload = pg.payload /\ x.context = pg.context
      /\ x.token = pg.token /\ x.seq = pg.seq /\ x.saved = pg.saved
      /\ x.browser = pg.browser /\ x.ctx = pg.ctx /\ x.savedCtx = pg.savedCtx
      /\ x.mut = pg.mut /\ x.pending = pg.pending /\ x.deferred = pg.deferred
      /\ x.adopted = pg.adopted /\ x.paused = pg.paused /\ x.invalid = pg.invalid
      /\ x.conflict = pg.conflict /\ x.timer = pg.timer /\ x.sent = pg.sent
      /\ x.answer = pg.answer /\ x.obsolete = pg.obsolete /\ x.choice = pg.choice
      /\ x.snap = pg.snap
  <2>1. pg = Whole(pg)
    BY DEF Fields
  <2> QED
    BY ONLY x = [pg EXCEPT !.heard = h], <2>1, Zenon DEF Whole
<1>2. Fields(x)
  BY <1>1 DEF Fields
<1>3. Counts(x, w) /\ Talks(x, w) /\ Identified(x)
  BY <1>1 DEF Counts, Talks, Identified, active, Dirty
<1>4. Waits(x, w) /\ Adopts(x, w) /\ Chooses(x, w) /\ Stores(x, w)
  BY <1>1 DEF Waits, Remembers, Adopts, Holds, Chooses, Stores
<1>5. (Choosing(x) \/ Shows(x, w)) /\ Covers(x, w)
  BY <1>1 DEF Choosing, Shows, Covers, hasUnsavedContent
<1>6. Based(x.payload, x.token, w) /\ (x.mut # NONE => Named(x.mut, x.payload, w))
  BY <1>1
<1>7. Scheduled(pg) => Scheduled(x)
  BY <1>1 DEF Scheduled, Dirty, Held
<1> QED
  BY <1>1, <1>2, <1>3, <1>4, <1>5, <1>6, <1>7 DEF Passes, PassesSnap

\* A choice begins, or is over.
LEMMA ChoiceGood ==
  ASSUME NEW w, NEW pg, Good(pg, w), NEW c \in Chosen \cup {NONE},
         c # NONE => /\ c.kind = "command" => c.token # 0
                     /\ \A d \in c.copies : Named(d.mut, d.payload, w) /\ d.payload <= w.edits,
         NEW x, x = [pg EXCEPT !.choice = c]
  PROVE  Good(x, w) /\ Passes(pg, x, w) /\ (c # NONE => Scheduled(x))
<1> USE DEF Good, Fair
<1>1. x = Whole(x) /\ x.choice = c
      /\ x.at = pg.at /\ x.payload = pg.payload /\ x.context = pg.context
      /\ x.token = pg.token /\ x.seq = pg.seq /\ x.saved = pg.saved
      /\ x.browser = pg.browser /\ x.ctx = pg.ctx /\ x.savedCtx = pg.savedCtx
      /\ x.mut = pg.mut /\ x.pending = pg.pending /\ x.deferred = pg.deferred
      /\ x.adopted = pg.adopted /\ x.paused = pg.paused /\ x.invalid = pg.invalid
      /\ x.conflict = pg.conflict /\ x.timer = pg.timer /\ x.sent = pg.sent
      /\ x.answer = pg.answer /\ x.obsolete = pg.obsolete /\ x.snap = pg.snap
      /\ x.heard = pg.heard
  <2>1. pg = Whole(pg)
    BY DEF Fields
  <2> QED
    BY ONLY x = [pg EXCEPT !.choice = c], <2>1, Zenon DEF Whole
<1>2. Fields(x)
  BY <1>1 DEF Fields
<1>3. Counts(x, w) /\ Talks(x, w) /\ Identified(x)
  BY <1>1 DEF Counts, Talks, Identified, active, Dirty
<1>4. Waits(x, w) /\ Adopts(x, w) /\ Stores(x, w)
  BY <1>1 DEF Waits, Remembers, Adopts, Holds, Stores
<1>5. Chooses(x, w)
  BY <1>1 DEF Chooses
<1>6. (Choosing(x) \/ Shows(x, w)) /\ Covers(x, w)
  BY <1>1 DEF Choosing, Shows, Covers, hasUnsavedContent
<1>7. Based(x.payload, x.token, w) /\ (x.mut # NONE => Named(x.mut, x.payload, w))
  BY <1>1
<1> QED
  BY <1>1, <1>2, <1>3, <1>4, <1>5, <1>6, <1>7 DEF Passes, PassesSnap, Scheduled, Held

LEMMA ReleasedGood ==
  ASSUME NEW w, NEW pg, Good(pg, w)
  PROVE  Good(Released(pg), w) /\ Scheduled(Released(pg)) /\ Passes(pg, Released(pg), w)
<1>1. PICK x : x = [pg EXCEPT !.choice = NONE]
  OBVIOUS
<1>2. Good(x, w) /\ Passes(pg, x, w)
  BY <1>1, ChoiceGood
<1>3. Released(pg) = schedule(x)
  BY <1>1 DEF Released
<1> QED
  BY <1>2, <1>3, ScheduleGood, PassesOn

\* An edit makes content n from what the page shows.
Edited(pg, n) == [pg EXCEPT !.seq = @ + 1, !.payload = n]
AfterEdit(pg, n) ==
  schedule([persist(newId(Edited(pg, n)))
              EXCEPT !.conflict = pg.paused /\ ~pg.invalid])

LEMMA EditFair ==
  ASSUME NEW w, Sane(w), NEW pg, Good(pg, w), NEW n \in Nat, n <= w.edits,
         w.from[n] = w.from[pg.payload] \cup {pg.payload}, pg.payload \in w.safe,
         NEW e, e = Edited(pg, n)
  PROVE  /\ Fair(e, w) /\ Passes(pg, e, w) /\ e.payload = n
         /\ e.paused = pg.paused /\ e.invalid = pg.invalid
<1> USE DEF Good, Fair
<1>1. PICK s \in Nat : s = pg.seq + 1 /\ s > pg.saved /\ s > pg.seq
  BY DEF Fields, Counts
<1>2. e = Whole(e) /\ e.seq = s /\ e.payload = n
      /\ e.at = pg.at /\ e.context = pg.context /\ e.token = pg.token
      /\ e.saved = pg.saved /\ e.browser = pg.browser /\ e.ctx = pg.ctx
      /\ e.savedCtx = pg.savedCtx /\ e.mut = pg.mut /\ e.pending = pg.pending
      /\ e.deferred = pg.deferred /\ e.adopted = pg.adopted /\ e.paused = pg.paused
      /\ e.invalid = pg.invalid /\ e.conflict = pg.conflict /\ e.timer = pg.timer
      /\ e.sent = pg.sent /\ e.answer = pg.answer /\ e.obsolete = pg.obsolete
      /\ e.choice = pg.choice /\ e.snap = pg.snap /\ e.heard = pg.heard
  <2>1. pg = Whole(pg) /\ e = [pg EXCEPT !.seq = s, !.payload = n]
    BY <1>1 DEF Fields, Edited
  <2> QED
    BY ONLY <2>1, Zenon DEF Whole
<1>3. Fields(e)
  BY <1>2 DEF Fields
<1>4. e.seq # e.saved
  BY <1>1, <1>2 DEF Fields
<1>5. Counts(e, w)
  BY <1>1, <1>2 DEF Counts, Fields
<1>6. Talks(e, w)
  BY <1>2, <1>4 DEF Talks, active, Dirty
<1>7. Waits(e, w)
  <2> SUFFICES ASSUME pg.pending # NONE
               PROVE  Remembers(e, pg.pending, w)
    BY <1>2 DEF Waits
  <2>1. Remembers(pg, pg.pending, w) /\ pg.pending.seq \in Nat
    BY DEF Waits, Fields, Waiting
  <2>2. pg.pending.seq < s
    BY <1>1, <2>1 DEF Remembers, Fields
  <2>3. pg.pending.req.change = "content" => Descends(n, pg.pending.req.payload, w)
    BY <2>1 DEF Remembers, Descends
  <2> QED
    BY <1>2, <2>1, <2>2, <2>3 DEF Remembers
<1>8. Choosing(e) \/ Shows(e, w)
  BY <1>2, <1>4 DEF Choosing, Shows
<1>9. Based(e.payload, e.token, w)
  BY <1>2 DEF Based, Descends
<1>10. Adopts(e, w)
  BY <1>2 DEF Adopts, Holds
<1>11. Chooses(e, w) /\ Stores(e, w)
  BY <1>2 DEF Chooses, Stores
<1>12. Covers(e, w)
  <2>1. e.browser # e.seq
    BY <1>1, <1>2, NoneAssumption DEF Counts, Fields
  <2> QED
    BY <1>2, <1>4, <2>1 DEF Covers, hasUnsavedContent
<1> QED
  BY <1>2, <1>3, <1>5, <1>6, <1>7, <1>8, <1>9, <1>10, <1>11, <1>12 DEF Passes, PassesSnap

LEMMA EditGood ==
  ASSUME NEW w, Sane(w), NEW pg, Good(pg, w), NEW n \in Nat, n <= w.edits,
         w.from[n] = w.from[pg.payload] \cup {pg.payload}, pg.payload \in w.safe
  PROVE  LET x == AfterEdit(pg, n)
         IN  Good(x, w) /\ Scheduled(x) /\ Passes(pg, x, w) /\ x.payload = n
<1> USE DEF Good
<1> PICK e : e = Edited(pg, n)
  OBVIOUS
<1>1. /\ Fair(e, w) /\ Passes(pg, e, w) /\ e.payload = n
      /\ e.paused = pg.paused /\ e.invalid = pg.invalid
  BY EditFair
<1> PICK i : i = newId(e)
  OBVIOUS
<1>2. Good(i, w) /\ Passes(e, i, w) /\ i.mut # NONE
  BY <1>1, NewIdGood
<1>3. i.payload = n /\ i.paused = pg.paused /\ i.invalid = pg.invalid
  <2>1. e = Whole(e)
    BY <1>1 DEF Fair, Fields
  <2>2. PICK m : i = [e EXCEPT !.mut = m]
    BY DEF newId
  <2>3. i.payload = e.payload /\ i.paused = e.paused /\ i.invalid = e.invalid
    BY ONLY <2>1, <2>2, Zenon DEF Whole
  <2> QED
    BY <1>1, <2>3
<1> PICK j : j = persist(i)
  OBVIOUS
<1>4. Good(j, w) /\ Passes(i, j, w)
  BY <1>2, PersistGood
<1>5. j.payload = n /\ j.paused = pg.paused /\ j.invalid = pg.invalid
  <2>1. i = Whole(i)
    BY <1>2 DEF Fair, Fields
  <2>2. CASE full
    BY <1>3, <2>2 DEF persist
  <2>3. CASE ~full
    <3>1. /\ j = Whole(j) /\ j.browser = i.seq
          /\ j.snap = [base |-> i.token, mut |-> i.mut, payload |-> i.payload, context |-> i.context]
          /\ j.at = i.at /\ j.payload = i.payload /\ j.context = i.context
          /\ j.token = i.token /\ j.seq = i.seq /\ j.saved = i.saved /\ j.ctx = i.ctx
          /\ j.savedCtx = i.savedCtx /\ j.mut = i.mut /\ j.pending = i.pending
          /\ j.deferred = i.deferred /\ j.adopted = i.adopted /\ j.paused = i.paused
          /\ j.invalid = i.invalid /\ j.conflict = i.conflict /\ j.timer = i.timer
          /\ j.sent = i.sent /\ j.answer = i.answer /\ j.obsolete = i.obsolete
          /\ j.choice = i.choice /\ j.heard = i.heard
      BY <2>1, <2>3, PersistFields
    <3> QED
      BY <1>3, <3>1
  <2> QED
    BY <2>2, <2>3
<1> PICK c : c = (pg.paused /\ ~pg.invalid)
  BY ONLY Zenon
<1> PICK k : k = [j EXCEPT !.conflict = c]
  OBVIOUS
<1>6. k = Whole(k) /\ k.conflict = c
      /\ k.at = j.at /\ k.payload = j.payload /\ k.context = j.context
      /\ k.token = j.token /\ k.seq = j.seq /\ k.saved = j.saved
      /\ k.browser = j.browser /\ k.ctx = j.ctx /\ k.savedCtx = j.savedCtx
      /\ k.mut = j.mut /\ k.pending = j.pending /\ k.deferred = j.deferred
      /\ k.adopted = j.adopted /\ k.paused = j.paused /\ k.invalid = j.invalid
      /\ k.timer = j.timer /\ k.sent = j.sent /\ k.answer = j.answer
      /\ k.obsolete = j.obsolete /\ k.choice = j.choice /\ k.snap = j.snap
      /\ k.heard = j.heard
  <2>1. j = Whole(j)
    BY <1>4 DEF Fair, Fields
  <2> QED
    BY ONLY k = [j EXCEPT !.conflict = c], <2>1, Zenon DEF Whole
<1>7. Fields(k) /\ Content(k, j)
  BY <1>4, <1>6 DEF Fair, Fields, Content
<1>8. Choosing(k) \/ Shows(j, w)
  BY <1>4, <1>5, <1>6 DEF Fair, Choosing
<1>9. Good(k, w) /\ Passes(j, k, w)
  BY <1>4, <1>7, <1>8, FlagsGood
<1>10. PICK x : x = schedule(k)
  OBVIOUS
<1>11. Good(x, w) /\ Scheduled(x) /\ Passes(k, x, w)
  BY <1>9, <1>10, ScheduleGood
<1>12. x.payload = n
  BY <1>5, <1>6, <1>7, <1>10, ScheduleFields DEF Content
<1>13. x = AfterEdit(pg, n)
  BY <1>10 DEF AfterEdit
<1>14. Passes(pg, x, w)
  BY <1>1, <1>2, <1>4, <1>9, <1>11, PassesOn
<1> QED
  BY <1>11, <1>12, <1>13, <1>14

AfterContext(pg, n) == schedule(persist(newId([pg EXCEPT !.ctx = @ + 1, !.context = n])))

LEMMA ContextGood ==
  ASSUME NEW w, Sane(w), NEW pg, Good(pg, w), NEW n \in Nat
  PROVE  LET x == AfterContext(pg, n)
         IN  Good(x, w) /\ Scheduled(x) /\ Passes(pg, x, w)
<1> USE DEF Good, Fair
<1>1. PICK s \in Nat : s = pg.ctx + 1 /\ s > pg.savedCtx /\ s > pg.ctx
  BY DEF Fields, Counts
<1> PICK e : e = [pg EXCEPT !.ctx = s, !.context = n]
  OBVIOUS
<1>2. e = Whole(e) /\ e.ctx = s /\ e.context = n
      /\ e.at = pg.at /\ e.payload = pg.payload /\ e.token = pg.token /\ e.seq = pg.seq
      /\ e.saved = pg.saved /\ e.browser = pg.browser /\ e.savedCtx = pg.savedCtx
      /\ e.mut = pg.mut /\ e.pending = pg.pending /\ e.deferred = pg.deferred
      /\ e.adopted = pg.adopted /\ e.paused = pg.paused /\ e.invalid = pg.invalid
      /\ e.conflict = pg.conflict /\ e.timer = pg.timer /\ e.sent = pg.sent
      /\ e.answer = pg.answer /\ e.obsolete = pg.obsolete /\ e.choice = pg.choice
      /\ e.snap = pg.snap /\ e.heard = pg.heard
  <2>1. pg = Whole(pg)
    BY DEF Fields
  <2> QED
    BY ONLY e = [pg EXCEPT !.ctx = s, !.context = n], <2>1, Zenon DEF Whole
<1>3. Fields(e)
  BY <1>2 DEF Fields
<1>4. e.ctx # e.savedCtx
  BY <1>1, <1>2 DEF Fields
<1>5. Counts(e, w)
  BY <1>1, <1>2 DEF Counts, Fields
<1>6. Talks(e, w)
  BY <1>1, <1>2, <1>4 DEF Talks, active, Dirty
<1>7. Waits(e, w)
  <2> SUFFICES ASSUME pg.pending # NONE
               PROVE  Remembers(e, pg.pending, w)
    BY <1>2 DEF Waits
  <2>1. Remembers(pg, pg.pending, w) /\ pg.pending.ctx \in Nat /\ pg.ctx \in Nat
    BY DEF Waits, Fields, Waiting
  <2>2. pg.pending.ctx <= s
    BY <1>1, <2>1 DEF Remembers
  <2> QED
    BY <1>2, <2>1, <2>2 DEF Remembers
<1>8. Choosing(e) \/ Shows(e, w)
  BY <1>2, <1>4 DEF Choosing, Shows
<1>9. Based(e.payload, e.token, w) /\ Adopts(e, w) /\ Chooses(e, w) /\ Stores(e, w) /\ Covers(e, w)
  BY <1>2 DEF Adopts, Holds, Chooses, Stores, Covers, hasUnsavedContent
<1>10. Fair(e, w) /\ Passes(pg, e, w)
  BY <1>2, <1>3, <1>5, <1>6, <1>7, <1>8, <1>9 DEF Passes, PassesSnap
<1> HIDE DEF Good, Fair
<1>11. PICK i : i = newId(e)
  OBVIOUS
<1>12. Good(i, w) /\ Passes(e, i, w) /\ i.mut # NONE
  BY <1>10, <1>11, NewIdGood
<1>13. Good(persist(i), w) /\ Passes(i, persist(i), w)
  BY <1>12, PersistGood
<1>14. LET x == schedule(persist(i)) IN Good(x, w) /\ Scheduled(x) /\ Passes(persist(i), x, w)
  BY <1>13, ScheduleGood
<1>15. AfterContext(pg, n) = schedule(persist(i))
  BY <1>1, <1>11 DEF AfterContext
<1> QED
  BY ONLY <1>10, <1>12, <1>13, <1>14, <1>15, PassesOn

-----------------------------------------------------------------------------
(* Pages begin.                                                               *)

LEMMA NewFields ==
  /\ New = Whole(New) /\ New.at = "new" /\ New.payload = 0 /\ New.context = 0 /\ New.token = 0
  /\ New.seq = 0 /\ New.saved = 0 /\ New.browser = NONE /\ New.ctx = 0 /\ New.savedCtx = 0
  /\ New.mut = NONE /\ New.pending = NONE /\ New.deferred = 0 /\ New.adopted = {}
  /\ ~New.paused /\ ~New.invalid /\ ~New.conflict /\ ~New.timer
  /\ New.sent = NONE /\ New.answer = NONE /\ ~New.obsolete /\ New.choice = NONE
  /\ New.snap = NONE /\ New.heard = {}
BY DEF New, Whole

\* A page that is not open is nothing but its key of the storage.
Shut(a, s) == [New EXCEPT !.at = a, !.snap = s]

LEMMA BlankFields ==
  ASSUME NEW a \in {"new", "closed"}, NEW s \in Snapshot \cup {NONE}, NEW x, x = Shut(a, s)
  PROVE  Fields(x) /\ x.at = a /\ x.snap = s
<1>1. x = Whole(x) /\ x.at = a /\ x.snap = s
      /\ x.payload = New.payload /\ x.context = New.context /\ x.token = New.token
      /\ x.seq = New.seq /\ x.saved = New.saved /\ x.browser = New.browser
      /\ x.ctx = New.ctx /\ x.savedCtx = New.savedCtx /\ x.mut = New.mut
      /\ x.pending = New.pending /\ x.deferred = New.deferred /\ x.adopted = New.adopted
      /\ x.paused = New.paused /\ x.invalid = New.invalid /\ x.conflict = New.conflict
      /\ x.timer = New.timer /\ x.sent = New.sent /\ x.answer = New.answer
      /\ x.obsolete = New.obsolete /\ x.choice = New.choice /\ x.heard = New.heard
  <2>1. New = Whole(New)
    BY NewFields
  <2> QED
    BY ONLY <2>1, x = Shut(a, s), Zenon DEF Whole, Shut
<1> QED
  BY <1>1, NewFields DEF Fields, Places

\* A page opens on a record: one that was saved, or one of the copies.
Showing(n, c, t, f, g) ==
  [New EXCEPT !.at = "idle", !.token = t, !.payload = n, !.context = c,
              !.paused = f, !.conflict = g]

LEMMA ShownGood ==
  ASSUME NEW w, Sane(w), NEW n \in Nat, NEW c \in Nat, NEW t \in Nat,
         n <= w.edits, t <= Len(w.log), Based(n, t, w), n \in w.stowed,
         NEW f, NEW g, NEW x, x = Showing(n, c, t, f, g),
         \/ t # 0 /\ n = w.log[t].payload /\ c = w.log[t].context
         \/ f /\ g
  PROVE  Good(x, w) /\ Scheduled(x) /\ x.snap = NONE
<1>1. x = Whole(x) /\ x.at = "idle" /\ x.token = t /\ x.payload = n /\ x.context = c
      /\ x.paused = f /\ x.conflict = g
      /\ x.seq = New.seq /\ x.saved = New.saved /\ x.browser = New.browser
      /\ x.ctx = New.ctx /\ x.savedCtx = New.savedCtx /\ x.mut = New.mut
      /\ x.pending = New.pending /\ x.deferred = New.deferred /\ x.adopted = New.adopted
      /\ x.invalid = New.invalid /\ x.timer = New.timer /\ x.sent = New.sent
      /\ x.answer = New.answer /\ x.obsolete = New.obsolete /\ x.choice = New.choice
      /\ x.snap = New.snap /\ x.heard = New.heard
  <2>1. New = Whole(New)
    BY NewFields
  <2> QED
    BY ONLY <2>1, x = Showing(n, c, t, f, g), Zenon DEF Whole, Showing
<1>2. Fields(x)
  BY <1>1, NewFields DEF Fields, Places
<1>3. Counts(x, w)
  BY <1>1, NewFields DEF Counts, Sane
<1>4. Talks(x, w) /\ Identified(x) /\ Waits(x, w)
  BY <1>1, NewFields, NoneAssumption DEF Talks, Identified, Waits, active, Dirty
<1>5. Choosing(x) \/ Shows(x, w)
  BY <1>1, NewFields DEF Choosing, Shows
<1>6. Adopts(x, w) /\ Chooses(x, w) /\ Stores(x, w) /\ Covers(x, w)
  BY <1>1, NewFields DEF Adopts, Chooses, Stores, Covers
<1>7. Based(x.payload, x.token, w) /\ x.mut = NONE /\ Scheduled(x)
  BY <1>1, NewFields DEF Scheduled, Dirty
<1> QED
  BY <1>1, <1>2, <1>3, <1>4, <1>5, <1>6, <1>7, NewFields DEF Good, Fair

\* Snapshots that agree are taken up, and their keys remembered.
Taking(n, c, t, a) ==
  [New EXCEPT !.at = "idle", !.token = t, !.payload = n, !.context = c,
              !.adopted = a, !.seq = 1, !.browser = 1, !.ctx = 1]

LEMMA TakenFair ==
  ASSUME NEW w, Sane(w), NEW n \in Nat, NEW c \in Nat, NEW t \in Nat,
         n <= w.edits, t <= Len(w.log), Based(n, t, w), n \in w.stowed,
         NEW a \in SUBSET (Nat \X Mutation), \A d \in a : d[2][1] = n \/ d[2][1] \in w.safe,
         NEW x, x = Taking(n, c, t, a)
  PROVE  Fair(x, w) /\ x.snap = NONE
<1>1. x = Whole(x) /\ x.at = "idle" /\ x.token = t /\ x.payload = n /\ x.context = c
      /\ x.adopted = a /\ x.seq = 1 /\ x.browser = 1 /\ x.ctx = 1
      /\ x.saved = New.saved /\ x.savedCtx = New.savedCtx /\ x.mut = New.mut
      /\ x.pending = New.pending /\ x.deferred = New.deferred /\ x.paused = New.paused
      /\ x.invalid = New.invalid /\ x.conflict = New.conflict /\ x.timer = New.timer
      /\ x.sent = New.sent /\ x.answer = New.answer /\ x.obsolete = New.obsolete
      /\ x.choice = New.choice /\ x.snap = New.snap /\ x.heard = New.heard
  <2>1. New = Whole(New)
    BY NewFields
  <2> QED
    BY ONLY <2>1, x = Taking(n, c, t, a), Zenon DEF Whole, Taking
<1>2. Fields(x)
  BY <1>1, NewFields DEF Fields, Places
<1>3. Counts(x, w)
  BY <1>1, NewFields DEF Counts, Sane
<1>4. Talks(x, w) /\ Waits(x, w)
  BY <1>1, NewFields, NoneAssumption DEF Talks, Waits, active, Dirty
<1>5. Shows(x, w)
  BY <1>1, NewFields DEF Shows
<1>6. Adopts(x, w) /\ Chooses(x, w) /\ Stores(x, w) /\ Covers(x, w)
  BY <1>1, NewFields DEF Adopts, Holds, Chooses, Stores, Covers
<1> QED
  BY <1>1, <1>2, <1>3, <1>4, <1>5, <1>6, NewFields DEF Fair

\* The first edit of a draft that was never saved.
Starting(n) == [New EXCEPT !.at = "idle", !.seq = 1, !.payload = n]

LEMMA FirstFair ==
  ASSUME NEW w, Sane(w), NEW n \in Nat, n <= w.edits,
         NEW x, x = Starting(n)
  PROVE  Fair(x, w) /\ x.snap = NONE /\ x.payload = n
<1>1. x = Whole(x) /\ x.at = "idle" /\ x.seq = 1 /\ x.payload = n
      /\ x.context = New.context /\ x.token = New.token /\ x.saved = New.saved
      /\ x.browser = New.browser /\ x.ctx = New.ctx /\ x.savedCtx = New.savedCtx
      /\ x.mut = New.mut /\ x.pending = New.pending /\ x.deferred = New.deferred
      /\ x.adopted = New.adopted /\ x.paused = New.paused /\ x.invalid = New.invalid
      /\ x.conflict = New.conflict /\ x.timer = New.timer /\ x.sent = New.sent
      /\ x.answer = New.answer /\ x.obsolete = New.obsolete /\ x.choice = New.choice
      /\ x.snap = New.snap /\ x.heard = New.heard
  <2>1. New = Whole(New)
    BY NewFields
  <2> QED
    BY ONLY <2>1, x = Starting(n), Zenon DEF Whole, Starting
<1>2. Fields(x)
  BY <1>1, NewFields DEF Fields, Places
<1>3. Counts(x, w)
  BY <1>1, NewFields DEF Counts, Sane
<1>4. Talks(x, w) /\ Waits(x, w)
  BY <1>1, NewFields, NoneAssumption DEF Talks, Waits, active, Dirty
<1>5. Shows(x, w)
  BY <1>1, NewFields DEF Shows
<1>6. Adopts(x, w) /\ Chooses(x, w) /\ Stores(x, w) /\ Covers(x, w)
  BY <1>1, NewFields, NoneAssumption DEF Adopts, Chooses, Stores, Covers, hasUnsavedContent
<1>7. Based(x.payload, x.token, w)
  BY <1>1, NewFields DEF Based
<1> QED
  BY <1>1, <1>2, <1>3, <1>4, <1>5, <1>6, <1>7, NewFields DEF Fair

\* The page is replaced by a version; an answer that is on its way is forgotten.
LEMMA LoadedGood ==
  ASSUME NEW w, Sane(w), NEW pg, Good(pg, w), pg.payload \in w.safe,
         NEW v \in DOMAIN w.log, NEW x, x = Loaded(pg, w.log[v], v)
  PROVE  Good(x, w) /\ Passes(pg, x, w)
<1> PICK n : n = w.log[v].payload
  OBVIOUS
<1> PICK c : c = w.log[v].context
  OBVIOUS
<1> PICK o : o = active(pg)
  BY ONLY Zenon
<1>1. x = Whole(x) /\ x.at = pg.at /\ x.sent = pg.sent /\ x.answer = pg.answer
      /\ x.obsolete = o /\ x.snap = pg.snap /\ x.heard = pg.heard
      /\ x.payload = n /\ x.context = c /\ x.token = v
      /\ x.seq = New.seq /\ x.saved = New.saved /\ x.browser = New.browser
      /\ x.ctx = New.ctx /\ x.savedCtx = New.savedCtx /\ x.mut = New.mut
      /\ x.pending = New.pending /\ x.deferred = New.deferred /\ x.adopted = New.adopted
      /\ x.paused = New.paused /\ x.invalid = New.invalid /\ x.conflict = New.conflict
      /\ x.timer = New.timer /\ x.choice = New.choice
  <2>1. New = Whole(New)
    BY NewFields
  <2>2. x = [New EXCEPT !.at = pg.at, !.sent = pg.sent, !.answer = pg.answer, !.obsolete = o,
                        !.snap = pg.snap, !.heard = pg.heard,
                        !.payload = n, !.context = c, !.token = v]
    BY DEF Loaded
  <2> QED
    BY ONLY <2>1, <2>2, Zenon DEF Whole
<1>2. /\ n \in w.safe /\ n \in w.stowed /\ n \in Nat /\ n <= w.edits /\ c \in Nat
      /\ v \in Nat /\ v # 0 /\ v <= Len(w.log)
  <2>1. w.log[v] \in Versions /\ v \in Nat /\ v # 0 /\ v <= Len(w.log)
    BY DEF Sane
  <2> QED
    BY <2>1 DEF Sane, Versions
<1> USE DEF Good, Fair
<1>3. Fields(x)
  BY <1>1, <1>2, NewFields DEF Fields
<1>4. Counts(x, w)
  BY <1>1, <1>2, NewFields DEF Counts
<1>9. x.obsolete <=> pg.at # "idle"
  BY <1>1 DEF active
<1>10. x.pending = NONE /\ x.seq = x.saved /\ x.ctx = x.savedCtx
  BY <1>1, NewFields
<1>5. Talks(x, w) /\ Identified(x) /\ Waits(x, w)
  <2>1. Talks(x, w)
    BY <1>1, <1>9, <1>10 DEF Talks, active
  <2> QED
    BY <2>1, <1>10 DEF Identified, Waits, Dirty
<1>6. Shows(x, w) /\ Based(x.payload, x.token, w)
  BY <1>1, <1>2 DEF Shows, Based, Descends
<1>7. Adopts(x, w) /\ Chooses(x, w) /\ Stores(x, w)
  BY <1>1, NewFields DEF Adopts, Chooses, Stores
<1>8. Covers(x, w)
  BY <1>1, <1>2 DEF Covers
<1> QED
  BY <1>1, <1>3, <1>4, <1>5, <1>6, <1>7, <1>8, NewFields DEF Passes, PassesSnap

-----------------------------------------------------------------------------
(* What becomes of all pages.                                                 *)

LEMMA FitGrows ==
  ASSUME NEW w, NEW x, Sane(w), Sane(x), Grows(w, x), NEW pg, Fit(pg, w)
  PROVE  Fit(pg, x)
BY StoresGrows, GoodGrows DEF Fit

LEMMA OpenedFit ==
  ASSUME NEW w, NEW pg, Good(pg, w), Scheduled(pg)
  PROVE  Fit(pg, w) /\ Opened(pg)
BY DEF Fit, Opened, Good, Fair, Talks

\* A snapshot that is removed was of safe content.
LEMMA RemovedFit ==
  ASSUME NEW w, Sane(w), NEW o, Fit(o, w), o.snap # NONE, o.snap.mut[1] \in w.safe,
         NEW x, x = [o EXCEPT !.snap = NONE]
  PROVE  /\ Fit(x, w) /\ x.payload = o.payload /\ x.at = o.at /\ x.snap = NONE
         /\ o.snap.payload \in w.safe
<1>1. o.snap.payload \in w.safe
  BY DEF Fit, Stores, Named
<1>2. o = Whole(o)
  BY DEF Fit, Fields
<1>3. x = Whole(x) /\ x.snap = NONE
      /\ x.at = o.at /\ x.payload = o.payload /\ x.context = o.context
      /\ x.token = o.token /\ x.seq = o.seq /\ x.saved = o.saved
      /\ x.browser = o.browser /\ x.ctx = o.ctx /\ x.savedCtx = o.savedCtx
      /\ x.mut = o.mut /\ x.pending = o.pending /\ x.deferred = o.deferred
      /\ x.adopted = o.adopted /\ x.paused = o.paused /\ x.invalid = o.invalid
      /\ x.conflict = o.conflict /\ x.timer = o.timer /\ x.sent = o.sent
      /\ x.answer = o.answer /\ x.obsolete = o.obsolete /\ x.choice = o.choice
      /\ x.heard = o.heard
  BY ONLY <1>2, x = [o EXCEPT !.snap = NONE], Zenon DEF Whole
<1>4. Fields(x) /\ Stores(x, w)
  BY <1>3 DEF Fit, Fields, Stores
<1>5. CASE Opened(o)
  <2>1. Good(x, w) /\ Scheduled(x)
    BY <1>1, <1>5, SnapDropped DEF Fit
  <2> QED
    BY <1>1, <1>3, <2>1, OpenedFit
<1>6. CASE ~Opened(o)
  <2>1. o = [New EXCEPT !.at = o.at, !.snap = o.snap]
    BY <1>6 DEF Fit, Blank
  <2>2. x = [New EXCEPT !.at = x.at, !.snap = x.snap]
    <3> PICK y : y = [New EXCEPT !.at = o.at, !.snap = NONE]
      OBVIOUS
    <3>1. New = Whole(New)
      BY NewFields
    <3>2. y = Whole(y) /\ y.snap = NONE /\ y.at = o.at
          /\ y.payload = New.payload /\ y.context = New.context /\ y.token = New.token
          /\ y.seq = New.seq /\ y.saved = New.saved /\ y.browser = New.browser
          /\ y.ctx = New.ctx /\ y.savedCtx = New.savedCtx /\ y.mut = New.mut
          /\ y.pending = New.pending /\ y.deferred = New.deferred
          /\ y.adopted = New.adopted /\ y.paused = New.paused /\ y.invalid = New.invalid
          /\ y.conflict = New.conflict /\ y.timer = New.timer /\ y.sent = New.sent
          /\ y.answer = New.answer /\ y.obsolete = New.obsolete /\ y.choice = New.choice
          /\ y.heard = New.heard
      BY ONLY <3>1, y = [New EXCEPT !.at = o.at, !.snap = NONE], Zenon DEF Whole
    <3>3. /\ o.payload = New.payload /\ o.context = New.context /\ o.token = New.token
          /\ o.seq = New.seq /\ o.saved = New.saved /\ o.browser = New.browser
          /\ o.ctx = New.ctx /\ o.savedCtx = New.savedCtx /\ o.mut = New.mut
          /\ o.pending = New.pending /\ o.deferred = New.deferred
          /\ o.adopted = New.adopted /\ o.paused = New.paused /\ o.invalid = New.invalid
          /\ o.conflict = New.conflict /\ o.timer = New.timer /\ o.sent = New.sent
          /\ o.answer = New.answer /\ o.obsolete = New.obsolete /\ o.choice = New.choice
          /\ o.heard = New.heard
      BY ONLY <2>1, <3>1, Zenon DEF Whole
    <3>4. x = y
      BY ONLY <1>3, <3>2, <3>3 DEF Whole
    <3> QED
      BY <1>3, <3>2, <3>4
  <2> QED
    BY <1>1, <1>3, <1>4, <1>6, <2>2 DEF Fit, Opened, Blank
<1> QED
  BY <1>5, <1>6

LEMMA HeardFit ==
  ASSUME NEW w, NEW o, Fit(o, w), Opened(o), NEW n \in Nat,
         NEW x, x = [o EXCEPT !.heard = @ \cup {n}]
  PROVE  Fit(x, w) /\ x.payload = o.payload /\ x.at = o.at /\ x.snap = o.snap
<1>1. PICK h \in SUBSET Nat : h = o.heard \cup {n}
  BY DEF Fit, Fields
<1>2. o = Whole(o)
  BY DEF Fit, Fields
<1>3. x = [o EXCEPT !.heard = h]
  BY <1>1, <1>2 DEF Whole
<1>4. x.payload = o.payload /\ x.at = o.at /\ x.snap = o.snap
  BY ONLY <1>2, <1>3, Zenon DEF Whole
<1>5. Good(x, w) /\ Scheduled(x)
  BY <1>3, HeardGood DEF Fit
<1> QED
  BY <1>4, <1>5, OpenedFit

\* The world while the pages change: their old snapshots still count.
Mid == [log |-> log', from |-> from', safe |-> Safe', stowed |-> Stowed \cup Safe',
        edits |-> edits']

\* One page, after p became pg and removed went.
LEMMA BesideFit ==
  ASSUME NEW h, Sane(h), NEW p \in Page, NEW pg, NEW removed, Becomes(p, pg, removed),
         \A q \in Page : Fit(page[q], h), Fit(pg, h), \A d \in removed : d[2][1] \in h.safe,
         NEW q \in Page, NEW old, old = IF q = p THEN pg ELSE page[q]
  PROVE  /\ Fit(page'[q], h)
         /\ page'[q].payload = old.payload /\ page'[q].at = old.at
         /\ \/ page'[q].snap = old.snap
            \/ old.snap # NONE /\ old.snap.payload \in h.safe
<1>1. Fit(old, h)
  OBVIOUS
<1>2. PICK kept : kept = IF old.snap # NONE /\ <<q, old.snap.mut>> \in removed
                           THEN [old EXCEPT !.snap = NONE] ELSE old
  BY ONLY Zenon
<1>3. page'[q] = IF q # p /\ Open(q) /\ pg.snap \notin {NONE, page[p].snap}
                   THEN [kept EXCEPT !.heard = @ \cup {pg.snap.payload}] ELSE kept
  BY <1>2 DEF Becomes
<1>4. /\ Fit(kept, h) /\ kept.payload = old.payload /\ kept.at = old.at
      /\ \/ kept.snap = old.snap
         \/ old.snap # NONE /\ old.snap.payload \in h.safe
  <2>1. CASE old.snap # NONE /\ <<q, old.snap.mut>> \in removed
    <3>1. old.snap.mut[1] \in h.safe
      <4>1. PICK d \in removed : d = <<q, old.snap.mut>>
        BY <2>1
      <4> QED
        BY <4>1
    <3>2. kept = [old EXCEPT !.snap = NONE]
      BY <1>2, <2>1
    <3> QED
      BY <1>1, <2>1, <3>1, <3>2, RemovedFit
  <2>2. CASE ~(old.snap # NONE /\ <<q, old.snap.mut>> \in removed)
    BY <1>1, <1>2, <2>2
  <2> QED
    BY <2>1, <2>2
<1>5. CASE q # p /\ Open(q) /\ pg.snap \notin {NONE, page[p].snap}
  <2>1. Opened(kept)
    BY <1>4, <1>5 DEF Open, Opened
  <2>2. pg.snap.payload \in Nat
    BY <1>5 DEF Fit, Fields, Snapshot
  <2>3. PICK x : x = [kept EXCEPT !.heard = @ \cup {pg.snap.payload}]
    OBVIOUS
  <2>4. Fit(x, h) /\ x.payload = kept.payload /\ x.at = kept.at /\ x.snap = kept.snap
    BY <1>4, <2>1, <2>2, <2>3, HeardFit
  <2>5. page'[q] = x
    BY <1>3, <1>5, <2>3
  <2> QED
    BY <1>4, <2>4, <2>5
<1>6. CASE ~(q # p /\ Open(q) /\ pg.snap \notin {NONE, page[p].snap})
  BY <1>3, <1>4, <1>6
<1> QED
  BY <1>5, <1>6

LEMMA BecomesKeeps ==
  ASSUME AutosaveInv, bound' = bound, owed' \subseteq 0..edits', edits' <= bound.edits,
         from' \in [0..bound.edits -> SUBSET Nat],
         NEW h, h = Mid, Sane(h), Grows(World, h), \A r \in late' : Sound(r, h),
         NEW p \in Page, NEW pg, NEW removed, Becomes(p, pg, removed),
         Fit(pg, h), \A d \in removed : d[2][1] \in h.safe,
         PassesSnap(page[p], pg, h),
         Open(p) => \/ page[p].payload \in h.stowed
                    \/ Opened(pg) /\ pg.payload = page[p].payload
                    \/ pg.snap # NONE /\ pg.snap.payload = page[p].payload,
         \A n \in owed' : n \in owed \/ (Opened(pg) /\ n = pg.payload)
  PROVE  AutosaveInv'
<1> PICK w : w = World
  OBVIOUS
<1> PICK x : x = World'
  OBVIOUS
<1>1. /\ Sane(w) /\ Grows(w, h) /\ \A q \in Page : Fit(page[q], w)
      /\ w.stowed = Stowed
  BY DEF AutosaveInv, World
<1>2. /\ h.log = log' /\ h.from = from' /\ h.safe = Safe' /\ h.stowed = Stowed \cup Safe'
      /\ h.edits = edits'
  BY DEF Mid
<1>3. /\ x.log = log' /\ x.from = from' /\ x.safe = Safe' /\ x.stowed = Stowed'
      /\ x.edits = edits'
  BY DEF World
<1>4. \A q \in Page : Fit(page[q], h)
  BY <1>1, FitGrows
<1>5. Page' = Page /\ page' = [q \in Page |-> page'[q]]
  BY DEF Page, Becomes
\* What was in the storage is there still, or safe.
<1>6. ASSUME NEW q \in Page
      PROVE  LET old == IF q = p THEN pg ELSE page[q]
             IN  /\ Fit(page'[q], h)
                 /\ page'[q].payload = old.payload /\ page'[q].at = old.at
                 /\ \/ page'[q].snap = old.snap
                    \/ old.snap # NONE /\ old.snap.payload \in h.safe
  BY <1>4, BesideFit
<1>7. ASSUME NEW q \in Page, page[q].snap # NONE
      PROVE  \/ page[q].snap.payload \in Safe'
             \/ page'[q].snap # NONE /\ page'[q].snap.payload = page[q].snap.payload
  BY <1>2, <1>6, <1>7 DEF PassesSnap
<1>8. Stowed \subseteq Stowed' /\ Safe' \subseteq Stowed'
  <2>1. Safe' \subseteq Stowed'
    BY DEF Stowed
  <2>2. Safe \subseteq Safe'
    BY <1>1, <1>2 DEF Grows, World
  <2>3. ASSUME NEW q \in Page, page[q].snap # NONE
        PROVE  page[q].snap.payload \in Stowed'
    <3>1. CASE page[q].snap.payload \in Safe'
      BY <2>1, <3>1
    <3>2. CASE page'[q].snap # NONE /\ page'[q].snap.payload = page[q].snap.payload
      BY <1>5, <3>2 DEF Stowed, Stored
    <3> QED
      BY <1>7, <2>3, <3>1, <3>2
  <2> QED
    BY <2>1, <2>2, <2>3 DEF Stowed, Stored
<1>9. Sane(x) /\ Grows(h, x)
  <2>1. h.stowed \subseteq x.stowed
    BY <1>2, <1>3, <1>8
  <2>2. Sane(x)
    BY <1>2, <1>3, <2>1 DEF Sane, Follows, Descends
  <2>3. Grows(h, h)
    BY SameGrows
  <2> QED
    BY <1>2, <1>3, <2>1, <2>2, <2>3 DEF Grows
<1>10. \A q \in Page : Fit(page'[q], x)
  BY <1>6, <1>9, FitGrows
<1>11. \A r \in late' : Sound(r, x)
  BY <1>9, SoundGrows
<1>12. NothingLost'
  <2> SUFFICES ASSUME NEW n \in owed'
               PROVE  \/ \E v \in DOMAIN log' : log'[v].payload = n
                      \/ \E q \in Page : Open(q)' /\ page'[q].payload = n
                      \/ \E q \in Page : page'[q].snap # NONE /\ page'[q].snap.payload = n
    BY <1>5 DEF NothingLost, Snapshots, Stored
  \* What the storage holds is saved, or is in the storage still.
  <2>1. ASSUME n \in h.stowed
        PROVE  \/ \E v \in DOMAIN log' : log'[v].payload = n
               \/ \E q \in Page : page'[q].snap # NONE /\ page'[q].snap.payload = n
    <3>1. n \in Stowed'
      BY <1>2, <1>8, <2>1
    <3>2. n \in Safe' \/ \E q \in Page : page'[q].snap # NONE /\ page'[q].snap.payload = n
      BY <1>5, <3>1 DEF Stowed, Stored
    <3>3. n \in Safe' => \E v \in DOMAIN log' : log'[v].payload = n
      BY DEF Safe
    <3> QED
      BY <3>2, <3>3
  <2>2. CASE Opened(pg) /\ n = pg.payload
    BY <1>6, <2>2 DEF Open, Opened
  <2>3. CASE n \in owed
    <3>1. \/ \E v \in DOMAIN log : log[v].payload = n
          \/ \E q \in Page : Open(q) /\ page[q].payload = n
          \/ \E q \in Page : page[q].snap # NONE /\ page[q].snap.payload = n
      BY <2>3 DEF AutosaveInv, NothingLost, Snapshots, Stored
    <3>2. CASE \E v \in DOMAIN log : log[v].payload = n
      BY <1>1, <1>2, <3>2 DEF Grows, World, Sane
    <3>3. ASSUME NEW q \in Page, Open(q), page[q].payload = n
          PROVE  \/ \E v \in DOMAIN log' : log'[v].payload = n
                 \/ \E u \in Page : Open(u)' /\ page'[u].payload = n
                 \/ \E u \in Page : page'[u].snap # NONE /\ page'[u].snap.payload = n
      <4>1. CASE q # p
        BY <1>6, <3>3, <4>1 DEF Open
      <4>2. CASE q = p /\ n \in h.stowed
        BY <2>1, <4>2
      <4>3. CASE q = p /\ Opened(pg) /\ pg.payload = n
        BY <1>6, <4>3 DEF Open, Opened
      <4>4. CASE q = p /\ pg.snap # NONE /\ pg.snap.payload = n
        <5>1. \/ page'[p].snap = pg.snap
              \/ n \in h.safe
          BY <1>6, <4>4
        <5>2. n \in h.safe => n \in h.stowed
          BY <1>2
        <5> QED
          BY <2>1, <4>4, <5>1, <5>2
      <4> QED
        BY <3>3, <4>1, <4>2, <4>3, <4>4
    <3>4. ASSUME NEW q \in Page, page[q].snap # NONE, page[q].snap.payload = n
          PROVE  \/ \E v \in DOMAIN log' : log'[v].payload = n
                 \/ \E u \in Page : page'[u].snap # NONE /\ page'[u].snap.payload = n
      BY <1>2, <1>7, <2>1, <3>4
    <3> QED
      BY <3>1, <3>2, <3>3, <3>4
  <2> QED
    BY <2>2, <2>3
<1>13. /\ bound' \in Bounds /\ owed' \subseteq 0..edits' /\ edits' <= bound'.edits
       /\ from' \in [0..bound'.edits -> SUBSET Nat]
  BY DEF AutosaveInv
<1> QED
  BY <1>3, <1>5, <1>9, <1>10, <1>11, <1>12, <1>13 DEF AutosaveInv

LEMMA MidSane ==
  ASSUME AutosaveInv, edits' \in Nat, edits <= edits',
         \A n \in 0..edits : from'[n] = from[n], \A n \in owed' : n \in owed \/ n > edits,
         NEW u,
         \/ log' = log
         \/ /\ u \in Versions /\ u.payload \in 0..edits' /\ log' = Append(log, u)
            /\ u.by # NONE => Follows(Len(log) + 1, Mid)
  PROVE  /\ Sane(Mid) /\ Grows(World, Mid)
         /\ Mid.log = log' /\ Mid.from = from' /\ Mid.safe = Safe'
         /\ Mid.stowed = Stowed \cup Safe' /\ Mid.edits = edits'
<1> PICK w, h : w = World /\ h = Mid
  OBVIOUS
<1>1. /\ w.log = log /\ w.from = from /\ w.safe = Safe /\ w.stowed = Stowed /\ w.edits = edits
      /\ h.log = log' /\ h.from = from' /\ h.safe = Safe' /\ h.stowed = Stowed \cup Safe'
      /\ h.edits = edits'
  BY DEF World, Mid
<1>2. Sane(w)
  BY DEF AutosaveInv
<1>3. log \in Seq(Versions) /\ edits \in Nat
  BY <1>1, <1>2 DEF Sane
<1>4. /\ log' \in Seq(Versions) /\ Len(log) <= Len(log')
      /\ \A v \in DOMAIN log : v \in DOMAIN log' /\ log'[v] = log[v]
      /\ \A v \in DOMAIN log' : v \in DOMAIN log \/ (v = Len(log) + 1 /\ log'[v] = u)
      /\ \A v \in DOMAIN log' : v \notin DOMAIN log =>
           u.payload \in 0..edits' /\ (u.by # NONE => Follows(v, h))
  <2>1. CASE log' = log
    BY <1>3, <2>1
  <2>2. CASE /\ u \in Versions /\ u.payload \in 0..edits' /\ log' = Append(log, u)
             /\ u.by # NONE => Follows(Len(log) + 1, h)
    BY <1>3, <2>2
  <2> QED
    BY <2>1, <2>2
<1>5. \A v \in DOMAIN log' : log'[v].payload \in Safe'
  <2> SUFFICES ASSUME NEW v \in DOMAIN log'
               PROVE  log'[v].payload \in 0..edits'
    BY DEF Safe
  <2>1. CASE v \in DOMAIN log
    BY <1>1, <1>2, <1>3, <1>4, <2>1 DEF Sane
  <2>2. CASE v \notin DOMAIN log
    BY <1>4, <2>2
  <2> QED
    BY <2>1, <2>2
<1>6. Safe \subseteq Safe' /\ Safe' \subseteq 0..edits'
  BY <1>3, <1>4 DEF Safe
<1>7. ASSUME NEW v \in DOMAIN log', log'[v].by # NONE
      PROVE  Follows(v, h)
  <2>1. CASE v \in DOMAIN log
    <3>1. Follows(v, w) /\ log'[v] = log[v] /\ v \in Nat \ {0}
      BY <1>1, <1>2, <1>3, <1>4, <1>7, <2>1 DEF Sane
    <3>2. v > 1 => v - 1 \in DOMAIN log /\ log'[v - 1] = log[v - 1]
      BY <1>3, <1>4, <2>1, <3>1
    <3>3. log[v].payload \in 0..edits
      BY <1>1, <1>2, <2>1 DEF Sane
    <3>4. from'[log[v].payload] = from[log[v].payload]
      BY <3>3
    <3> QED
      BY <1>1, <3>1, <3>2, <3>4 DEF Follows, Descends
  <2>2. CASE v \notin DOMAIN log
    BY <1>4, <1>7, <2>2
  <2> QED
    BY <2>1, <2>2
<1>8. Sane(h)
  BY <1>1, <1>4, <1>5, <1>6, <1>7 DEF Sane
<1>9. Grows(w, h)
  BY <1>1, <1>4, <1>6 DEF Grows
<1> QED
  BY <1>1, <1>8, <1>9

\* Nothing but the pages, and what is on its way to the server.
LEMMA CalmKeeps ==
  ASSUME AutosaveInv, UNCHANGED <<log, from, owed, edits, bound>>,
         NEW w, w = World, \A r \in late' : Sound(r, w),
         NEW p \in Page, NEW pg, NEW removed, Becomes(p, pg, removed),
         Good(pg, w), Scheduled(pg), PassesSnap(page[p], pg, w),
         Open(p) => Passes(page[p], pg, w),
         \A d \in removed : d[2][1] \in w.safe
  PROVE  AutosaveInv'
<1>1. Safe' = Safe /\ Safe \subseteq Stowed
  BY DEF Safe, Stowed
<1>2. Mid = w
  BY <1>1 DEF Mid, World
<1>3. Sane(w) /\ Grows(World, w)
  BY SameGrows DEF AutosaveInv
<1>4. /\ bound' = bound /\ owed' \subseteq 0..edits' /\ edits' <= bound.edits
      /\ from' \in [0..bound.edits -> SUBSET Nat]
  BY DEF AutosaveInv
<1>5. Fit(pg, w) /\ Opened(pg)
  BY OpenedFit
<1>6. w.safe \subseteq w.stowed
  BY <1>3 DEF Sane
<1>7. Open(p) => \/ page[p].payload \in w.stowed
                 \/ Opened(pg) /\ pg.payload = page[p].payload
  BY <1>5, <1>6 DEF Passes
<1> QED
  BY <1>2, <1>3, <1>4, <1>5, <1>7, BecomesKeeps

LEMMA OpenFacts ==
  ASSUME AutosaveInv, NEW p \in Page, page[p].at \notin {"new", "closed"}, NEW w, w = World
  PROVE  /\ Good(page[p], w) /\ Scheduled(page[p]) /\ Open(p) /\ Sane(w)
         /\ w.log = log /\ w.from = from /\ w.safe = Safe /\ w.stowed = Stowed /\ w.edits = edits
         /\ \A r \in late : Sound(r, w)
BY DEF AutosaveInv, Fit, Opened, Open, World

LEMMA ShutFacts ==
  ASSUME AutosaveInv, NEW p \in Page, page[p].at \in {"new", "closed"}
  PROVE  /\ ~page[p].timer /\ page[p].choice = NONE /\ page[p].snap \in Snapshot \cup {NONE}
         /\ page[p].at = "new" => page[p].snap = NONE
<1>1. page[p] = [New EXCEPT !.at = page[p].at, !.snap = page[p].snap] /\ Fields(page[p])
      /\ (page[p].at = "new" => page[p].snap = NONE)
  BY DEF AutosaveInv, Fit, Opened, Blank
<1>2. page[p].timer = New.timer /\ page[p].choice = New.choice
  <2>1. New = Whole(New)
    BY NewFields
  <2> QED
    BY ONLY <1>1, <2>1, Zenon DEF Whole
<1> QED
  BY <1>1, <1>2, NewFields DEF Fields

-----------------------------------------------------------------------------
(* The actions.                                                               *)

LEMMA TimerFiresKeeps ==
  ASSUME AutosaveInv, NEW p \in Page, TimerFires(p), UNCHANGED bound
  PROVE  AutosaveInv'
<1> PICK w : w = World
  OBVIOUS
<1> PICK o, x : o = page[p] /\ x = [o EXCEPT !.timer = FALSE]
  OBVIOUS
<1>1. o.at \notin {"new", "closed"}
  BY ShutFacts DEF TimerFires
<1>2. /\ Good(o, w) /\ Scheduled(o) /\ Open(p) /\ Sane(w) /\ \A r \in late : Sound(r, w)
  BY <1>1, OpenFacts
<1>3. Good(x, w) /\ Passes(o, x, w)
  <2>1. o = Whole(o)
    BY <1>2 DEF Good, Fair, Fields
  <2>2. x = Whole(x)
        /\ x.at = o.at /\ x.payload = o.payload /\ x.context = o.context
        /\ x.token = o.token /\ x.seq = o.seq /\ x.saved = o.saved
        /\ x.browser = o.browser /\ x.ctx = o.ctx /\ x.savedCtx = o.savedCtx
        /\ x.mut = o.mut /\ x.pending = o.pending /\ x.deferred = o.deferred
        /\ x.adopted = o.adopted /\ x.paused = o.paused /\ x.invalid = o.invalid
        /\ x.conflict = o.conflict /\ x.sent = o.sent /\ x.answer = o.answer
        /\ x.obsolete = o.obsolete /\ x.choice = o.choice /\ x.snap = o.snap
        /\ x.heard = o.heard
    BY ONLY <2>1, x = [o EXCEPT !.timer = FALSE], Zenon DEF Whole
  <2>3. Fields(x) /\ Content(x, o)
    BY <1>2, <2>2 DEF Good, Fair, Fields, Content
  <2>4. Choosing(x) \/ Shows(o, w)
    BY <1>2, <2>2 DEF Good, Fair, Choosing
  <2> QED
    BY <1>2, <2>3, <2>4, FlagsGood
<1>4. Good(flush(x), w) /\ Scheduled(flush(x)) /\ Passes(x, flush(x), w)
  BY <1>3, FlushGood
<1>5. Passes(o, flush(x), w)
  BY <1>3, <1>4, PassesOn
<1>7. PassesSnap(o, flush(x), w)
  BY <1>5 DEF Passes
<1>6. /\ Becomes(p, flush(x), {}) /\ UNCHANGED <<log, from, owed, edits, bound>> /\ late' = late
  BY DEF TimerFires
<1> QED
  BY <1>2, <1>4, <1>5, <1>6, <1>7, CalmKeeps

LEMMA RetryKeeps ==
  ASSUME AutosaveInv, NEW p \in Page, Retry(p), UNCHANGED bound
  PROVE  AutosaveInv'
<1> PICK w : w = World
  OBVIOUS
<1> PICK f : f = FALSE
  OBVIOUS
<1> PICK o, x : o = page[p] /\ x = [o EXCEPT !.paused = f, !.invalid = f, !.timer = f]
  OBVIOUS
<1>1. o.at \notin {"new", "closed"} /\ ~o.conflict
  BY DEF Retry, Open
<1>2. /\ Good(o, w) /\ Scheduled(o) /\ Open(p) /\ Sane(w) /\ \A r \in late : Sound(r, w)
  BY <1>1, OpenFacts
<1>3. Good(x, w) /\ Passes(o, x, w)
  <2>1. o = Whole(o)
    BY <1>2 DEF Good, Fair, Fields
  <2>2. x = Whole(x)
        /\ x.at = o.at /\ x.payload = o.payload /\ x.context = o.context
        /\ x.token = o.token /\ x.seq = o.seq /\ x.saved = o.saved
        /\ x.browser = o.browser /\ x.ctx = o.ctx /\ x.savedCtx = o.savedCtx
        /\ x.mut = o.mut /\ x.pending = o.pending /\ x.deferred = o.deferred
        /\ x.adopted = o.adopted /\ x.conflict = o.conflict /\ x.sent = o.sent
        /\ x.answer = o.answer /\ x.obsolete = o.obsolete /\ x.choice = o.choice
        /\ x.snap = o.snap /\ x.heard = o.heard
    BY ONLY <2>1, x = [o EXCEPT !.paused = f, !.invalid = f, !.timer = f], Zenon DEF Whole
  <2>3. Fields(x) /\ Content(x, o)
    BY <1>2, <2>2 DEF Good, Fair, Fields, Content
  <2>4. Shows(o, w)
    BY <1>1, <1>2 DEF Good, Fair, Choosing
  <2> QED
    BY <1>2, <2>3, <2>4, FlagsGood
<1>4. Good(flush(x), w) /\ Scheduled(flush(x)) /\ Passes(x, flush(x), w)
  BY <1>3, FlushGood
<1>5. Passes(o, flush(x), w)
  BY <1>3, <1>4, PassesOn
<1>7. PassesSnap(o, flush(x), w)
  BY <1>5 DEF Passes
<1>6. /\ Becomes(p, flush(x), {}) /\ UNCHANGED <<log, from, owed, edits, bound>> /\ late' = late
  BY DEF Retry
<1> QED
  BY <1>2, <1>4, <1>5, <1>6, <1>7, CalmKeeps

LEMMA HealthyKeeps ==
  ASSUME AutosaveInv, NEW p \in Page, Healthy(p), UNCHANGED bound
  PROVE  AutosaveInv'
<1> PICK w : w = World
  OBVIOUS
<1> PICK o : o = page[p]
  OBVIOUS
<1>1. o.at = "health"
  BY DEF Healthy
<1>2. /\ Good(o, w) /\ Open(p) /\ Sane(w) /\ w.log = log /\ \A r \in late : Sound(r, w)
  BY <1>1, OpenFacts
<1> PICK x : x = IF o.obsolete THEN Finished(o, FALSE) ELSE Dispatched(p, o)
  OBVIOUS
<1>3. Good(x, w) /\ Scheduled(x) /\ Passes(o, x, w)
  <2>1. CASE o.obsolete
    BY <1>2, <2>1, ObsoleteGood
  <2>2. CASE ~o.obsolete
    BY <1>1, <1>2, <2>2, DispatchedGood DEF Page
  <2> QED
    BY <2>1, <2>2
<1>4. PassesSnap(o, x, w)
  BY <1>3 DEF Passes
<1>5. /\ Becomes(p, x, {}) /\ UNCHANGED <<log, from, owed, edits, bound>> /\ late' = late
  BY DEF Healthy
<1> QED
  BY ONLY AutosaveInv, w = World, o = page[p], <1>2, <1>3, <1>4, <1>5, CalmKeeps

LEMMA BusyKeeps ==
  ASSUME AutosaveInv, NEW p \in Page, Busy(p), UNCHANGED bound
  PROVE  AutosaveInv'
<1> PICK w : w = World
  OBVIOUS
<1> PICK o, x : o = page[p] /\ x = Answered(o, 409)
  OBVIOUS
<1>1. o.at = "sent"
  BY DEF Busy
<1>2. /\ Good(o, w) /\ Open(p) /\ Sane(w) /\ \A r \in late : Sound(r, w)
  BY <1>1, OpenFacts
<1>3. Good(x, w) /\ Scheduled(x) /\ Passes(o, x, w)
  BY <1>1, <1>2, AnswerGood
<1>4. PassesSnap(o, x, w)
  BY <1>3 DEF Passes
<1>5. /\ Becomes(p, x, {}) /\ UNCHANGED <<log, from, owed, edits, bound>> /\ late' = late
  BY DEF Busy, Answered
<1> QED
  BY <1>2, <1>3, <1>4, <1>5, CalmKeeps

LEMMA ReceiveKeeps ==
  ASSUME AutosaveInv, NEW p \in Page, Receive(p), UNCHANGED bound
  PROVE  AutosaveInv'
<1> PICK w : w = World
  OBVIOUS
<1> PICK o : o = page[p]
  OBVIOUS
<1>1. o.at = "sent" /\ o.answer # NONE
  BY DEF Receive
<1>2. /\ Good(o, w) /\ Open(p) /\ Sane(w) /\ w.log = log /\ \A r \in late : Sound(r, w)
  BY <1>1, OpenFacts
<1>3. UNCHANGED <<log, from, owed, edits, bound>> /\ late' = late
  BY DEF Receive
\* In each case the page becomes a good one, and what is removed is safe.
<1>4. PICK x, removed : /\ Becomes(p, x, removed)
                        /\ Good(x, w) /\ Scheduled(x) /\ Passes(o, x, w)
                        /\ \A d \in removed : d[2][1] \in w.safe
  <2>1. CASE o.obsolete /\ Becomes(p, Finished(o, FALSE), {})
    <3> PICK x : x = Finished(o, FALSE)
      BY ONLY Zenon
    <3>1. Good(x, w) /\ Scheduled(x) /\ Passes(o, x, w)
      BY <1>2, <2>1, ObsoleteGood
    <3>2. Becomes(p, x, {})
      BY <2>1
    <3> QED
      BY ONLY <3>1, <3>2
  <2>2. CASE ~o.obsolete /\ o.answer = 200 /\ Acknowledged(p)
    <3>1. Becomes(p, AfterSaved(page[p]), NoLonger(page[p]))
      BY ONLY <2>2, Zenon DEF Acknowledged, AfterSaved, NoLonger, Settled
    <3> QED
      BY <1>1, <1>2, <2>2, <3>1, AcknowledgedGood
  <2>3. CASE /\ ~o.obsolete /\ Refreshing(o)
             /\ Becomes(p, [o EXCEPT !.at = "refresh", !.pending = NONE,
                                     !.sent = NONE, !.answer = NONE], {})
    <3>1. Becomes(p, Asking(o), {}) /\ o.sent.change = "context"
      BY <2>3 DEF Asking, Refreshing
    <3> QED
      BY <1>1, <1>2, <2>3, <3>1, AskingGood
  <2>4. CASE /\ ~o.obsolete /\ o.answer = 409 /\ ~Refreshing(o)
             /\ Becomes(p, Refused(o), {})
    BY <1>1, <1>2, <2>4, RefusedGood DEF active
  <2>5. CASE /\ ~o.obsolete /\ o.answer = 422
             /\ Becomes(p, Finished([o EXCEPT !.pending = NONE,
                             !.paused = TRUE, !.invalid = TRUE, !.conflict = FALSE], FALSE), {})
    <3>1. Becomes(p, Finished(Rejected(o), FALSE), {})
      BY <2>5 DEF Rejected
    <3> PICK x : x = Finished(Rejected(o), FALSE)
      BY ONLY Zenon
    <3>2. Good(x, w) /\ Scheduled(x) /\ Passes(o, x, w)
      BY <1>1, <1>2, RejectedGood
    <3>3. Becomes(p, x, {})
      BY <3>1
    <3> QED
      BY ONLY <3>2, <3>3
  <2> QED
    BY <2>1, <2>2, <2>3, <2>4, <2>5 DEF Receive
<1>5. PassesSnap(o, x, w)
  BY <1>4 DEF Passes
<1> QED
  BY <1>2, <1>3, <1>4, <1>5, CalmKeeps

LEMMA RefreshedKeeps ==
  ASSUME AutosaveInv, NEW p \in Page, Refreshed(p), UNCHANGED bound
  PROVE  AutosaveInv'
<1> PICK w : w = World
  OBVIOUS
<1> PICK o, x : o = page[p] /\ x = AfterRefresh(o)
  OBVIOUS
<1>1. o.at = "refresh"
  BY DEF Refreshed
<1>2. /\ Good(o, w) /\ Open(p) /\ Sane(w) /\ w.log = log /\ \A r \in late : Sound(r, w)
  BY <1>1, OpenFacts
<1>3. Good(x, w) /\ Scheduled(x) /\ Passes(o, x, w)
  BY <1>1, <1>2, RefreshedGood
<1>4. PassesSnap(o, x, w)
  BY <1>3 DEF Passes
<1>5. /\ Becomes(p, x, {}) /\ UNCHANGED <<log, from, owed, edits, bound>> /\ late' = late
  BY DEF Refreshed, AfterRefresh
<1> QED
  BY <1>2, <1>3, <1>4, <1>5, CalmKeeps

LEMMA LostKeeps ==
  ASSUME AutosaveInv, NEW p \in Page, Lost(p), UNCHANGED bound
  PROVE  AutosaveInv'
<1> PICK w : w = World
  OBVIOUS
<1> PICK o, x : o = page[p] /\ x = CallFailed(o)
  OBVIOUS
<1>1. o.at \notin {"new", "closed"} /\ active(o)
  BY DEF Lost, Open, active
<1>2. /\ Good(o, w) /\ Open(p) /\ Sane(w) /\ w.log = log /\ \A r \in late : Sound(r, w)
  BY <1>1, OpenFacts
<1>3. Good(x, w) /\ Scheduled(x) /\ Passes(o, x, w)
  BY <1>1, <1>2, CallFailedGood
<1>4. PassesSnap(o, x, w)
  BY <1>3 DEF Passes
<1>5. \A r \in late' : Sound(r, w)
  <2>1. o.sent # NONE => Sound(o.sent, w)
    BY <1>2 DEF Good, Fair, Talks
  <2> QED
    BY <1>2, <2>1 DEF Lost
<1>6. /\ Becomes(p, x, {}) /\ UNCHANGED <<log, from, owed, edits, bound>>
  BY DEF Lost
<1> QED
  BY <1>2, <1>3, <1>4, <1>5, <1>6, CalmKeeps

LEMMA EventKeeps ==
  ASSUME AutosaveInv, NEW p \in Page, Event(p), UNCHANGED bound
  PROVE  AutosaveInv'
<1> PICK w : w = World
  OBVIOUS
<1> PICK v \in DOMAIN log : Becomes(p, reconcile(page[p], v), {})
  BY DEF Event
<1> PICK o, x : o = page[p] /\ x = reconcile(o, v)
  OBVIOUS
<1>1. o.at \notin {"new", "closed"}
  BY DEF Event, Open
<1>2. /\ Good(o, w) /\ Scheduled(o) /\ Open(p) /\ Sane(w) /\ w.log = log
      /\ \A r \in late : Sound(r, w)
  BY <1>1, OpenFacts
<1>3. Good(x, w) /\ Scheduled(x) /\ Passes(o, x, w)
  BY <1>2, ReconcileGood
<1>4. PassesSnap(o, x, w)
  BY <1>3 DEF Passes
<1>5. /\ Becomes(p, x, {}) /\ UNCHANGED <<log, from, owed, edits, bound>> /\ late' = late
  BY DEF Event
<1> QED
  BY <1>2, <1>3, <1>4, <1>5, CalmKeeps

LEMMA NoticeKeeps ==
  ASSUME AutosaveInv, NEW p \in Page, Notice(p), UNCHANGED bound
  PROVE  AutosaveInv'
<1> PICK w : w = World
  OBVIOUS
<1> PICK o : o = page[p]
  OBVIOUS
<1> PICK n \in o.heard :
      LET pg == [o EXCEPT !.heard = @ \ {n}]
      IN  Becomes(p, IF n = pg.payload \/ pg.conflict THEN pg ELSE enterConflict(pg), {})
  BY DEF Notice
<1>1. o.at \notin {"new", "closed"}
  BY DEF Notice, Open
<1>2. /\ Good(o, w) /\ Scheduled(o) /\ Open(p) /\ Sane(w) /\ \A r \in late : Sound(r, w)
  BY <1>1, OpenFacts
<1>3. PICK h \in SUBSET Nat : h = o.heard \ {n}
  BY <1>2 DEF Good, Fair, Fields
<1> PICK y : y = [o EXCEPT !.heard = h]
  OBVIOUS
<1>4. y = [o EXCEPT !.heard = @ \ {n}]
  BY <1>3
<1>5. /\ Good(y, w) /\ Passes(o, y, w) /\ Scheduled(y)
  BY <1>2, HeardGood
<1> PICK x : x = IF n = y.payload \/ y.conflict THEN y ELSE enterConflict(y)
  BY ONLY Zenon
<1>6. Good(x, w) /\ Scheduled(x) /\ Passes(y, x, w)
  <2>1. CASE x = y
    BY <1>5, <2>1 DEF Passes, PassesSnap
  <2>2. CASE x = enterConflict(y)
    BY <1>2, <1>5, <2>2, EnterGood DEF Scheduled, Held
  <2> QED
    BY <2>1, <2>2
<1>7. Passes(o, x, w)
  BY <1>5, <1>6, PassesOn
<1>9. PassesSnap(o, x, w)
  BY <1>7 DEF Passes
<1>8. /\ Becomes(p, x, {}) /\ UNCHANGED <<log, from, owed, edits, bound>> /\ late' = late
  BY <1>4 DEF Notice
<1> QED
  BY <1>2, <1>6, <1>7, <1>8, <1>9, CalmKeeps

LEMMA KeptKeeps ==
  ASSUME AutosaveInv, NEW p \in Page, Kept(p), UNCHANGED bound
  PROVE  AutosaveInv'
<1> PICK w : w = World
  OBVIOUS
<1> PICK o : o = page[p]
  OBVIOUS
<1>1. o.at \notin {"new", "closed"}
  BY ShutFacts DEF Kept
<1>2. /\ Good(o, w) /\ Open(p) /\ Sane(w) /\ \A r \in late : Sound(r, w)
  BY <1>1, OpenFacts
<1>3. PICK x : /\ Becomes(p, x, {})
               /\ Good(x, w) /\ Scheduled(x) /\ Passes(o, x, w)
  <2>1. CASE Becomes(p, Released(o), {})
    BY <1>2, <2>1, ReleasedGood
  <2>2. CASE Becomes(p, Released(enterConflict(o)), {})
    <3>1. Good(enterConflict(o), w) /\ Passes(o, enterConflict(o), w)
      BY <1>2, EnterGood
    <3> QED
      BY <2>2, <3>1, ReleasedGood, PassesOn
  <2> QED
    BY <2>1, <2>2 DEF Kept
<1>4. PassesSnap(o, x, w)
  BY <1>3 DEF Passes
<1>5. UNCHANGED <<log, from, owed, edits, bound>> /\ late' = late
  BY DEF Kept
<1> QED
  BY <1>2, <1>3, <1>4, <1>5, CalmKeeps

\* What may be chosen has an id that was drawn for it.
LEMMA CopiesNamed ==
  ASSUME AutosaveInv, NEW w, w = World, NEW p \in Page, Good(page[p], w), NEW c \in Copies(p)
  PROVE  /\ c \in [who : Nat, mut : Mutation, payload : Nat]
         /\ Named(c.mut, c.payload, w) /\ c.payload <= w.edits
<1>1. ASSUME NEW q \in Stored,
             c = [who |-> q, mut |-> page[q].snap.mut, payload |-> page[q].snap.payload]
      PROVE  /\ c \in [who : Nat, mut : Mutation, payload : Nat]
             /\ Named(c.mut, c.payload, w) /\ c.payload <= w.edits
  <2>1. q \in Nat /\ page[q].snap # NONE /\ Fields(page[q]) /\ Stores(page[q], w)
    BY DEF AutosaveInv, Fit, Stored, Page
  <2>2. page[q].snap.mut \in Mutation /\ page[q].snap.payload \in Nat
    BY <2>1 DEF Fields, Snapshot
  <2> QED
    BY <1>1, <2>1, <2>2 DEF Stores
<1>2. ASSUME Dirty(page[p]), c = [who |-> p, mut |-> page[p].mut, payload |-> page[p].payload]
      PROVE  /\ c \in [who : Nat, mut : Mutation, payload : Nat]
             /\ Named(c.mut, c.payload, w) /\ c.payload <= w.edits
  <2>1. /\ page[p].mut # NONE /\ page[p].mut \in Mutation /\ page[p].payload \in Nat
        /\ Named(page[p].mut, page[p].payload, w) /\ page[p].payload <= w.edits
    BY <1>2 DEF Good, Fair, Identified, Fields, Counts
  <2> QED
    BY <1>2, <2>1 DEF Page
<1> QED
  BY <1>1, <1>2 DEF Copies

LEMMA ChooseKeeps ==
  ASSUME AutosaveInv, NEW p \in Page, Choose(p), UNCHANGED bound
  PROVE  AutosaveInv'
<1> PICK w : w = World
  OBVIOUS
<1> PICK o : o = page[p]
  OBVIOUS
<1>1. o.at \notin {"new", "closed"}
  BY DEF Choose, Open
<1>2. /\ Good(o, w) /\ Open(p) /\ Sane(w) /\ \A r \in late : Sound(r, w)
  BY <1>1, OpenFacts
<1>3. PICK kind \in {"fork", "load", "command"}, copies \in SUBSET Copies(p) :
        /\ kind = "command" => o.token # 0
        /\ Becomes(p, [o EXCEPT !.choice =
             [kind |-> kind, copies |-> copies, seq |-> o.seq, ctx |-> o.ctx, token |-> o.token]], {})
  BY DEF Choose
<1> PICK c : c = [kind |-> kind, copies |-> copies, seq |-> o.seq, ctx |-> o.ctx, token |-> o.token]
  OBVIOUS
<1>4. c \in Chosen /\ c # NONE /\ c.copies = copies
  <2>1. copies \in SUBSET [who : Nat, mut : Mutation, payload : Nat]
    BY <1>2, CopiesNamed
  <2>2. o.seq \in Nat /\ o.ctx \in Nat /\ o.token \in Nat
    BY <1>2 DEF Good, Fair, Fields
  <2>3. c \in Chosen
    BY <2>1, <2>2 DEF Chosen
  <2> QED
    BY <2>3, NoneAssumption
<1>5. /\ c.kind = "command" => c.token # 0
      /\ \A d \in c.copies : Named(d.mut, d.payload, w) /\ d.payload <= w.edits
  BY <1>2, <1>3, <1>4, CopiesNamed
<1> PICK x : x = [o EXCEPT !.choice = c]
  OBVIOUS
<1>6. Good(x, w) /\ Passes(o, x, w) /\ Scheduled(x)
  BY <1>2, <1>4, <1>5, ChoiceGood
<1>7. PassesSnap(o, x, w)
  BY <1>6 DEF Passes
<1>8. /\ Becomes(p, x, {}) /\ UNCHANGED <<log, from, owed, edits, bound>> /\ late' = late
  BY <1>3 DEF Choose
<1> QED
  BY <1>2, <1>6, <1>7, <1>8, CalmKeeps

-----------------------------------------------------------------------------
(* The server                                                                 *)

LEMMA WrittenSound ==
  ASSUME AutosaveInv, UNCHANGED <<from, owed, edits>>, NEW r, Sound(r, World), log' = Written(r)
  PROVE  /\ Sane(Mid) /\ Grows(World, Mid)
         /\ Mid.log = log' /\ Mid.from = from' /\ Mid.safe = Safe'
         /\ Mid.stowed = Stowed \cup Safe' /\ Mid.edits = edits'
         /\ Answer(r) = 200 => \E v \in DOMAIN log' : log'[v].by = r
<1>1. log \in Seq(Versions) /\ edits \in Nat /\ \A v \in DOMAIN log : log[v].payload \in 0..edits
  BY DEF AutosaveInv, Sane, World
<1>2. /\ r \in Requests /\ r.expected \in Nat /\ r.expected <= Len(log) /\ r.context \in Nat
      /\ r.change = "content" => r.payload \in 0..edits /\ Based(r.payload, r.expected, World)
      /\ r.change = "context" => r.expected # 0
      /\ r.change \in {"content", "context"}
  BY DEF Sound, World, Requests
<1>3. CASE Answer(r) = 200 /\ Receipt(r) = {}
  <2>1. r.expected = Len(log)
    BY <1>3 DEF Answer
  <2> PICK n : n = IF r.change = "content" THEN r.payload ELSE log[r.expected].payload
    OBVIOUS
  <2>2. n \in 0..edits
    BY <1>1, <1>2
  <2> PICK u : u = Version(n, r.context, r)
    OBVIOUS
  <2>3. log' = Append(log, u)
    BY <1>3 DEF Written
  <2>4. u.payload = n /\ u.context = r.context /\ u.by = r
    BY DEF Version
  <2>5. u \in Versions
    BY <1>1, <1>2, <2>2 DEF Version, Versions
  <2>6. /\ log'[Len(log) + 1] = u /\ Len(log) + 1 \in DOMAIN log' /\ Len(log) \in Nat
        /\ Len(log) # 0 => log'[Len(log)] = log[Len(log)]
    BY <1>1, <2>3, <2>5
  <2>7. Follows(Len(log) + 1, Mid)
    <3>1. Mid.log = log' /\ Mid.from = from
      BY DEF Mid
    <3>2. Len(log) + 1 > 1 => Len(log) # 0 /\ Len(log) + 1 - 1 = Len(log)
      BY <2>6
    <3>3. r.change = "content" /\ Len(log) # 0 => Descends(r.payload, log[Len(log)].payload, World)
      BY <1>2, <2>1 DEF Based, World
    <3>4. r.change = "content" /\ Len(log) # 0 => Descends(r.payload, log[Len(log)].payload, Mid)
      BY <3>1, <3>3 DEF Descends, World
    <3>5. r.change = "context" => Len(log) + 1 > 1 /\ n = log[Len(log)].payload
      BY <1>2, <2>1, <2>6
    <3>6. r.change = "content" => n = r.payload
      OBVIOUS
    <3> QED
      BY <2>1, <2>4, <2>6, <3>1, <3>2, <3>4, <3>5, <3>6 DEF Follows
  <2>8. /\ Sane(Mid) /\ Grows(World, Mid)
        /\ Mid.log = log' /\ Mid.from = from' /\ Mid.safe = Safe'
        /\ Mid.stowed = Stowed \cup Safe' /\ Mid.edits = edits'
    BY <1>1, <2>2, <2>3, <2>4, <2>5, <2>7, MidSane
  <2> QED
    BY <2>4, <2>6, <2>8
<1>4. CASE ~(Answer(r) = 200 /\ Receipt(r) = {})
  <2>1. log' = log
    BY <1>4 DEF Written
  <2>2. /\ Sane(Mid) /\ Grows(World, Mid)
        /\ Mid.log = log' /\ Mid.from = from' /\ Mid.safe = Safe'
        /\ Mid.stowed = Stowed \cup Safe' /\ Mid.edits = edits'
    BY <1>1, <2>1, MidSane
  <2>3. Answer(r) = 200 => \E v \in DOMAIN log' : log'[v].by = r
    BY <1>4, <2>1 DEF Receipt
  <2> QED
    BY <2>2, <2>3
<1> QED
  BY <1>3, <1>4

LEMMA ServeKeeps ==
  ASSUME AutosaveInv, NEW p \in Page, Serve(p), UNCHANGED bound
  PROVE  AutosaveInv'
<1> PICK w, h : w = World /\ h = Mid
  OBVIOUS
<1> PICK o : o = page[p]
  OBVIOUS
<1>1. o.at = "sent"
  BY DEF Serve
<1>2. /\ Good(o, w) /\ Open(p) /\ Sane(w) /\ \A r \in late : Sound(r, w)
  BY <1>1, OpenFacts
<1>3. Sound(o.sent, w) /\ log' = Written(o.sent) /\ UNCHANGED <<from, owed, edits>>
  BY <1>1, <1>2 DEF Serve, Good, Fair, Talks
<1>4. /\ Sane(h) /\ Grows(w, h) /\ h.log = log'
      /\ h.safe \subseteq h.stowed
      /\ Answer(o.sent) = 200 => \E v \in DOMAIN log' : log'[v].by = o.sent
  BY <1>3, WrittenSound DEF Sane
<1>5. Good(o, h)
  BY <1>2, <1>4, GoodGrows
<1> PICK c : c = Answer(o.sent)
  OBVIOUS
<1>6. c \in {200, 409, 422}
  BY DEF Answer
<1> PICK x : x = Answered(o, c)
  OBVIOUS
<1>7. Good(x, h) /\ Scheduled(x) /\ Passes(o, x, h)
  BY <1>1, <1>4, <1>5, <1>6, AnswerGood
<1>8. Fit(x, h) /\ Opened(x) /\ PassesSnap(o, x, h)
  BY <1>7, OpenedFit DEF Passes
<1>9. o.payload \in h.stowed \/ (Opened(x) /\ x.payload = o.payload)
  <2>1. x.payload = o.payload \/ o.payload \in h.safe
    BY ONLY <1>7, Zenon DEF Passes
  <2> QED
    BY <1>4, <1>8, <2>1
<1>10. \A r \in late' : Sound(r, h)
  BY <1>2, <1>4, SoundGrows DEF Serve
<1>11. Becomes(p, x, {}) /\ UNCHANGED <<from, owed, edits, bound>>
  BY DEF Serve, Answered
<1>12. /\ owed' \subseteq 0..edits' /\ edits' <= bound.edits
       /\ from' \in [0..bound.edits -> SUBSET Nat]
  BY <1>11 DEF AutosaveInv
<1> QED
  BY ONLY AutosaveInv, w = World, h = Mid, o = page[p], <1>4, <1>8, <1>9, <1>10, <1>11, <1>12,
          BecomesKeeps

\* The pages stay as they are.
LEMMA StillKeeps ==
  ASSUME AutosaveInv, UNCHANGED <<page, owed, bound>>, edits' \in Nat, edits <= edits',
         edits' <= bound.edits, from' \in [0..bound.edits -> SUBSET Nat],
         Sane(Mid), Grows(World, Mid), \A r \in late' : Sound(r, Mid)
  PROVE  AutosaveInv'
<1> PICK w, h : w = World /\ h = Mid
  OBVIOUS
<1>1. /\ h.log = log' /\ h.from = from' /\ h.safe = Safe' /\ h.stowed = Stowed \cup Safe'
      /\ h.edits = edits'
      /\ w.log = log /\ w.safe = Safe /\ w.stowed = Stowed
  BY DEF Mid, World
<1>2. Page' = Page /\ Stored' = Stored /\ Snapshots' = Snapshots
  BY DEF Page, Stored, Snapshots
<1>3. Stowed' = Stowed \cup Safe'
  <2>1. Safe \subseteq Safe'
    BY <1>1 DEF Grows
  <2> QED
    BY <1>2, <2>1 DEF Stowed
<1>4. World' = h
  BY <1>3 DEF World, Mid
<1>5. \A p \in Page : Fit(page[p], h)
  BY FitGrows DEF AutosaveInv
<1>6. NothingLost'
  <2> SUFFICES ASSUME NEW n \in owed
               PROVE  \/ \E v \in DOMAIN log' : log'[v].payload = n
                      \/ \E p \in Page : Open(p) /\ page[p].payload = n
                      \/ \E s \in Snapshots : s.payload = n
    BY <1>2 DEF NothingLost, Open
  <2>1. (\E v \in DOMAIN log : log[v].payload = n) => \E v \in DOMAIN log' : log'[v].payload = n
    BY <1>1 DEF Grows, Sane, AutosaveInv
  <2> QED
    BY <2>1 DEF AutosaveInv, NothingLost
<1>7. /\ bound' \in Bounds /\ owed' \subseteq 0..edits' /\ edits' <= bound'.edits
      /\ from' \in [0..bound'.edits -> SUBSET Nat]
  <2>1. edits \in Nat
    BY DEF AutosaveInv, Sane, World
  <2> QED
    BY <2>1 DEF AutosaveInv
<1>8. page' = [p \in Page' |-> page'[p]]
  BY <1>2 DEF AutosaveInv
<1> QED
  BY <1>2, <1>4, <1>5, <1>6, <1>7, <1>8 DEF AutosaveInv

LEMMA ServeLateKeeps ==
  ASSUME AutosaveInv, ServeLate, UNCHANGED bound
  PROVE  AutosaveInv'
<1> PICK r \in late : log' = Written(r) /\ late' = late \ {r}
  BY DEF ServeLate
<1>1. UNCHANGED <<page, from, owed, edits, bound>>
  BY DEF ServeLate
<1>2. \A s \in late : Sound(s, World)
  BY DEF AutosaveInv
<1>3. Sane(Mid) /\ Grows(World, Mid)
  BY <1>1, <1>2, WrittenSound
<1>4. \A s \in late' : Sound(s, Mid)
  BY <1>2, <1>3, SoundGrows DEF AutosaveInv
<1>5. edits' \in Nat /\ edits' = edits /\ edits' <= bound.edits /\ from' \in [0..bound.edits -> SUBSET Nat]
  BY <1>1 DEF AutosaveInv, Sane, World
<1> QED
  BY <1>1, <1>3, <1>4, <1>5, StillKeeps

LEMMA StorageFailsKeeps ==
  ASSUME AutosaveInv, StorageFails, UNCHANGED bound
  PROVE  AutosaveInv'
<1>1. UNCHANGED <<log, late, page, from, owed, edits, bound>>
  BY DEF StorageFails
<1>2. edits' \in Nat /\ edits' = edits /\ edits' <= bound.edits /\ from' \in [0..bound.edits -> SUBSET Nat]
  BY <1>1 DEF AutosaveInv, Sane, World
<1>3. Sane(Mid) /\ Grows(World, Mid)
  BY <1>1, <1>2, MidSane
<1>4. \A s \in late' : Sound(s, Mid)
  BY <1>1, <1>3, SoundGrows DEF AutosaveInv
<1> QED
  BY <1>1, <1>2, <1>3, <1>4, StillKeeps

-----------------------------------------------------------------------------
(* Edits                                                                      *)

LEMMA EditFacts ==
  ASSUME AutosaveInv, edits < bound.edits
  PROVE  /\ edits \in Nat /\ fresh \in Nat /\ bound.edits \in Nat /\ fresh <= bound.edits
         /\ edits <= fresh /\ fresh \in 0..bound.edits /\ fresh > edits
         /\ log \in Seq(Versions) /\ \A v \in DOMAIN log : log[v].payload \in 0..edits
         /\ from \in [0..bound.edits -> SUBSET Nat] /\ owed \subseteq 0..edits
<1>1. edits \in Nat /\ log \in Seq(Versions) /\ \A v \in DOMAIN log : log[v].payload \in 0..edits
  BY DEF AutosaveInv, Sane, World
<1>2. bound.edits \in Nat
  BY BoundsAssumption DEF AutosaveInv
<1> QED
  BY <1>1, <1>2 DEF fresh, AutosaveInv

\* A new edit is made from the content n of before.
LEMMA FromFacts ==
  ASSUME AutosaveInv, edits < bound.edits, NEW n \in 0..edits,
         from' = [from EXCEPT ![fresh] = from[n] \cup {n}]
  PROVE  /\ from' \in [0..bound.edits -> SUBSET Nat]
         /\ \A m \in 0..edits : from'[m] = from[m]
         /\ from'[fresh] = from'[n] \cup {n}
<1>1. /\ fresh \in 0..bound.edits /\ from \in [0..bound.edits -> SUBSET Nat]
      /\ \A m \in 0..edits : m \in 0..bound.edits /\ m # fresh
  BY EditFacts
<1>2. from[n] \cup {n} \in SUBSET Nat
  BY <1>1
<1>3. from' \in [0..bound.edits -> SUBSET Nat]
  BY <1>1, <1>2
<1>4. \A m \in 0..edits : from'[m] = from[m]
  BY <1>1
<1>5. from'[fresh] = from[n] \cup {n}
  BY <1>1
<1> QED
  BY <1>3, <1>4, <1>5

LEMMA ServerChangeKeeps ==
  ASSUME AutosaveInv, ServerChange, UNCHANGED bound
  PROVE  AutosaveInv'
<1> PICK n, c, u : /\ n = log[Len(log)].payload /\ c = log[Len(log)].context
                   /\ u = Version(fresh, c, NONE)
  OBVIOUS
<1>1. /\ edits < bound.edits /\ log # <<>> /\ log' = Append(log, u) /\ edits' = fresh
      /\ from' = [from EXCEPT ![fresh] = from[n] \cup {n}]
      /\ UNCHANGED <<page, owed, bound>> /\ late' = late
  BY DEF ServerChange
<1>2. /\ edits \in Nat /\ fresh \in Nat /\ fresh <= bound.edits /\ edits <= fresh
      /\ log \in Seq(Versions) /\ \A v \in DOMAIN log : log[v].payload \in 0..edits
  BY <1>1, EditFacts
<1>3. Len(log) \in DOMAIN log
  BY <1>1, <1>2
<1>4. n \in 0..edits /\ c \in Nat
  <2>1. log[Len(log)] \in Versions
    BY <1>2, <1>3
  <2> QED
    BY <1>2, <1>3, <2>1 DEF Versions
<1>5. u \in Versions /\ u.payload = fresh /\ u.by = NONE
  BY <1>2, <1>4 DEF Version, Versions
<1>6. /\ from' \in [0..bound.edits -> SUBSET Nat]
      /\ \A m \in 0..edits : from'[m] = from[m]
  BY <1>1, <1>4, FromFacts
<1>7. u.payload \in 0..edits'
  BY <1>1, <1>2, <1>5
<1>8. Sane(Mid) /\ Grows(World, Mid)
  BY <1>1, <1>2, <1>5, <1>6, <1>7, MidSane
<1>9. \A r \in late' : Sound(r, Mid)
  BY <1>1, <1>8, SoundGrows DEF AutosaveInv
<1> QED
  BY <1>1, <1>2, <1>6, <1>8, <1>9, StillKeeps

LEMMA EditKeeps ==
  ASSUME AutosaveInv, NEW p \in Page, Edit(p), UNCHANGED bound
  PROVE  AutosaveInv'
<1> PICK w, h : w = World /\ h = Mid
  OBVIOUS
<1> PICK o : o = page[p]
  OBVIOUS
<1>1. /\ o.at \notin {"new", "closed"} /\ edits < bound.edits
      /\ Becomes(p, AfterEdit(o, fresh), {})
      /\ from' = [from EXCEPT ![fresh] = from[o.payload] \cup {o.payload}]
      /\ owed' = (owed \ {o.payload}) \cup {fresh}
      /\ edits' = fresh /\ log' = log /\ late' = late
  BY DEF Edit, Open, AfterEdit, Edited
<1>2. /\ Good(o, w) /\ Open(p) /\ Sane(w) /\ \A r \in late : Sound(r, w)
      /\ w.edits = edits
  BY <1>1, OpenFacts
<1>3. /\ edits \in Nat /\ fresh \in Nat /\ fresh <= bound.edits /\ edits <= fresh /\ fresh > edits
      /\ owed \subseteq 0..edits
  BY <1>1, EditFacts
<1>4. o.payload \in 0..edits
  BY <1>2, <1>3 DEF Good, Fair, Fields, Counts
<1>5. /\ from' \in [0..bound.edits -> SUBSET Nat]
      /\ \A m \in 0..edits : from'[m] = from[m]
      /\ from'[fresh] = from'[o.payload] \cup {o.payload}
  BY <1>1, <1>4, FromFacts
<1>6. /\ Sane(h) /\ Grows(w, h) /\ h.from = from' /\ h.safe = Safe' /\ h.edits = fresh
      /\ h.safe \subseteq h.stowed
  <2>1. \A n \in owed' : n \in owed \/ n > edits
    BY <1>1, <1>3
  <2>2. Sane(Mid) /\ Grows(World, Mid) /\ Mid.from = from' /\ Mid.safe = Safe' /\ Mid.edits = edits'
    BY <1>1, <1>3, <1>5, <2>1, MidSane
  <2> QED
    BY <1>1, <2>2 DEF Sane
<1>7. o.payload \in h.safe
  BY <1>1, <1>3, <1>4, <1>6 DEF Safe
<1>8. Good(o, h)
  BY <1>2, <1>6, GoodGrows
<1> PICK x : x = AfterEdit(o, fresh)
  OBVIOUS
<1>9. Good(x, h) /\ Scheduled(x) /\ Passes(o, x, h) /\ x.payload = fresh
  <2>1. h.from[fresh] = h.from[o.payload] \cup {o.payload} /\ fresh <= h.edits
    BY <1>3, <1>5, <1>6
  <2> QED
    BY <1>3, <1>6, <1>7, <1>8, <2>1, EditGood
<1>10. Fit(x, h) /\ Opened(x) /\ PassesSnap(o, x, h)
  BY <1>9, OpenedFit DEF Passes
<1>11. \A r \in late' : Sound(r, h)
  BY <1>1, <1>2, <1>6, SoundGrows
<1>12. /\ owed' \subseteq 0..edits' /\ edits' <= bound.edits
       /\ \A n \in owed' : n \in owed \/ (Opened(x) /\ n = x.payload)
  <2>1. \A n \in owed' : n \in owed \/ n = fresh
    BY <1>1
  <2>2. 0..edits \subseteq 0..fresh /\ fresh \in 0..fresh
    BY <1>3
  <2>3. owed' \subseteq 0..edits' /\ edits' <= bound.edits
    BY <1>1, <1>3, <2>1, <2>2
  <2> QED
    BY <1>9, <1>10, <2>1, <2>3
<1>13. o.payload \in h.stowed /\ Becomes(p, x, {})
  BY <1>1, <1>6, <1>7
<1> QED
  BY ONLY AutosaveInv, w = World, h = Mid, o = page[p], bound' = bound, <1>5, <1>6, <1>10, <1>11,
          <1>12, <1>13, BecomesKeeps

LEMMA UpdateContextKeeps ==
  ASSUME AutosaveInv, NEW p \in Page, updateContext(p), UNCHANGED bound
  PROVE  AutosaveInv'
<1> PICK w, h : w = World /\ h = Mid
  OBVIOUS
<1> PICK o : o = page[p]
  OBVIOUS
<1>1. /\ o.at \notin {"new", "closed"} /\ edits < bound.edits
      /\ Becomes(p, AfterContext(o, fresh), {})
      /\ edits' = fresh /\ UNCHANGED <<log, from, owed>> /\ late' = late
  BY DEF updateContext, Open, AfterContext
<1>2. /\ Good(o, w) /\ Open(p) /\ Sane(w) /\ \A r \in late : Sound(r, w)
      /\ w.edits = edits
  BY <1>1, OpenFacts
<1>3. /\ edits \in Nat /\ fresh \in Nat /\ fresh <= bound.edits /\ edits <= fresh
      /\ owed \subseteq 0..edits /\ from \in [0..bound.edits -> SUBSET Nat]
  BY <1>1, EditFacts
<1>4. Sane(h) /\ Grows(w, h) /\ h.safe \subseteq h.stowed
  <2>1. Sane(Mid) /\ Grows(World, Mid)
    BY <1>1, <1>3, MidSane
  <2> QED
    BY <2>1 DEF Sane
<1>5. Good(o, h)
  BY <1>2, <1>4, GoodGrows
<1> PICK x : x = AfterContext(o, fresh)
  OBVIOUS
<1>6. Good(x, h) /\ Scheduled(x) /\ Passes(o, x, h)
  BY <1>3, <1>4, <1>5, ContextGood
<1>7. Fit(x, h) /\ Opened(x) /\ PassesSnap(o, x, h)
  BY <1>6, OpenedFit DEF Passes
<1>8. o.payload \in h.stowed \/ (Opened(x) /\ x.payload = o.payload)
  <2>1. x.payload = o.payload \/ o.payload \in h.safe
    BY ONLY <1>6, Zenon DEF Passes
  <2> QED
    BY <1>4, <1>7, <2>1
<1>9. \A r \in late' : Sound(r, h)
  BY <1>1, <1>2, <1>4, SoundGrows
<1>10. /\ owed' \subseteq 0..edits' /\ edits' <= bound.edits /\ owed' \subseteq owed
       /\ from' \in [0..bound.edits -> SUBSET Nat] /\ Becomes(p, x, {})
  BY <1>1, <1>3
<1> QED
  BY ONLY AutosaveInv, w = World, h = Mid, o = page[p], bound' = bound, <1>4, <1>7, <1>8, <1>9,
          <1>10, BecomesKeeps

-----------------------------------------------------------------------------
(* Pages close                                                                *)

LEMMA ClosedFit ==
  ASSUME NEW w, NEW o, Fields(o), Stores(o, w),
         NEW x, x = Shut("closed", o.snap)
  PROVE  Fit(x, w) /\ ~Opened(x) /\ x.snap = o.snap
<1>1. o.snap \in Snapshot \cup {NONE}
  BY DEF Fields
<1>2. Fields(x) /\ x.at = "closed" /\ x.snap = o.snap
  BY <1>1, BlankFields
<1>3. Stores(x, w)
  BY <1>2 DEF Stores
<1>4. Blank(x)
  BY <1>2 DEF Blank, Shut
<1> QED
  BY <1>2, <1>3, <1>4 DEF Fit, Opened

\* The page is gone, and the storage keeps what it had of the page.
LEMMA ClosedKeeps ==
  ASSUME AutosaveInv, NEW p \in Page, Open(p), UNCHANGED <<log, from, edits, bound>>,
         owed' \subseteq owed, NEW o, o = page[p],
         hasUnsavedContent(o) => o.payload \notin owed',
         late' = Undelivered(o),
         NEW removed, \A d \in removed : d[2][1] \in Safe',
         Becomes(p, Shut("closed", o.snap), removed)
  PROVE  AutosaveInv'
<1> PICK w, h : w = World /\ h = Mid
  OBVIOUS
<1>1. o.at \notin {"new", "closed"}
  BY DEF Open
<1>2. Good(o, w) /\ Sane(w) /\ \A r \in late : Sound(r, w)
  BY <1>1, OpenFacts
<1>3. edits \in Nat /\ w.edits = edits
  BY DEF AutosaveInv, Sane, World
<1>4. Sane(h) /\ Grows(w, h) /\ h.safe = Safe' /\ h.safe \subseteq h.stowed
  <2>1. Sane(Mid) /\ Grows(World, Mid) /\ Mid.safe = Safe'
    BY <1>3, MidSane
  <2> QED
    BY <2>1 DEF Sane
<1>5. Good(o, h)
  BY <1>2, <1>4, GoodGrows
<1> PICK x : x = Shut("closed", o.snap)
  OBVIOUS
<1>6. Fit(x, h) /\ x.snap = o.snap
  BY <1>5, ClosedFit DEF Good, Fair
<1>7. PassesSnap(o, x, h)
  BY <1>6 DEF PassesSnap
<1>8. o.payload \in h.stowed \/ (x.snap # NONE /\ x.snap.payload = o.payload)
  <2>1. CASE hasUnsavedContent(o)
    <3>1. o.payload \in 0..edits'
      BY <1>2, <1>3 DEF Good, Fair, Fields, Counts
    <3>2. o.payload \in Safe'
      BY <2>1, <3>1 DEF Safe
    <3> QED
      BY <1>4, <3>2
  <2>2. CASE ~hasUnsavedContent(o)
    BY <1>5, <1>6, <2>2 DEF Good, Fair, Covers
  <2> QED
    BY <2>1, <2>2
<1>9. \A r \in late' : Sound(r, h)
  <2>1. o.at = "sent" => Sound(o.sent, w)
    BY <1>2 DEF Good, Fair, Talks
  <2>2. \A r \in late' : Sound(r, w)
    BY <1>2, <2>1 DEF Undelivered
  <2> QED
    BY <1>2, <1>4, <2>2, SoundGrows
<1>10. /\ owed' \subseteq 0..edits' /\ edits' <= bound.edits
       /\ from' \in [0..bound.edits -> SUBSET Nat] /\ bound' = bound
       /\ Becomes(p, x, removed) /\ \A d \in removed : d[2][1] \in h.safe
  BY <1>4 DEF AutosaveInv
<1> QED
  BY ONLY AutosaveInv, w = World, h = Mid, o = page[p], <1>4, <1>6, <1>7, <1>8, <1>9, <1>10,
          owed' \subseteq owed, BecomesKeeps

LEMMA CloseKeeps ==
  ASSUME AutosaveInv, NEW p \in Page, Close(p), UNCHANGED bound
  PROVE  AutosaveInv'
<1> PICK o : o = page[p]
  OBVIOUS
<1>1. /\ Open(p) /\ UNCHANGED <<log, from, edits>>
      /\ Becomes(p, Shut("closed", o.snap), {})
      /\ late' = Undelivered(o)
  BY DEF Close, Shut
<1>2. owed' = IF hasUnsavedContent(o) THEN owed \ {o.payload} ELSE owed
  BY DEF Close
<1>3. owed' \subseteq owed /\ (hasUnsavedContent(o) => o.payload \notin owed')
  BY <1>2
<1> QED
  BY <1>1, <1>3, ClosedKeeps

\* What is given up with a choice is safe, and so is what its ids were drawn for.
LEMMA RemovedSafe ==
  ASSUME AutosaveInv, NEW w, w = World, NEW o, Good(o, w), o.choice # NONE,
         Safe \subseteq Safe', edits <= edits', edits' \in Nat,
         \A n \in GivenUp(o.choice) : n \notin owed'
  PROVE  \A d \in Removed(o.choice) : d[2][1] \in Safe'
<1> SUFFICES ASSUME NEW c \in o.choice.copies
             PROVE  c.mut[1] \in Safe'
  BY DEF Removed
<1>1. Named(c.mut, c.payload, w) /\ w.safe = Safe /\ w.edits = edits /\ edits \in Nat
  BY DEF Good, Fair, Chooses, World, AutosaveInv, Sane
<1>2. CASE c.payload = c.mut[1]
  <2>1. c.mut[1] \notin owed' /\ c.mut[1] \in 0..edits'
    BY <1>1, <1>2 DEF GivenUp, Named
  <2> QED
    BY <2>1 DEF Safe
<1>3. CASE c.mut[1] \in Safe
  BY <1>3
<1> QED
  BY <1>1, <1>2, <1>3 DEF Named

LEMMA ForkedKeeps ==
  ASSUME AutosaveInv, NEW p \in Page, Forked(p), UNCHANGED bound
  PROVE  AutosaveInv'
<1> PICK w : w = World
  OBVIOUS
<1> PICK o : o = page[p]
  OBVIOUS
<1>1. o.at \notin {"new", "closed"} /\ o.choice # NONE
  BY ShutFacts DEF Forked
<1>2. Good(o, w) /\ Open(p)
  BY <1>1, OpenFacts
<1>3. /\ UNCHANGED <<log, from, edits>>
      /\ Becomes(p, Shut("closed", o.snap), Removed(o.choice))
      /\ late' = Undelivered(o)
      /\ owed' = owed \ (GivenUp(o.choice) \cup {n \in {o.payload} : hasUnsavedContent(o)})
  BY DEF Forked, Shut
<1>4. Safe \subseteq Safe' /\ edits \in Nat
  BY <1>3 DEF Safe, AutosaveInv, Sane, World
<1>5. \A d \in Removed(o.choice) : d[2][1] \in Safe'
  BY <1>1, <1>2, <1>3, <1>4, RemovedSafe
<1>6. owed' \subseteq owed /\ (hasUnsavedContent(o) => o.payload \notin owed')
  BY <1>3
<1> QED
  BY <1>2, <1>3, <1>5, <1>6, ClosedKeeps

-----------------------------------------------------------------------------
(* The draft is replaced                                                      *)

\* The page was edited while the command ran: it waits for a choice.
Overtaken(pg) == [pg EXCEPT !.paused = TRUE, !.conflict = TRUE]

LEMMA OvertakenGood ==
  ASSUME NEW w, NEW pg, Good(pg, w)
  PROVE  LET x == Released(Overtaken(pg))
         IN  Good(x, w) /\ Scheduled(x) /\ Passes(pg, x, w)
<1> PICK x : x = Overtaken(pg)
  OBVIOUS
<1> PICK t : t = TRUE
  OBVIOUS
<1>1. x = Whole(x) /\ x.paused = t /\ x.conflict = t
      /\ /\ x.at = pg.at /\ x.payload = pg.payload /\ x.context = pg.context
      /\ x.token = pg.token /\ x.seq = pg.seq /\ x.saved = pg.saved
      /\ x.browser = pg.browser /\ x.ctx = pg.ctx /\ x.savedCtx = pg.savedCtx
      /\ x.mut = pg.mut /\ x.pending = pg.pending /\ x.deferred = pg.deferred
      /\ x.adopted = pg.adopted /\ x.invalid = pg.invalid /\ x.timer = pg.timer
      /\ x.sent = pg.sent /\ x.answer = pg.answer /\ x.obsolete = pg.obsolete
      /\ x.choice = pg.choice /\ x.snap = pg.snap /\ x.heard = pg.heard
  <2>1. pg = Whole(pg) /\ x = [pg EXCEPT !.paused = t, !.conflict = t]
    BY DEF Good, Fair, Fields, Overtaken
  <2> QED
    BY ONLY <2>1, Zenon DEF Whole
<1>2. Fields(x) /\ Content(x, pg)
  BY <1>1 DEF Good, Fair, Fields, Content
<1>3. Choosing(x) \/ Shows(pg, w)
  BY <1>1 DEF Good, Fair, Choosing
<1>4. Good(x, w) /\ Passes(pg, x, w)
  BY <1>2, <1>3, FlagsGood
<1>5. LET y == Released(x) IN Good(y, w) /\ Scheduled(y) /\ Passes(x, y, w)
  BY <1>4, ReleasedGood
<1> QED
  BY <1>4, <1>5, PassesOn

LEMMA ReplacedKeeps ==
  ASSUME AutosaveInv, NEW p \in Page, page[p].choice # NONE, UNCHANGED bound, late' = late,
         NEW h, h = Mid, Sane(h), Grows(World, h),
         edits <= edits', edits' <= bound.edits, from' \in [0..bound.edits -> SUBSET Nat],
         NEW v \in DOMAIN log', Replaced(p, log'[v], v)
  PROVE  AutosaveInv'
<1> PICK w : w = World
  OBVIOUS
<1> PICK o : o = page[p]
  OBVIOUS
<1>1. o.at \notin {"new", "closed"}
  BY ShutFacts
<1>2. /\ Good(o, w) /\ Open(p) /\ Sane(w) /\ \A r \in late : Sound(r, w)
      /\ w.safe = Safe /\ w.edits = edits
  BY <1>1, OpenFacts
<1>3. /\ h.log = log' /\ h.safe = Safe' /\ h.edits = edits' /\ h.stowed = Stowed \cup Safe'
  BY DEF Mid
<1>4. /\ edits' \in Nat /\ edits \in Nat /\ Safe \subseteq Safe' /\ v \in DOMAIN h.log
  BY <1>2, <1>3 DEF Sane, Grows
<1>5. Good(o, h)
  BY <1>2, GoodGrows
<1>6. \A r \in late' : Sound(r, h)
  BY <1>2, SoundGrows
<1>7. PICK x, removed : /\ Becomes(p, x, removed)
                        /\ Good(x, h) /\ Scheduled(x) /\ Passes(o, x, h)
                        /\ \A d \in removed : d[2][1] \in h.safe
                        /\ owed' \subseteq owed
  <2>1. CASE o.choice.seq # o.seq \/ o.choice.ctx # o.ctx
    <3>1. Becomes(p, Released(Overtaken(o)), {}) /\ owed' = owed
      BY <2>1 DEF Replaced, Overtaken
    <3> QED
      BY <1>5, <3>1, OvertakenGood
  <2>2. CASE ~(o.choice.seq # o.seq \/ o.choice.ctx # o.ctx)
    <3> PICK y : y = Loaded(o, log'[v], v)
      OBVIOUS
    <3>1. /\ Becomes(p, Released(y), Removed(o.choice))
          /\ owed' = owed \ (GivenUp(o.choice) \cup {o.payload})
      BY <2>2 DEF Replaced
    <3>2. o.payload \in h.safe
      <4>1. o.payload \in 0..edits'
        BY <1>2, <1>4 DEF Good, Fair, Fields, Counts
      <4> QED
        BY <1>3, <3>1, <4>1 DEF Safe
    <3>3. Good(y, h) /\ Passes(o, y, h)
      BY <1>3, <1>4, <1>5, <3>2, LoadedGood
    <3>4. \A d \in Removed(o.choice) : d[2][1] \in Safe'
      BY <1>2, <1>4, <3>1, RemovedSafe
    <3>5. Good(Released(y), h) /\ Scheduled(Released(y)) /\ Passes(o, Released(y), h)
      BY <3>3, ReleasedGood, PassesOn
    <3> QED
      BY <1>3, <3>1, <3>4, <3>5
  <2> QED
    BY <2>1, <2>2
<1>8. Fit(x, h) /\ Opened(x) /\ PassesSnap(o, x, h)
  BY <1>7, OpenedFit DEF Passes
<1>9. o.payload \in h.stowed \/ (Opened(x) /\ x.payload = o.payload)
  <2>1. x.payload = o.payload \/ o.payload \in h.safe
    BY ONLY <1>7, Zenon DEF Passes
  <2> QED
    BY <1>3, <1>8, <2>1
<1>10. owed' \subseteq 0..edits' /\ owed' \subseteq owed
  BY <1>4, <1>7 DEF AutosaveInv
<1> QED
  BY ONLY AutosaveInv, h = Mid, o = page[p], bound' = bound, Sane(h), Grows(World, h),
          edits' <= bound.edits, from' \in [0..bound.edits -> SUBSET Nat],
          <1>6, <1>7, <1>8, <1>9, <1>10, BecomesKeeps

LEMMA ReplacedOwed ==
  ASSUME NEW p, NEW u, NEW v, Replaced(p, u, v)
  PROVE  owed' \subseteq owed
BY DEF Replaced

LEMMA LoadKeeps ==
  ASSUME AutosaveInv, NEW p \in Page, Load(p), UNCHANGED bound
  PROVE  AutosaveInv'
<1>1. /\ page[p].choice # NONE /\ log # <<>> /\ Replaced(p, log[Len(log)], Len(log))
      /\ late' = late /\ UNCHANGED <<log, from, edits>>
  BY DEF Load
<1>2. owed' \subseteq owed
  BY <1>1, ReplacedOwed
<1>3. /\ edits \in Nat /\ edits <= bound.edits /\ from \in [0..bound.edits -> SUBSET Nat]
      /\ log \in Seq(Versions)
  BY DEF AutosaveInv, Sane, World
<1>4. Len(log) \in DOMAIN log
  BY <1>1, <1>3
<1>5. Sane(Mid) /\ Grows(World, Mid)
  BY <1>1, <1>2, <1>3, MidSane
<1>6. PICK v : v \in DOMAIN log' /\ Replaced(p, log'[v], v)
  BY <1>1, <1>4
<1> QED
  BY <1>1, <1>3, <1>5, <1>6, ReplacedKeeps

LEMMA CommandKeeps ==
  ASSUME AutosaveInv, NEW p \in Page, Command(p), UNCHANGED bound
  PROVE  AutosaveInv'
<1> PICK n, c, u : /\ n = log[Len(log)].payload /\ c = log[Len(log)].context
                   /\ u = Version(fresh, c, NONE)
  OBVIOUS
<1> PICK o : o = page[p]
  OBVIOUS
<1>1. /\ o.choice # NONE /\ o.choice.kind = "command" /\ o.choice.token = Len(log)
      /\ edits < bound.edits /\ log' = Append(log, u) /\ Replaced(p, u, Len(log) + 1)
      /\ from' = [from EXCEPT ![fresh] = from[n] \cup {n}]
      /\ edits' = fresh /\ late' = late
  BY DEF Command
<1>2. /\ edits \in Nat /\ fresh \in Nat /\ fresh <= bound.edits /\ edits <= fresh
      /\ log \in Seq(Versions) /\ \A v \in DOMAIN log : log[v].payload \in 0..edits
  BY <1>1, EditFacts
<1>3. n \in 0..edits /\ c \in Nat
  <2>1. Len(log) \in DOMAIN log
    <3>1. o.at \notin {"new", "closed"}
      BY <1>1, ShutFacts
    <3>2. PICK w : w = World /\ Good(o, w)
      BY <3>1, OpenFacts
    <3>3. o.choice.token # 0
      BY <1>1, <3>2 DEF Good, Fair, Chooses
    <3> QED
      BY <1>1, <1>2, <3>3
  <2>2. log[Len(log)] \in Versions
    BY <1>2, <2>1
  <2> QED
    BY <1>2, <2>1, <2>2 DEF Versions
<1>4. u \in Versions /\ u.payload = fresh /\ u.by = NONE
  BY <1>2, <1>3 DEF Version, Versions
<1>5. /\ from' \in [0..bound.edits -> SUBSET Nat]
      /\ \A m \in 0..edits : from'[m] = from[m]
  BY <1>1, <1>3, FromFacts
<1>6. owed' \subseteq owed
  BY <1>1, ReplacedOwed
<1>7. u.payload \in 0..edits' /\ edits' \in Nat /\ edits <= edits' /\ edits' <= bound.edits
  BY <1>1, <1>2, <1>4
<1>8. Sane(Mid) /\ Grows(World, Mid)
  BY <1>1, <1>4, <1>5, <1>6, <1>7, MidSane
<1>9. PICK v : v \in DOMAIN log' /\ Replaced(p, log'[v], v)
  BY <1>1, <1>2, <1>4
<1> QED
  BY <1>1, <1>5, <1>7, <1>8, <1>9, ReplacedKeeps

-----------------------------------------------------------------------------
(* Pages open                                                                 *)

\* A page that has something to save keeps a snapshot of it, and its timer is set.
LEMMA BegunGood ==
  ASSUME NEW w, Sane(w), NEW e, Fair(e, w), NEW x, x = schedule(persist(newId(e)))
  PROVE  Good(x, w) /\ Scheduled(x) /\ x.payload = e.payload
<1> PICK i : i = newId(e)
  OBVIOUS
<1> PICK j : j = persist(i)
  OBVIOUS
<1>1. Good(i, w) /\ i.mut # NONE
  BY NewIdGood
<1>2. Good(j, w)
  BY <1>1, PersistGood
<1>3. Good(x, w) /\ Scheduled(x)
  BY <1>2, ScheduleGood
<1>4. i.payload = e.payload
  <2>1. e = Whole(e)
    BY DEF Fair, Fields
  <2>2. PICK m : i = [e EXCEPT !.mut = m]
    BY DEF newId
  <2> QED
    BY ONLY <2>1, <2>2, Zenon DEF Whole
<1>5. j.payload = i.payload
  <2>1. i = Whole(i)
    BY <1>1 DEF Good, Fair, Fields
  <2>2. CASE full
    BY <2>2 DEF persist
  <2>3. CASE ~full
    <3>1. /\ j = Whole(j) /\ j.browser = i.seq
          /\ j.snap = [base |-> i.token, mut |-> i.mut, payload |-> i.payload, context |-> i.context]
          /\ /\ j.at = i.at /\ j.payload = i.payload /\ j.context = i.context
          /\ j.token = i.token /\ j.seq = i.seq /\ j.saved = i.saved /\ j.ctx = i.ctx
          /\ j.savedCtx = i.savedCtx /\ j.mut = i.mut /\ j.pending = i.pending
          /\ j.deferred = i.deferred /\ j.adopted = i.adopted /\ j.paused = i.paused
          /\ j.invalid = i.invalid /\ j.conflict = i.conflict /\ j.timer = i.timer
          /\ j.sent = i.sent /\ j.answer = i.answer /\ j.obsolete = i.obsolete
          /\ j.choice = i.choice /\ j.heard = i.heard
      BY <2>1, <2>3, PersistFields
    <3> QED
      BY <3>1
  <2> QED
    BY <2>2, <2>3
<1>6. x.payload = j.payload
  BY <1>2, ScheduleFields DEF Good, Fair, Content
<1> QED
  BY <1>3, <1>4, <1>5, <1>6

LEMMA NewDraftKeeps ==
  ASSUME AutosaveInv, NEW p \in Page, NewDraft(p), UNCHANGED bound
  PROVE  AutosaveInv'
<1> PICK h : h = Mid
  OBVIOUS
<1> PICK e, x : e = Starting(fresh) /\ x = schedule(persist(newId(e)))
  OBVIOUS
<1>1. /\ page[p].at = "new" /\ edits < bound.edits /\ Becomes(p, x, {})
      /\ owed' = {fresh} /\ edits' = fresh /\ UNCHANGED <<log, from>> /\ late' = late
  BY DEF NewDraft, Opens, Starting
<1>2. /\ edits \in Nat /\ fresh \in Nat /\ fresh <= bound.edits /\ edits <= fresh /\ fresh > edits
      /\ from \in [0..bound.edits -> SUBSET Nat]
  BY <1>1, EditFacts
<1>3. Sane(h) /\ Grows(World, h) /\ h.edits = fresh
  <2>1. Sane(Mid) /\ Grows(World, Mid) /\ Mid.edits = edits'
    BY <1>1, <1>2, MidSane
  <2> QED
    BY <1>1, <2>1
<1>4. Fair(e, h) /\ e.payload = fresh
  BY <1>2, <1>3, FirstFair
<1>5. Good(x, h) /\ Scheduled(x) /\ x.payload = fresh
  BY <1>3, <1>4, BegunGood
<1>6. Fit(x, h) /\ Opened(x)
  BY <1>5, OpenedFit
<1>7. PassesSnap(page[p], x, h) /\ ~Open(p)
  BY <1>1, ShutFacts DEF PassesSnap, Open
<1>8. \A r \in late' : Sound(r, h)
  BY <1>1, <1>3, SoundGrows DEF AutosaveInv
<1>9. /\ owed' \subseteq 0..edits' /\ edits' <= bound.edits
      /\ from' \in [0..bound.edits -> SUBSET Nat]
      /\ \A n \in owed' : n \in owed \/ (Opened(x) /\ n = x.payload)
  BY <1>1, <1>2, <1>5, <1>6
<1> QED
  BY ONLY AutosaveInv, h = Mid, bound' = bound, <1>1, <1>3, <1>6, <1>7, <1>8, <1>9, BecomesKeeps

LEMMA SnapshotFacts ==
  ASSUME AutosaveInv, NEW w, w = World, NEW s \in Snapshots
  PROVE  /\ s \in Snapshot /\ s.payload \in Nat /\ s.context \in Nat /\ s.base \in Nat
         /\ s.payload <= w.edits /\ s.base <= Len(w.log) /\ Based(s.payload, s.base, w)
         /\ s.payload \in w.stowed /\ Named(s.mut, s.payload, w)
<1> PICK q \in Stored : s = page[q].snap
  BY DEF Snapshots
<1>1. q \in Page /\ page[q].snap # NONE /\ Fields(page[q]) /\ Stores(page[q], w)
  BY DEF AutosaveInv, Fit, Stored
<1>2. s \in Snapshot
  BY <1>1 DEF Fields
<1>3. s.payload \in w.stowed
  BY <1>1 DEF World, Stowed
<1> QED
  BY <1>1, <1>2, <1>3 DEF Snapshot, Stores

LEMMA HydratedKeeps ==
  ASSUME AutosaveInv, UNCHANGED <<log, from, owed, edits, bound>>, late' = late,
         NEW p \in Page, page[p].at = "new", NEW w, w = World, NEW record, NEW base \in Nat,
         record.payload \in Nat, record.context \in Nat, record.payload <= w.edits,
         base <= Len(w.log), Based(record.payload, base, w), record.payload \in w.stowed,
         \/ Stored # {}
         \/ base # 0 /\ record.payload = w.log[base].payload /\ record.context = w.log[base].context,
         Hydrated(p, record, base)
  PROVE  AutosaveInv'
<1>1. Sane(w) /\ \A r \in late' : Sound(r, w)
  BY DEF AutosaveInv
<1>2. PICK x : Becomes(p, x, {}) /\ Good(x, w) /\ Scheduled(x)
  <2>1. CASE Stored = {}
    <3> PICK f : f = New.paused /\ f = New.conflict
      BY DEF New
    <3> PICK x : x = Showing(record.payload, record.context, base, f, f)
      OBVIOUS
    <3>1. Becomes(p, x, {})
      <4>1. x = Shown([New EXCEPT !.at = "idle", !.token = base], record)
        <5>1. New = Whole(New)
          BY NewFields
        <5> QED
          BY <5>1 DEF Showing, Shown, Whole
      <4> QED
        BY <2>1, <4>1 DEF Hydrated
    <3>2. Good(x, w) /\ Scheduled(x)
      BY <1>1, <2>1, ShownGood
    <3> QED
      BY <3>1, <3>2
  <2>2. CASE Stored # {} /\ \E s, t \in Snapshots : s.base # base \/ s.payload # t.payload
    <3> PICK f : f = TRUE
      OBVIOUS
    <3> PICK x : x = Showing(record.payload, record.context, base, f, f)
      OBVIOUS
    <3>1. Becomes(p, x, {})
      <4>1. x = [Shown([New EXCEPT !.at = "idle", !.token = base], record)
                   EXCEPT !.paused = TRUE, !.conflict = TRUE]
        BY DEF Showing, Shown, New
      <4> QED
        BY <2>2, <4>1 DEF Hydrated
    <3>2. Good(x, w) /\ Scheduled(x)
      BY <1>1, ShownGood
    <3> QED
      BY <3>1, <3>2
  <2>3. CASE Stored # {} /\ ~(\E s, t \in Snapshots : s.base # base \/ s.payload # t.payload)
    <3> PICK a : a = {<<q, page[q].snap.mut>> : q \in Stored}
      OBVIOUS
    <3>1. PICK s \in Snapshots :
            Becomes(p, schedule(persist(newId(
              [Shown([New EXCEPT !.at = "idle", !.token = base], s)
                 EXCEPT !.adopted = a, !.seq = 1, !.browser = 1, !.ctx = 1]))), {})
      BY <2>3 DEF Hydrated
    <3> PICK e, x : e = Taking(s.payload, s.context, base, a) /\ x = schedule(persist(newId(e)))
      OBVIOUS
    <3>2. Becomes(p, x, {})
      <4>1. e = [Shown([New EXCEPT !.at = "idle", !.token = base], s)
                   EXCEPT !.adopted = a, !.seq = 1, !.browser = 1, !.ctx = 1]
        BY DEF Taking, Shown, New
      <4> QED
        BY <3>1, <4>1
    <3>3. /\ s.payload \in Nat /\ s.context \in Nat /\ s.payload <= w.edits
          /\ Based(s.payload, base, w) /\ s.payload \in w.stowed
      BY <2>3, SnapshotFacts
    <3>4. a \in SUBSET (Nat \X Mutation) /\ \A d \in a : d[2][1] = s.payload \/ d[2][1] \in w.safe
      <4> SUFFICES ASSUME NEW q \in Stored
                   PROVE  /\ q \in Nat /\ page[q].snap.mut \in Mutation
                          /\ page[q].snap.mut[1] = s.payload \/ page[q].snap.mut[1] \in w.safe
        OBVIOUS
      <4>1. q \in Nat /\ page[q].snap \in Snapshots
        BY DEF Stored, Snapshots, Page
      <4>2. page[q].snap.payload = s.payload
        BY <2>3, <4>1
      <4>3. page[q].snap \in Snapshot /\ Named(page[q].snap.mut, page[q].snap.payload, w)
        BY <4>1, SnapshotFacts
      <4> QED
        BY <4>1, <4>2, <4>3 DEF Named, Snapshot
    <3>5. Fair(e, w)
      BY <1>1, <3>3, <3>4, TakenFair
    <3>6. Good(x, w) /\ Scheduled(x)
      BY <1>1, <3>5, BegunGood
    <3> QED
      BY <3>2, <3>6
  <2> QED
    BY <2>1, <2>2, <2>3
<1>3. PassesSnap(page[p], x, w) /\ ~Open(p)
  BY ShutFacts DEF PassesSnap, Open
<1> QED
  BY <1>1, <1>2, <1>3, CalmKeeps

LEMMA HydrateKeeps ==
  ASSUME AutosaveInv, NEW p \in Page, Hydrate(p), UNCHANGED bound
  PROVE  AutosaveInv'
<1> PICK w : w = World
  OBVIOUS
<1>1. page[p].at = "new" /\ UNCHANGED <<log, from, owed, edits, bound>> /\ late' = late
  BY DEF Hydrate, Opens
<1>2. Sane(w) /\ w.log = log
  BY DEF AutosaveInv, World
<1>3. ASSUME NEW v \in DOMAIN log, Hydrated(p, log[v], v)
      PROVE  AutosaveInv'
  <2> PICK record : record = log[v]
    OBVIOUS
  <2>1. record \in Versions /\ v \in Nat /\ v # 0 /\ v <= Len(w.log)
    BY <1>2 DEF Sane
  <2>2. /\ record.payload \in w.safe /\ record.payload \in w.stowed /\ record.payload \in 0..w.edits
        /\ w.edits \in Nat
    BY <1>2 DEF Sane
  <2>3. record.payload \in Nat /\ record.context \in Nat /\ record.payload <= w.edits
    BY <2>1, <2>2 DEF Versions
  <2>4. Based(record.payload, v, w)
    BY <1>2 DEF Based, Descends
  <2>5. Hydrated(p, record, v)
    BY <1>3
  <2> QED
    BY <1>1, <1>2, <2>1, <2>2, <2>3, <2>4, <2>5, HydratedKeeps
<1>4. ASSUME NEW s \in Snapshots, s.base = 0, Hydrated(p, s, 0)
      PROVE  AutosaveInv'
  <2>1. /\ s.payload \in Nat /\ s.context \in Nat /\ s.payload <= w.edits
        /\ Based(s.payload, 0, w) /\ s.payload \in w.stowed /\ 0 <= Len(w.log)
    BY <1>4, SnapshotFacts
  <2>2. Stored # {}
    BY DEF Snapshots
  <2> QED
    BY <1>1, <1>4, <2>1, <2>2, HydratedKeeps
<1> QED
  BY <1>3, <1>4 DEF Hydrate

LEMMA HydrateOfflineKeeps ==
  ASSUME AutosaveInv, NEW p \in Page, HydrateOffline(p), UNCHANGED bound
  PROVE  AutosaveInv'
<1> PICK w : w = World
  OBVIOUS
<1>1. page[p].at = "new" /\ UNCHANGED <<log, from, owed, edits, bound>> /\ late' = late
  BY DEF HydrateOffline, Opens
<1>2. PICK s \in Snapshots : Hydrated(p, s, s.base)
  BY DEF HydrateOffline
<1>3. /\ s.payload \in Nat /\ s.context \in Nat /\ s.payload <= w.edits /\ s.base \in Nat
      /\ s.base <= Len(w.log) /\ Based(s.payload, s.base, w) /\ s.payload \in w.stowed
  BY SnapshotFacts
<1>4. Stored # {}
  BY DEF Snapshots
<1> QED
  BY <1>1, <1>2, <1>3, <1>4, HydratedKeeps

-----------------------------------------------------------------------------
(* The invariant                                                              *)

LEMMA InitKeeps ==
  ASSUME Init
  PROVE  AutosaveInv
<1> PICK w : w = World
  OBVIOUS
<1>1. /\ edits = 0 /\ owed = {} /\ late = {} /\ bound \in Bounds
      /\ page = [p \in Page |-> New] /\ from = [n \in 0..bound.edits |-> {}]
  BY DEF Init
<1>2. bound.edits \in Nat
  BY <1>1, BoundsAssumption
<1>3. /\ log \in Seq(Versions)
      /\ \A v \in DOMAIN log : log[v].payload = 0 /\ log[v].by = NONE
  <2>1. CASE log = <<>>
    BY <2>1
  <2>2. CASE log = <<Version(0, 0, NONE)>>
    <3> PICK u : u = Version(0, 0, NONE)
      OBVIOUS
    <3>1. u \in Versions /\ u.payload = 0 /\ u.by = NONE
      BY DEF Version, Versions
    <3>2. log = <<u>>
      BY <2>2
    <3>3. log \in Seq(Versions) /\ DOMAIN log = {1} /\ log[1] = u
      BY <3>1, <3>2
    <3> QED
      BY <3>1, <3>3
  <2> QED
    BY <2>1, <2>2 DEF Init
<1>4. Safe = {0} /\ Safe \subseteq Stowed
  BY <1>1 DEF Safe, Stowed
<1>5. Sane(w)
  <2>1. w.log = log /\ w.safe = Safe /\ w.stowed = Stowed /\ w.edits = 0
    BY <1>1 DEF World
  <2>2. w.safe \subseteq 0..w.edits /\ \A v \in DOMAIN w.log : w.log[v].payload \in w.safe
    BY <1>3, <1>4, <2>1
  <2> QED
    BY <1>3, <1>4, <2>1, <2>2 DEF Sane
<1>6. Fit(New, w)
  <2>1. Fields(New)
    BY NewFields DEF Fields, Places
  <2>2. New = [New EXCEPT !.at = New.at, !.snap = New.snap]
    BY DEF New
  <2>3. Stores(New, w) /\ ~Opened(New) /\ Blank(New)
    BY <2>2, NewFields DEF Stores, Opened, Blank
  <2> QED
    BY <2>1, <2>3 DEF Fit
<1>7. page = [p \in Page |-> page[p]] /\ \A p \in Page : Fit(page[p], w)
  BY <1>1, <1>6
<1>8. /\ owed \subseteq 0..edits /\ edits <= bound.edits
      /\ from \in [0..bound.edits -> SUBSET Nat] /\ NothingLost
  BY <1>1, <1>2 DEF NothingLost
<1> QED
  BY <1>1, <1>5, <1>7, <1>8 DEF AutosaveInv

LEMMA NextKeeps ==
  ASSUME AutosaveInv, [Next]_vars
  PROVE  AutosaveInv'
<1>1. CASE Next
  <2>1. UNCHANGED bound
    BY <1>1 DEF Next
  <2>2. ASSUME NEW p \in Page, Person(p)
        PROVE  AutosaveInv'
    BY <2>1, <2>2, NewDraftKeeps, HydrateKeeps, HydrateOfflineKeeps, EditKeeps, UpdateContextKeeps,
       CloseKeeps, RetryKeeps, ChooseKeeps DEF Person
  <2>3. ASSUME NEW p \in Page, Network(p)
        PROVE  AutosaveInv'
    BY <2>1, <2>3, HealthyKeeps, ServeKeeps, BusyKeeps, ReceiveKeeps, RefreshedKeeps, LostKeeps,
       EventKeeps, NoticeKeeps DEF Network
  <2>4. ASSUME NEW p \in Page, Choice(p)
        PROVE  AutosaveInv'
    BY <2>1, <2>4, ForkedKeeps, LoadKeeps, CommandKeeps, KeptKeeps DEF Choice
  <2>5. ASSUME NEW p \in Page, TimerFires(p)
        PROVE  AutosaveInv'
    BY <2>1, <2>5, TimerFiresKeeps
  <2>6. CASE ServeLate \/ ServerChange \/ StorageFails
    BY <2>1, <2>6, ServeLateKeeps, ServerChangeKeeps, StorageFailsKeeps
  <2> QED
    BY <1>1, <2>2, <2>3, <2>4, <2>5, <2>6 DEF Next
<1>2. CASE UNCHANGED vars
  <2>1. UNCHANGED <<log, late, page, from, owed, edits, bound>>
    BY <1>2 DEF vars
  <2>2. edits' \in Nat /\ edits' = edits /\ edits' <= bound.edits /\ from' \in [0..bound.edits -> SUBSET Nat]
    BY <2>1 DEF AutosaveInv, Sane, World
  <2>3. Sane(Mid) /\ Grows(World, Mid)
    BY <2>1, <2>2, MidSane
  <2>4. \A r \in late' : Sound(r, Mid)
    BY <2>1, <2>3, SoundGrows DEF AutosaveInv
  <2> QED
    BY <2>1, <2>2, <2>3, <2>4, StillKeeps
<1> QED
  BY <1>1, <1>2

\* The invariant: the log grows by what its requests made of the version before, a request
\* on its way may be served at any time, and of each page (coordinator.ts:55-80) what it
\* counts, waits for, shows, was made from and keeps in the storage fits that log.
THEOREM AutosaveInvHolds == Spec => []AutosaveInv
<1>1. Init => AutosaveInv
  BY InitKeeps
<1>2. AutosaveInv /\ [Next]_vars => AutosaveInv'
  BY NextKeeps
<1> QED
  BY <1>1, <1>2, PTL DEF Spec

-----------------------------------------------------------------------------
(* What the runs check of it                                                  *)

\* A page's save never replaces content its own was not made from
\* (coordinator.ts:196 sends the token of what it shows, :314-323 compares versions).
THEOREM SavesSeeWhatTheyReplace == Spec => []NoBlindOverwrite
<1>1. ASSUME AutosaveInv
      PROVE  NoBlindOverwrite
  <2> SUFFICES ASSUME NEW v \in 2..Len(log), log[v].by # NONE, log[v].by.change = "content"
               PROVE  log[v - 1].payload \in from[log[v].payload] \cup {log[v].payload}
    BY DEF NoBlindOverwrite
  <2>1. PICK w : w = World
    OBVIOUS
  <2>2. Sane(w) /\ w.log = log /\ w.from = from
    BY <1>1, <2>1 DEF AutosaveInv, World
  <2>3. v \in DOMAIN log /\ v > 1
    BY <2>2 DEF Sane
  <2>4. Follows(v, w)
    BY <2>2, <2>3 DEF Sane
  <2> QED
    BY <2>2, <2>3, <2>4 DEF Follows, Descends
<1> QED
  BY <1>1, AutosaveInvHolds, PTL

\* An edit that nobody replaced or gave up was saved, or is held by an open page or by
\* the storage (coordinator.ts:74, :219-225, :360, :371).
THEOREM EditsAreNotLost == Spec => []NothingLost
<1>1. AutosaveInv => NothingLost
  BY DEF AutosaveInv
<1> QED
  BY <1>1, AutosaveInvHolds, PTL

\* When awaitSaved lets a command start, the page shows the version of its token
\* (coordinator.ts:297).
THEOREM CommandsStartOnWhatIsSaved == Spec => []SavedIsShown
<1>1. ASSUME AutosaveInv
      PROVE  SavedIsShown
  <2> SUFFICES ASSUME NEW p \in Page, Barrier(page[p])
               PROVE  /\ page[p].payload = log[page[p].token].payload
                      /\ page[p].context = log[page[p].token].context
    BY DEF SavedIsShown
  <2>1. PICK w : w = World
    OBVIOUS
  <2>2. page[p].at \notin {"new", "closed"}
    BY DEF Barrier
  <2>3. Good(page[p], w) /\ w.log = log
    BY <1>1, <2>1, <2>2, OpenFacts
  <2>4. Shows(page[p], w)
    BY <2>3 DEF Good, Fair, Choosing, Barrier
  <2> QED
    BY <2>3, <2>4 DEF Shows, Barrier, Dirty
<1> QED
  BY <1>1, AutosaveInvHolds, PTL

\* An edit that may be sent will be: whatever a page does, it leaves its timer set when
\* there is something to save (coordinator.ts:258, :272, :374).
THEOREM SavesAreScheduled == Spec => []SaveIsScheduled
<1>1. ASSUME AutosaveInv
      PROVE  SaveIsScheduled
  <2> SUFFICES ASSUME NEW p \in Page, page[p].at = "idle"
               PROVE  Scheduled(page[p])
    BY DEF SaveIsScheduled, Scheduled
  <2> QED
    BY <1>1 DEF AutosaveInv, Fit, Opened
<1> QED
  BY <1>1, AutosaveInvHolds, PTL
=============================================================================
