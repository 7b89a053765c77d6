------------------------ MODULE PreparedResumesProofs ------------------------
(***************************************************************************)
(* The safety properties of PreparedResumes, for any number of attempts,    *)
(* input snapshots, texts and repairs.                                     *)
(***************************************************************************)
EXTENDS PreparedResumes, TLAPS

\* The inputs of the active review, if there is one, were replaced.
Outdated == review = NONE \/ review.input < inputs

\* A review was generated by one of the first attempts, on its inputs, after it had
\* saved the analysis and the alignment.
Origin(r, last) ==
  /\ r.by \in 1..last
  /\ attempts[r.by].input = r.input
  /\ Len(attempts[r.by].saved) >= Proposals - 1

\* What the rows of the attempts say of each other.
Selections ==
  \A a \in 1..Current : attempts[a].selection # NONE =>
    Origin(attempts[a].selection, a - 1) /\ attempts[a].selection.input = attempts[a].input

Texts ==
  \A a \in 1..Current : \A s \in 1..Len(attempts[a].saved) :
    attempts[a].saved[s].text = NONE <=> s < Proposals

Rows ==
  /\ \A a \in 1..Current : attempts[a].input <= inputs
  /\ Selections /\ Texts /\ SameGround

\* The active review is not of newer inputs than the newest attempt.
Reviewed ==
  review # NONE => /\ Current > 0
                   /\ Origin(review, Current)
                   /\ review.input <= Mine.input

States ==
  /\ Running <=> job.state = "preparing"
  /\ job.state = "queued" => Outdated

\* A pipeline that works from a review has saved what the review says, since the
\* proposals.
FromReview ==
  /\ ~pipe.prefix /\ pipe.review.input = Mine.input
  /\ pipe.pc # "laying" => review = pipe.review /\ pipe.text = pipe.review.text
  /\ \A s \in Proposals + 1 .. Saved : Mine.saved[s].text = pipe.text

\* A pipeline that continues a review has that review, and takes over its ground.
Continues ==
  /\ review = Mine.selection
  /\ pipe.pc \in {"stage", "layout"}
  /\ Saved < Proposals - 1 => pipe.prefix /\ pipe.previous = Mine.selection.by

Working ==
  Running =>
    /\ Current > 0 /\ pipe.previous < Current
    /\ Mine.selection # NONE => Continues
    /\ pipe.pc = "stage" /\ Mine.selection = NONE /\ Saved < Proposals => Outdated
    /\ pipe.pc = "stage" /\ Saved < Proposals => pipe.review = NONE
    /\ pipe.pc = "checking" => Saved = Proposals - 1 /\ pipe.review = NONE
    /\ pipe.pc \in {"checking", "laying"} => review # NONE /\ review.input = Mine.input
    /\ pipe.pc \in {"layout", "laying"} => Saved = Proposals /\ pipe.review # NONE
    /\ Saved >= Proposals => pipe.text # NONE
    /\ pipe.review # NONE => FromReview

PreparedInv == TypeOK /\ Rows /\ Reviewed /\ States /\ Working

-----------------------------------------------------------------------------
(* Rows *)

LEMMA Counted ==
  ASSUME TypeOK
  PROVE  /\ Current \in Nat /\ Current <= MaxAttempts /\ MaxAttempts \in Nat
         /\ \A a \in 1..Current : a \in Number
         /\ inputs \in Nat /\ inputs <= MaxInputs /\ MaxInputs \in Nat
BY PreparedAssumption DEF TypeOK, Current, Number

LEMMA RowTypes ==
  ASSUME TypeOK, NEW a \in 1..Current
  PROVE  /\ attempts[a] \in AttemptRow
         /\ attempts[a].input \in 1..MaxInputs
         /\ attempts[a].selection \in Review \cup {NONE}
         /\ attempts[a].saved \in Seq(Checkpoint)
         /\ Len(attempts[a].saved) \in Nat
         /\ \A s \in 1..Len(attempts[a].saved) : attempts[a].saved[s] \in Checkpoint
<1>1. attempts[a] \in AttemptRow BY DEF TypeOK, Current
<1>2. attempts[a].saved \in Seq(Checkpoint) BY <1>1 DEF AttemptRow
<1> QED BY <1>1, <1>2 DEF AttemptRow

\* A checkpoint is added to the newest row.
SavedRow(by, text) ==
  /\ Len(attempts') = Current
  /\ \A a \in 1..Current : a # Current => attempts'[a] = attempts[a]
  /\ attempts'[Current].input = Mine.input
  /\ attempts'[Current].selection = Mine.selection
  /\ attempts'[Current].saved \in Seq(Checkpoint)
  /\ Len(attempts'[Current].saved) = Saved + 1
  /\ \A s \in 1..Saved : attempts'[Current].saved[s] = Mine.saved[s]
  /\ attempts'[Current].saved[Saved + 1] = [by |-> by, text |-> text]

LEMMA SavesRow ==
  ASSUME TypeOK, Current > 0, NEW by \in Number, NEW text \in Text \cup {NONE}, Save(by, text)
  PROVE  attempts' \in Seq(AttemptRow) /\ SavedRow(by, text)
<1> DEFINE new == [by |-> by, text |-> text]
<1>1. Current \in 1..Current /\ Current \in Nat BY Counted
<1>2. new \in Checkpoint BY DEF Checkpoint
<1>3. Mine \in AttemptRow /\ Mine.saved \in Seq(Checkpoint) /\ Saved \in Nat
  BY <1>1, RowTypes DEF Mine, Saved
<1>4. attempts' = [attempts EXCEPT ![Current] = [Mine EXCEPT !.saved = Append(Mine.saved, new)]]
  BY DEF Save, Mine
<1> HIDE DEF new
<1>5. /\ Append(Mine.saved, new) \in Seq(Checkpoint)
      /\ Len(Append(Mine.saved, new)) = Saved + 1
      /\ \A s \in 1..Saved : Append(Mine.saved, new)[s] = Mine.saved[s]
      /\ Append(Mine.saved, new)[Saved + 1] = new
  BY <1>2, <1>3 DEF Saved
<1>6. [Mine EXCEPT !.saved = Append(Mine.saved, new)] \in AttemptRow
  BY <1>3, <1>5 DEF AttemptRow
<1>7. attempts \in Seq(AttemptRow) BY DEF TypeOK
<1>8. /\ attempts' \in Seq(AttemptRow) /\ Len(attempts') = Current
      /\ \A a \in 1..Current : a # Current => attempts'[a] = attempts[a]
      /\ attempts'[Current] = [Mine EXCEPT !.saved = Append(Mine.saved, new)]
  BY <1>1, <1>4, <1>6, <1>7 DEF Current
<1>9. /\ attempts'[Current].input = Mine.input
      /\ attempts'[Current].selection = Mine.selection
      /\ attempts'[Current].saved = Append(Mine.saved, new)
  BY <1>3, <1>8 DEF AttemptRow
<1> QED BY <1>5, <1>8, <1>9 DEF SavedRow, new

\* A row is added.
BegunRow(input, selection) ==
  /\ Len(attempts') = Current + 1
  /\ \A a \in 1..Current : attempts'[a] = attempts[a]
  /\ attempts'[Current + 1] = [input |-> input, selection |-> selection, saved |-> <<>>]

LEMMA BeginsRow ==
  ASSUME TypeOK, NEW input \in 1..MaxInputs, NEW previous \in {0} \cup Number,
         NEW selection \in Review \cup {NONE}, NEW recovers \in BOOLEAN,
         Begins(input, previous, selection, recovers)
  PROVE  /\ attempts' \in Seq(AttemptRow) /\ Current < MaxAttempts
         /\ BegunRow(input, selection)
         /\ pipe' \in Pipe /\ pipe'.pc = "stage" /\ pipe'.previous = previous
         /\ pipe'.prefix /\ pipe'.review = NONE /\ pipe'.text = NONE
         /\ job' = [job EXCEPT !.state = "preparing"]
<1> DEFINE new == [input |-> input, selection |-> selection, saved |-> <<>>]
<1>1. new \in AttemptRow BY DEF AttemptRow
<1>2. attempts' = Append(attempts, new) BY DEF Begins
<1> HIDE DEF new
<1>3. attempts \in Seq(AttemptRow) BY DEF TypeOK
<1>4. /\ attempts' \in Seq(AttemptRow) /\ Len(attempts') = Current + 1
      /\ \A a \in 1..Current : attempts'[a] = attempts[a]
      /\ attempts'[Current + 1] = new
  BY <1>1, <1>2, <1>3 DEF Current
<1>5. PICK member \in BOOLEAN :
        pipe' = [NoPipe EXCEPT !.pc = "stage", !.previous = previous, !.member = member,
                               !.recovers = recovers, !.prefix = TRUE]
  BY DEF Begins
<1>6. pipe' = [pc |-> "stage", previous |-> previous, member |-> member, recovers |-> recovers,
               prefix |-> TRUE, review |-> NONE, text |-> NONE, repairs |-> 0]
  BY <1>5 DEF NoPipe
<1>7. /\ pipe' \in Pipe /\ pipe'.pc = "stage" /\ pipe'.previous = previous
      /\ pipe'.prefix /\ pipe'.review = NONE /\ pipe'.text = NONE
  BY <1>6, PreparedAssumption DEF Pipe
<1> QED BY <1>4, <1>7 DEF Begins, BegunRow, new

-----------------------------------------------------------------------------
(* Reviews *)

LEMMA Evaluations ==
  ASSUME TypeOK, NEW r \in Review, NEW version \in {1, 2}
  PROVE  /\ Evaluated(r, version) \in Review
         /\ Evaluated(r, version).by = r.by
         /\ Evaluated(r, version).input = r.input
         /\ Evaluated(r, version).text = r.text
<1>1. r.text \in Text BY DEF Review
<1>2. Basis(r) \in Resolution BY <1>1 DEF Basis, TypeOK, Resolution
<1> DEFINE plain == r.text \in Plain
           known == Basis(r) # NONE
<1>3. plain \in BOOLEAN /\ known \in BOOLEAN /\ NONE \in Resolution
  BY DEF Resolution
<1>4. CASE version = 1
  <2>1. Evaluated(r, version) = [r EXCEPT !.version = 1, !.basis = NONE, !.ready = plain]
    BY <1>4 DEF Evaluated
  <2> HIDE DEF plain
  <2> QED BY <1>3, <2>1 DEF Review
<1>5. CASE version = 2
  <2>1. Evaluated(r, version) = [r EXCEPT !.version = 2, !.basis = Basis(r), !.ready = known]
    BY <1>5 DEF Evaluated
  <2> HIDE DEF known
  <2> QED BY <1>2, <1>3, <2>1 DEF Review
<1> QED BY <1>4, <1>5

LEMMA Rewordings ==
  ASSUME NEW r \in Review, NEW text \in Text
  PROVE  /\ [r EXCEPT !.text = text] \in Review
         /\ [r EXCEPT !.text = text].by = r.by
         /\ [r EXCEPT !.text = text].input = r.input
BY DEF Review

\* A checked review that still holds is of the newest inputs, and its claims are resolved.
LEMMA ReadyIsCurrent ==
  ASSUME NEW r \in Review, r.version = 2, StillReady(r)
  PROVE  r.input = inputs /\ ~job.stale /\ facts[r.text] # NONE
<1>1. [r EXCEPT !.version = 2, !.basis = Basis(r), !.ready = Basis(r) # NONE] = r /\ r.ready
  BY DEF StillReady, Holds, Evaluated
<1>2. Basis(r) # NONE BY <1>1 DEF Review
<1> QED BY <1>2 DEF Basis

-----------------------------------------------------------------------------
(* What a step does to the rows *)

LEMMA RowsSame ==
  ASSUME TypeOK, Rows, attempts' = attempts, inputs' \in Nat, inputs <= inputs'
  PROVE  Rows'
<1>1. Selections' /\ Texts' /\ SameGround'
  BY DEF Rows, Selections, Origin, Texts, SameGround, Current
<1>2. \A a \in 1..Current : attempts[a].input \in Nat /\ attempts[a].input <= inputs'
  <2> SUFFICES ASSUME NEW a \in 1..Current
               PROVE  attempts[a].input \in Nat /\ attempts[a].input <= inputs'
    OBVIOUS
  <2>1. attempts[a].input \in 1..MaxInputs BY RowTypes
  <2> QED BY <2>1, Counted DEF Rows
<1> QED BY <1>1, <1>2 DEF Rows, Current

LEMMA SavedMine ==
  ASSUME TypeOK, Current > 0, NEW by, NEW text, SavedRow(by, text)
  PROVE  /\ Current' = Current /\ Mine' = attempts'[Current]
         /\ Mine'.input = Mine.input /\ Mine'.selection = Mine.selection
         /\ Saved' = Saved + 1 /\ Saved \in Nat
         /\ \A s \in 1..Saved : Mine'.saved[s] = Mine.saved[s]
         /\ Mine'.saved[Saved + 1] = [by |-> by, text |-> text]
<1>1. Current \in 1..Current BY Counted
<1>2. Saved \in Nat BY <1>1, RowTypes DEF Saved, Mine
<1> QED BY <1>1, <1>2 DEF SavedRow, Current, Mine, Saved

LEMMA OriginSaved ==
  ASSUME TypeOK, Current > 0, NEW by, NEW text, SavedRow(by, text),
         NEW r, NEW last \in 0..Current, Origin(r, last)
  PROVE  Origin(r, last)'
<1>1. r.by \in 1..Current /\ r.by \in 1..last BY Counted DEF Origin
<1>2. Len(attempts[r.by].saved) \in Nat BY <1>1, RowTypes
<1>3. CASE r.by = Current
  BY <1>1, <1>2, <1>3, SavedMine DEF Origin, SavedRow, Mine, Saved, Proposals
<1>4. CASE r.by # Current BY <1>1, <1>4 DEF Origin, SavedRow
<1> QED BY <1>3, <1>4

LEMMA RowsSaved ==
  ASSUME TypeOK, Rows, Current > 0, inputs' = inputs,
         NEW by \in Number, NEW text \in Text \cup {NONE}, Save(by, text),
         text = NONE <=> Saved + 1 < Proposals,
         Mine.selection # NONE /\ Saved + 1 < Proposals =>
           attempts[Mine.selection.by].saved[Saved + 1] = [by |-> by, text |-> text]
  PROVE  Rows'
<1>1. SavedRow(by, text) BY SavesRow
<1>2. Current \in Nat /\ Current \in 1..Current BY Counted
<1>3. /\ Current' = Current /\ Mine' = attempts'[Current] /\ Saved \in Nat
      /\ Len(attempts'[Current].saved) = Saved + 1
      /\ \A a \in 1..Current : /\ attempts'[a].input = attempts[a].input
                               /\ attempts'[a].selection = attempts[a].selection
  BY <1>1, <1>2, SavedMine DEF SavedRow, Mine
<1>4. \A a \in 1..Current' : attempts'[a].input <= inputs'
  BY <1>3 DEF Rows
<1>5. Selections'
  <2> SUFFICES ASSUME NEW a \in 1..Current, attempts[a].selection # NONE
               PROVE  /\ Origin(attempts[a].selection, a - 1)'
                      /\ attempts[a].selection.input = attempts[a].input
    BY <1>3 DEF Selections
  <2>1. Origin(attempts[a].selection, a - 1) /\ attempts[a].selection.input = attempts[a].input
    BY DEF Rows, Selections
  <2> DEFINE r == attempts[a].selection
  <2>2. a - 1 \in 0..Current BY <1>2
  <2>3. attempts'[a].selection = r BY <1>3
  <2>4. /\ r.by \in 1..(a - 1)
        /\ attempts[r.by].input = r.input
        /\ Len(attempts[r.by].saved) >= Proposals - 1
    BY <2>1 DEF Origin
  <2>5. r.by # Current /\ r.by \in 1..Current BY <2>4, <1>2
  <2>6. attempts'[r.by] = attempts[r.by] BY <2>5, <1>1 DEF SavedRow
  <2> HIDE DEF r
  <2> QED BY <2>1, <2>3, <2>4, <2>6 DEF Origin, r
<1>6. Texts'
  <2> SUFFICES ASSUME NEW a \in 1..Current, NEW s \in 1..Len(attempts'[a].saved)
               PROVE  attempts'[a].saved[s].text = NONE <=> s < Proposals
    BY <1>3 DEF Texts
  <2>1. CASE a # Current BY <2>1, <1>1 DEF SavedRow, Rows, Texts
  <2>2. CASE a = Current /\ s \in 1..Saved
    <3>1. attempts'[a].saved[s] = attempts[a].saved[s] BY <2>2, <1>1 DEF SavedRow, Mine
    <3>2. s \in 1..Len(attempts[a].saved) BY <2>2 DEF Saved, Mine
    <3> QED BY <3>1, <3>2 DEF Rows, Texts
  <2>3. CASE a = Current /\ s = Saved + 1 BY <2>3, <1>1 DEF SavedRow
  <2>4. a = Current => s \in 1..Saved \/ s = Saved + 1 BY <1>3
  <2> QED BY <2>1, <2>2, <2>3, <2>4
<1>7. SameGround'
  <2> SUFFICES ASSUME NEW a \in 1..Current, attempts[a].selection # NONE,
                      NEW s \in 1..Len(attempts'[a].saved), s < Proposals
               PROVE  attempts'[a].saved[s] = attempts'[attempts[a].selection.by].saved[s]
    BY <1>3 DEF SameGround
  <2> DEFINE b == attempts[a].selection.by
  <2>1. b \in 1..(a - 1) BY DEF Rows, Selections, Origin
  <2>2. b \in 1..Current /\ b # Current BY <2>1, <1>2
  <2> HIDE DEF b
  <2>3. attempts'[b] = attempts[b] BY <2>2, <1>1 DEF SavedRow
  <2>4. CASE a # Current
    <3>1. attempts'[a] = attempts[a] BY <2>4, <1>1 DEF SavedRow
    <3> QED BY <3>1, <2>3 DEF Rows, SameGround, b
  <2>5. CASE a = Current /\ s \in 1..Saved
    <3>1. attempts'[a].saved[s] = attempts[a].saved[s] BY <2>5, <1>1 DEF SavedRow, Mine
    <3>2. s \in 1..Len(attempts[a].saved) BY <2>5 DEF Saved, Mine
    <3> QED BY <3>1, <3>2, <2>3 DEF Rows, SameGround, b
  <2>6. CASE a = Current /\ s = Saved + 1
    <3>1. attempts'[a].saved[s] = [by |-> by, text |-> text] BY <2>6, <1>1 DEF SavedRow
    <3>2. attempts[b].saved[s] = [by |-> by, text |-> text] BY <2>6 DEF Mine, b
    <3> QED BY <3>1, <3>2, <2>3 DEF b
  <2>7. a = Current => s \in 1..Saved \/ s = Saved + 1 BY <1>3
  <2> QED BY <2>4, <2>5, <2>6, <2>7
<1> QED BY <1>4, <1>5, <1>6, <1>7 DEF Rows

LEMMA BegunMine ==
  ASSUME TypeOK, NEW input, NEW selection, BegunRow(input, selection)
  PROVE  /\ Current' = Current + 1
         /\ Mine'.input = input /\ Mine'.selection = selection /\ Saved' = 0
BY Counted DEF BegunRow, Current, Mine, Saved

LEMMA OriginBegun ==
  ASSUME TypeOK, NEW input, NEW selection, BegunRow(input, selection),
         NEW r, NEW last \in 0..Current, Origin(r, last)
  PROVE  Origin(r, last)'
<1>1. r.by \in 1..Current BY Counted DEF Origin
<1> QED BY <1>1 DEF Origin, BegunRow

LEMMA RowsBegun ==
  ASSUME TypeOK, Rows, NEW input \in 1..MaxInputs, NEW selection, BegunRow(input, selection),
         inputs' \in Nat, inputs <= inputs', input <= inputs',
         selection # NONE => Origin(selection, Current) /\ selection.input = input
  PROVE  Rows'
<1>1. Current \in Nat /\ Current' = Current + 1 BY Counted, BegunMine
<1>2. /\ \A a \in 1..Current : attempts'[a] = attempts[a]
      /\ attempts'[Current + 1] = [input |-> input, selection |-> selection, saved |-> <<>>]
  BY DEF BegunRow
<1>3. \A a \in 1..Current' : a \in 1..Current \/ a = Current + 1 BY <1>1
<1>4. \A a \in 1..Current' : attempts'[a].input <= inputs'
  <2> SUFFICES ASSUME NEW a \in 1..Current'  PROVE attempts'[a].input <= inputs'
    OBVIOUS
  <2>1. CASE a \in 1..Current
    <3>1. attempts[a].input \in Nat /\ attempts[a].input <= inputs
      BY <2>1, RowTypes, Counted DEF Rows
    <3> QED BY <3>1, <2>1, <1>2, Counted
  <2>2. CASE a = Current + 1 BY <2>2, <1>2
  <2> QED BY <2>1, <2>2, <1>3
<1>5. Selections'
  <2> SUFFICES ASSUME NEW a \in 1..Current', attempts'[a].selection # NONE
               PROVE  /\ Origin(attempts[a].selection, a - 1)'
                      /\ attempts'[a].selection.input = attempts'[a].input
    BY DEF Selections
  <2> DEFINE r == attempts'[a].selection
  <2>1. Origin(r, a - 1) /\ r.input = attempts'[a].input
    <3>1. CASE a \in 1..Current BY <3>1, <1>2 DEF Rows, Selections
    <3>2. CASE a = Current + 1 BY <3>2, <1>1, <1>2
    <3> QED BY <3>1, <3>2, <1>3
  <2>2. r.by \in 1..(a - 1) /\ attempts[r.by].input = r.input
        /\ Len(attempts[r.by].saved) >= Proposals - 1
    BY <2>1 DEF Origin
  <2>3. r.by \in 1..Current BY <2>2, <1>1
  <2>4. attempts'[r.by] = attempts[r.by] BY <2>3, <1>2
  <2> HIDE DEF r
  <2> QED BY <2>1, <2>2, <2>4 DEF Origin, r
<1>6. Texts'
  <2> SUFFICES ASSUME NEW a \in 1..Current', NEW s \in 1..Len(attempts'[a].saved)
               PROVE  attempts'[a].saved[s].text = NONE <=> s < Proposals
    BY DEF Texts
  <2>1. CASE a \in 1..Current BY <2>1, <1>2 DEF Rows, Texts
  <2>2. CASE a = Current + 1 BY <2>2, <1>2
  <2> QED BY <2>1, <2>2, <1>3
<1>7. SameGround'
  <2> SUFFICES ASSUME NEW a \in 1..Current', attempts'[a].selection # NONE,
                      NEW s \in 1..Len(attempts'[a].saved), s < Proposals
               PROVE  attempts'[a].saved[s] = attempts'[attempts'[a].selection.by].saved[s]
    BY DEF SameGround
  <2>1. CASE a \in 1..Current
    <3>1. attempts'[a] = attempts[a] BY <2>1, <1>2
    <3>2. attempts[a].selection.by \in 1..(a - 1) BY <2>1, <3>1 DEF Rows, Selections, Origin
    <3>3. attempts[a].selection.by \in 1..Current BY <2>1, <3>2, <1>1
    <3> QED BY <2>1, <3>1, <3>3, <1>2 DEF Rows, SameGround
  <2>2. CASE a = Current + 1 BY <2>2, <1>2
  <2> QED BY <2>1, <2>2, <1>3
<1> QED BY <1>4, <1>5, <1>6, <1>7 DEF Rows

-----------------------------------------------------------------------------
(* Kinds of steps *)

JobRow == [state : {"saved", "queued", "preparing", "needs_input", "resume_ready", "failed"},
           stale : BOOLEAN]

LEMMA Unfold ==
  ASSUME PreparedInv
  PROVE  /\ TypeOK /\ Rows /\ Selections /\ Texts /\ Reviewed /\ States /\ Working
         /\ inputs \in Nat /\ inputs <= MaxInputs /\ MaxInputs \in Nat
         /\ facts \in [Text -> Resolution] /\ job \in JobRow /\ halted \in BOOLEAN
         /\ review \in Review \cup {NONE} /\ pipe \in Pipe
         /\ attempts \in Seq(AttemptRow) /\ Current \in Nat
         /\ published \in Resume \cup {NONE}
<1>1. TypeOK /\ Rows /\ Reviewed /\ States /\ Working BY DEF PreparedInv
<1> QED BY <1>1, Counted DEF TypeOK, Rows, JobRow

LEMMA ReviewedSame ==
  ASSUME TypeOK, Reviewed, attempts' = attempts,
         review' = review \/ (review # NONE /\ review'.by = review.by /\ review'.input = review.input)
  PROVE  Reviewed'
BY DEF Reviewed, Origin, Current, Mine

LEMMA OutdatedStays ==
  ASSUME TypeOK, Outdated, inputs' \in Nat, inputs <= inputs',
         review' = review \/ (review # NONE /\ review'.input = review.input)
  PROVE  Outdated'
<1>1. inputs \in Nat BY Counted
<1>2. review # NONE => review.input \in Nat BY DEF TypeOK, Review
<1> QED BY <1>1, <1>2 DEF Outdated

\* Nothing happens to the attempts or the pipeline.
LEMMA QuietStep ==
  ASSUME PreparedInv, attempts' = attempts, pipe' = pipe, published' = published,
         inputs' \in Nat, inputs <= inputs', inputs' <= MaxInputs,
         facts' \in [Text -> Resolution], halted' \in BOOLEAN, job' \in JobRow,
         job'.state = "preparing" <=> job.state = "preparing",
         job'.state = "queued" => job.state = "queued" \/ Outdated,
         \/ review' = review
         \/ /\ ~Running /\ review # NONE /\ review' \in Review
            /\ review'.by = review.by /\ review'.input = review.input
  PROVE  PreparedInv'
<1>1. TypeOK' BY Unfold DEF TypeOK, JobRow
<1>2. Rows' BY Unfold, RowsSame
<1>3. Reviewed' BY Unfold, ReviewedSame
<1>4. Outdated => Outdated' BY Unfold, OutdatedStays
<1>5. States' BY <1>4, Unfold DEF States, Running
<1>6. Working'
  <2> SUFFICES ASSUME Running PROVE Working' BY DEF Working, Running
  <2>1. review' = review OBVIOUS
  <2>2. Working BY Unfold
  <2> QED BY <1>4, <2>1, <2>2 DEF Working, Continues, FromReview, Running, Current, Mine, Saved
<1> QED BY <1>1, <1>2, <1>3, <1>5, <1>6 DEF PreparedInv

\* An attempt that ends leaves rows and a review to account for, and no pipeline.
LEMMA EndedStep ==
  ASSUME PreparedInv, pipe' = NoPipe, inputs' = inputs, facts' = facts, halted' \in BOOLEAN,
         job' \in JobRow, job'.state \notin {"preparing", "queued"},
         attempts' \in Seq(AttemptRow), Current' = Current, Rows',
         review' \in Review \cup {NONE}, Reviewed', published' \in Resume \cup {NONE}
  PROVE  PreparedInv'
<1>1. NoPipe \in Pipe BY PreparedAssumption DEF NoPipe, Pipe
<1>2. TypeOK' BY <1>1, Unfold DEF TypeOK, JobRow, Current
<1>3. ~Running' BY DEF Running, NoPipe
<1>4. States' /\ Working' BY <1>3 DEF States, Working
<1> QED BY <1>2, <1>4 DEF PreparedInv

\* The rows and the review stay as they are.
LEMMA EndedQuietly ==
  ASSUME PreparedInv, NEW state \in {"needs_input", "resume_ready", "failed"}, NEW stale \in BOOLEAN,
         Ends(state, stale), inputs' = inputs, facts' = facts, halted' \in BOOLEAN,
         attempts' = attempts, published' \in Resume \cup {NONE},
         \/ review' = review
         \/ /\ review # NONE /\ review' \in Review
            /\ review'.by = review.by /\ review'.input = review.input
  PROVE  PreparedInv'
<1>1. job' \in JobRow /\ job'.state \notin {"preparing", "queued"} /\ pipe' = NoPipe
  BY DEF Ends, JobRow
<1>2. Rows' BY Unfold, RowsSame
<1>3. Reviewed' BY Unfold, ReviewedSame
<1>4. attempts' \in Seq(AttemptRow) /\ Current' = Current /\ review' \in Review \cup {NONE}
  BY Unfold DEF Current
<1> QED BY <1>1, <1>2, <1>3, <1>4, EndedStep

\* The pipeline goes on.
LEMMA RunningStep ==
  ASSUME PreparedInv, Running, Running', UNCHANGED <<inputs, facts, job, halted, published>>,
         attempts' \in Seq(AttemptRow), Current' = Current, Rows',
         review' \in Review \cup {NONE}, Reviewed', pipe' \in Pipe, Working'
  PROVE  PreparedInv'
<1>1. TypeOK' BY Unfold DEF TypeOK, JobRow, Current
<1>2. job'.state = "preparing" BY Unfold DEF States
<1>3. States' BY <1>2 DEF States
<1> QED BY <1>1, <1>3 DEF PreparedInv

\* An attempt begins, to recover a missing output or not.
Started(input, previous, selection) ==
  \E recovers \in BOOLEAN : Begins(input, previous, selection, recovers)

\* An attempt begins, anew on inputs the review is too old for, or from the review.
LEMMA BegunStep ==
  ASSUME PreparedInv, NEW input \in 1..MaxInputs, NEW previous \in {0} \cup Number,
         NEW selection \in Review \cup {NONE},
         Started(input, previous, selection),
         inputs' \in Nat, inputs <= inputs', inputs' <= MaxInputs, input <= inputs',
         facts' \in [Text -> Resolution], halted' = halted, review' = review,
         published' = published,
         previous <= Current,
         review # NONE => review.input <= input,
         selection = NONE => Outdated',
         selection # NONE => /\ Origin(selection, Current) /\ selection.input = input
                             /\ review = selection /\ previous = selection.by
  PROVE  PreparedInv'
<1>1. /\ attempts' \in Seq(AttemptRow) /\ Current < MaxAttempts
      /\ BegunRow(input, selection)
      /\ pipe' \in Pipe /\ pipe'.pc = "stage" /\ pipe'.previous = previous
      /\ pipe'.prefix /\ pipe'.review = NONE /\ pipe'.text = NONE
      /\ job' = [job EXCEPT !.state = "preparing"]
  <2>1. TypeOK BY Unfold
  <2>2. PICK recovers \in BOOLEAN : Begins(input, previous, selection, recovers) BY DEF Started
  <2> QED BY <2>1, <2>2, BeginsRow
<1>2. /\ Current' = Current + 1
      /\ Mine'.input = input /\ Mine'.selection = selection /\ Saved' = 0
  BY <1>1, Unfold, BegunMine
<1>3. job' \in JobRow /\ job'.state = "preparing" BY <1>1, Unfold DEF JobRow
<1>4. TypeOK'
  <2>1. Current' <= MaxAttempts BY <1>1, <1>2, Unfold, Counted
  <2> QED BY <1>1, <1>3, <2>1, Unfold DEF TypeOK, JobRow, Current
<1>5. Rows' BY <1>1, Unfold, RowsBegun
<1>6. Reviewed'
  <2> SUFFICES ASSUME review # NONE
               PROVE  Current' > 0 /\ Origin(review, Current)' /\ review.input <= Mine'.input
    BY DEF Reviewed
  <2>1. Current \in 0..Current /\ Origin(review, Current) BY Unfold DEF Reviewed
  <2>2. review.by \in 1..Current' /\ review.by \in 1..Current
    BY <2>1, <1>2, Unfold DEF Origin
  <2>3. attempts'[review.by] = attempts[review.by] BY <2>2, <1>1 DEF BegunRow
  <2>4. Origin(review, Current)' BY <2>1, <2>2, <2>3 DEF Origin
  <2> QED BY <2>4, <1>2, Unfold
<1>7. States' BY <1>1, <1>3 DEF States, Running
<1>8. Working'
  <2>1. Current' > 0 /\ pipe'.previous < Current' BY <1>1, <1>2, Unfold DEF Number
  <2>2. Mine'.selection # NONE => Continues'
    BY <1>1, <1>2 DEF Continues
  <2> QED BY <2>1, <2>2, <1>1, <1>2 DEF Working, Proposals
<1> QED BY <1>4, <1>5, <1>6, <1>7, <1>8 DEF PreparedInv

LEMMA BegunFrom ==
  ASSUME PreparedInv, review # NONE, BeginsFromReview(review), review.input <= inputs,
         UNCHANGED <<inputs, facts, halted, review, published>>
  PROVE  PreparedInv'
<1>1. review \in Review BY Unfold
<1>2. /\ review \in Review \cup {NONE} /\ review.input \in 1..MaxInputs
      /\ review.by \in {0} \cup Number /\ review.input <= review.input
  BY <1>1 DEF Review
<1>3. Started(review.input, review.by, review)
  BY ZenonT(30) DEF BeginsFromReview, Started
<1>4. Origin(review, Current) /\ review.by <= Current BY Unfold DEF Reviewed, Origin
<1>5. /\ inputs' \in Nat /\ inputs <= inputs' /\ inputs' <= MaxInputs
      /\ review.input <= inputs' /\ facts' \in [Text -> Resolution]
  BY Unfold
<1>6. halted' = halted /\ review' = review /\ published' = published OBVIOUS
<1> QED BY <1>2, <1>3, <1>4, <1>5, <1>6, BegunStep

LEMMA BegunAnew ==
  ASSUME PreparedInv, NEW input \in 1..MaxInputs, NEW previous \in 0..Current,
         Started(input, previous, NONE),
         inputs' \in Nat, inputs <= inputs', inputs' <= MaxInputs, input <= inputs',
         facts' \in [Text -> Resolution], UNCHANGED <<halted, review, published>>,
         review # NONE => review.input <= input, Outdated'
  PROVE  PreparedInv'
<1>1. previous \in {0} \cup Number /\ previous <= Current BY Unfold, Counted
<1> QED BY <1>1, BegunStep

-----------------------------------------------------------------------------
(* What people do *)

LEMMA SaveReviewStep ==
  ASSUME PreparedInv, SaveReview \/ CorrectBase \/ RefreshFacts
  PROVE  PreparedInv'
<1>1. review \in Review /\ review # NONE /\ ~Running
  BY Unfold DEF SaveReview, CorrectBase, RefreshFacts, Editable
<1>2. review' \in Review /\ review'.by = review.by /\ review'.input = review.input
  <2>1. \A version \in {1, 2}, r \in Review :
           /\ Evaluated(r, version) \in Review
           /\ Evaluated(r, version).by = r.by
           /\ Evaluated(r, version).input = r.input
    BY Unfold, Evaluations
  <2>2. review.version \in {1, 2} BY <1>1 DEF Review
  <2>3. \A text \in Text : /\ [review EXCEPT !.text = text] \in Review
                           /\ [review EXCEPT !.text = text].by = review.by
                           /\ [review EXCEPT !.text = text].input = review.input
    BY <1>1, Rewordings
  <2>4. CASE SaveReview \/ CorrectBase
    <3>1. PICK text \in Text, version \in {1, 2} :
            review' = Evaluated([review EXCEPT !.text = text], version)
      BY <2>2, <2>4 DEF SaveReview, CorrectBase
    <3> DEFINE r == [review EXCEPT !.text = text]
    <3>2. r \in Review /\ r.by = review.by /\ r.input = review.input BY <2>3
    <3>3. review' = Evaluated(r, version) BY <3>1
    <3> HIDE DEF r
    <3> QED BY <2>1, <3>2, <3>3
  <2>6. CASE RefreshFacts BY <2>6, <2>1, <1>1 DEF RefreshFacts
  <2> QED BY <2>4, <2>6
<1>3. /\ UNCHANGED <<inputs, facts, halted, attempts, pipe, published>>
      /\ job' \in JobRow /\ job'.state = job.state
  BY Unfold DEF SaveReview, CorrectBase, RefreshFacts, JobRow
<1> QED BY <1>1, <1>2, <1>3, Unfold, QuietStep

LEMMA ControlStep ==
  ASSUME PreparedInv,
         CaptureInputs \/ ChangeContext \/ StartAutomatic
         \/ \E text \in Text, resolution \in Resolution : Decide(text, resolution)
  PROVE  PreparedInv'
<1>1. CASE CaptureInputs
  <2>1. /\ inputs < MaxInputs /\ inputs' = inputs + 1 /\ facts' = [text \in Text |-> NONE]
        /\ UNCHANGED <<job, halted, review, attempts, pipe, published>>
    BY <1>1 DEF CaptureInputs
  <2>2. facts' \in [Text -> Resolution] BY <2>1 DEF Resolution
  <2>3. inputs' \in Nat /\ inputs <= inputs' /\ inputs' <= MaxInputs BY <2>1, Unfold
  <2> QED BY <2>1, <2>2, <2>3, Unfold, QuietStep
<1>2. CASE ChangeContext
  <2>1. /\ job.state # "preparing"
        /\ job' = [state |-> "needs_input", stale |-> TRUE]
        /\ UNCHANGED <<inputs, facts, halted, review, attempts, pipe, published>>
    BY <1>2 DEF ChangeContext
  <2>2. job' \in JobRow /\ job'.state = "needs_input" BY <2>1 DEF JobRow
  <2> QED BY <2>1, <2>2, Unfold, QuietStep
<1>3. CASE StartAutomatic
  <2>1. /\ halted' \in BOOLEAN
        /\ UNCHANGED <<inputs, facts, job, review, attempts, pipe, published>>
    BY <1>3 DEF StartAutomatic
  <2> QED BY <2>1, Unfold, QuietStep
<1>4. ASSUME NEW text \in Text, NEW resolution \in Resolution, Decide(text, resolution)
      PROVE  PreparedInv'
  <2>1. /\ facts' = [facts EXCEPT ![text] = resolution]
        /\ UNCHANGED <<inputs, job, halted, review, attempts, pipe, published>>
    BY <1>4 DEF Decide
  <2>2. facts' \in [Text -> Resolution] BY <2>1, Unfold
  <2> QED BY <2>1, <2>2, Unfold, QuietStep
<1> QED BY <1>1, <1>2, <1>3, <1>4

LEMMA HaltStep ==
  ASSUME PreparedInv, Halt
  PROVE  PreparedInv'
<1>1. CASE UNCHANGED <<job, pipe>>
  <2>1. UNCHANGED <<inputs, facts, review, attempts, published>> /\ halted' \in BOOLEAN
    BY DEF Halt
  <2> QED BY <1>1, <2>1, Unfold, QuietStep
<1>2. CASE Ends("failed", job.stale)
  <2>1. UNCHANGED <<inputs, facts, review, attempts, published>> /\ halted' \in BOOLEAN
    BY DEF Halt
  <2>2. job.stale \in BOOLEAN BY Unfold DEF JobRow
  <2> QED BY <1>2, <2>1, <2>2, Unfold, EndedQuietly
<1> QED BY <1>1, <1>2 DEF Halt

LEMMA LoseStep ==
  ASSUME PreparedInv, Lose \/ Block
  PROVE  PreparedInv'
<1>1. UNCHANGED <<inputs, facts, halted, review, attempts, published>>
  BY DEF Lose, Block
<1>2. job.stale \in BOOLEAN BY Unfold DEF JobRow
<1>3. CASE Ends("failed", job.stale) BY <1>1, <1>2, <1>3, Unfold, EndedQuietly
<1>4. CASE Ends("needs_input", FALSE) BY <1>1, <1>4, Unfold, EndedQuietly
<1> QED BY <1>3, <1>4 DEF Lose, Block, Blocks

\* Inputs that may be requested are newer than those of the review.
LEMMA NamedInputs ==
  ASSUME PreparedInv, NEW input \in {inputs} \cup {attempts[a].input : a \in {Current} \ {0}},
         Names(input)
  PROVE  /\ input \in 1..MaxInputs /\ input <= inputs
         /\ review # NONE => review.input < input
         /\ Outdated
<1>1. input = inputs \/ (Current > 0 /\ input = Mine.input) BY Unfold DEF Mine
<1>2. Current > 0 => Mine.input \in 1..MaxInputs /\ Mine.input <= inputs
  <2> SUFFICES ASSUME Current > 0 PROVE Mine.input \in 1..MaxInputs /\ Mine.input <= inputs
    OBVIOUS
  <2>1. Current \in 1..Current BY Unfold
  <2> QED BY <2>1, Unfold, RowTypes DEF Rows, Mine
<1>3. input \in 1..MaxInputs /\ input <= inputs BY <1>1, <1>2, Unfold DEF Names
<1>4. ASSUME review # NONE PROVE review.input < input
  <2>1. review.input \in Nat BY <1>4, Unfold DEF Review
  <2>2. Current > 0 /\ review.input <= Mine.input BY <1>4, Unfold DEF Reviewed
  <2>3. review.input # input BY <1>4 DEF Names
  <2> QED BY <1>1, <1>2, <2>1, <2>2, <2>3, Unfold
<1>5. review # NONE => review.input < inputs
  <2>1. review # NONE => review.input \in Nat BY Unfold DEF Review
  <2> QED BY <1>3, <1>4, <2>1, Unfold
<1> QED BY <1>3, <1>4, <1>5 DEF Outdated

LEMMA RequestStep ==
  ASSUME PreparedInv, Request
  PROVE  PreparedInv'
<1>1. ~Running /\ UNCHANGED <<inputs, facts, halted, review, published>> BY DEF Request
<1>2. PICK input \in {inputs} \cup {attempts[a].input : a \in {Current} \ {0}} :
        /\ Names(input)
        /\ \/ Begins(input, Current, NONE, FALSE)
           \/ /\ job' = [job EXCEPT !.state = "queued"]
              /\ UNCHANGED <<attempts, pipe>>
  BY DEF Request
<1>3. /\ input \in 1..MaxInputs /\ input <= inputs
      /\ review # NONE => review.input < input
      /\ Outdated
  BY <1>2, NamedInputs
<1>4. CASE Begins(input, Current, NONE, FALSE)
  <2>1. Current \in 0..Current BY Unfold
  <2>2. Outdated' BY <1>1, <1>3, Unfold, OutdatedStays
  <2>3. review # NONE => review.input <= input
    BY <1>3, Unfold DEF Review
  <2>4. Started(input, Current, NONE) BY <1>4, ZenonT(30) DEF Started
  <2>5. /\ inputs' \in Nat /\ inputs <= inputs' /\ inputs' <= MaxInputs /\ input <= inputs'
        /\ facts' \in [Text -> Resolution]
    BY <1>1, <1>3, Unfold
  <2> QED BY <1>1, <1>3, <2>1, <2>2, <2>3, <2>4, <2>5, BegunAnew
<1>5. CASE job' = [job EXCEPT !.state = "queued"] /\ UNCHANGED <<attempts, pipe>>
  <2>1. job' \in JobRow /\ job'.state = "queued" BY <1>5, Unfold DEF JobRow
  <2>2. job.state # "preparing" BY <1>1, Unfold DEF States
  <2> QED BY <1>1, <1>3, <1>5, <2>1, <2>2, Unfold, QuietStep
<1> QED BY <1>2, <1>4, <1>5

LEMMA ContinueStep ==
  ASSUME PreparedInv, Continue
  PROVE  PreparedInv'
<1>1. /\ review # NONE /\ review.input = inputs
      /\ BeginsFromReview(review)
      /\ UNCHANGED <<inputs, facts, halted, review, published>>
  BY DEF Continue, Editable
<1>2. review.input <= inputs BY <1>1, Unfold
<1> QED BY <1>1, <1>2, BegunFrom

LEMMA RecoverStep ==
  ASSUME PreparedInv, Recover
  PROVE  PreparedInv'
<1>1. /\ review = NONE /\ UNCHANGED <<inputs, facts, halted, review, published>>
      /\ Current > 0 /\ Mine.input = inputs
  BY DEF Recover
<1>2. PICK a \in 1..Current : Begins(inputs, a, NONE, TRUE)
  BY DEF Recover, Sources
<1>3. Current \in 1..Current BY <1>1, Unfold
<1>4. inputs \in 1..MaxInputs BY <1>1, <1>3, Unfold, RowTypes DEF Mine
<1>5. a \in 0..Current BY <1>2, Unfold
<1>6. Outdated' BY <1>1 DEF Outdated
<1>7. Started(inputs, a, NONE) BY <1>2, ZenonT(30) DEF Started
<1>8. /\ inputs' \in Nat /\ inputs <= inputs' /\ inputs' <= MaxInputs
      /\ facts' \in [Text -> Resolution]
  BY <1>1, Unfold
<1> QED BY <1>1, <1>4, <1>5, <1>6, <1>7, <1>8, BegunAnew

LEMMA DrainStep ==
  ASSUME PreparedInv, Drain
  PROVE  PreparedInv'
<1>1. /\ job.state = "queued" /\ UNCHANGED <<halted, review, published>> /\ Outdated
  BY Unfold DEF Drain, States
<1>2. CASE Current > 0 /\ Begins(Mine.input, Current, NONE, FALSE) /\ UNCHANGED <<inputs, facts>>
  <2>1. Current \in 1..Current /\ Current \in 0..Current BY <1>2, Unfold
  <2>2. Mine.input \in 1..MaxInputs /\ Mine.input <= inputs
    BY <2>1, Unfold, RowTypes DEF Mine, Rows
  <2>3. Outdated' BY <1>1, <1>2, Unfold, OutdatedStays
  <2>4. review # NONE => review.input <= Mine.input BY Unfold DEF Reviewed
  <2>5. Started(Mine.input, Current, NONE) BY <1>2, ZenonT(30) DEF Started
  <2>6. /\ inputs' \in Nat /\ inputs <= inputs' /\ inputs' <= MaxInputs
        /\ Mine.input <= inputs' /\ facts' \in [Text -> Resolution]
    BY <1>2, <2>2, Unfold
  <2> QED BY <1>1, <2>1, <2>2, <2>3, <2>4, <2>5, <2>6, BegunAnew
<1>3. CASE /\ Current = 0 /\ inputs < MaxInputs /\ inputs' = inputs + 1
           /\ facts' = [text \in Text |-> NONE] /\ Begins(inputs', 0, NONE, FALSE)
  <2>1. PICK input \in 1..MaxInputs : input = inputs + 1 BY <1>3, Unfold
  <2>2. Started(input, 0, NONE)
    <3>1. Started(inputs', 0, NONE) BY <1>3, ZenonT(30) DEF Started
    <3> QED BY <1>3, <2>1, <3>1
  <2>3. review = NONE BY <1>3, Unfold DEF Reviewed
  <2>4. Outdated' BY <1>1, <2>3 DEF Outdated
  <2>5. facts' \in [Text -> Resolution] BY <1>3 DEF Resolution
  <2>6. 0 \in 0..Current BY <1>3
  <2>7. inputs' \in Nat /\ inputs <= inputs' /\ inputs' <= MaxInputs /\ input <= inputs'
    BY <1>3, <2>1, Unfold
  <2> QED BY <1>1, <2>2, <2>3, <2>4, <2>5, <2>6, <2>7, BegunAnew
<1>4. CASE Ends("needs_input", job.stale) /\ UNCHANGED <<inputs, facts, attempts>>
  <2>1. job.stale \in BOOLEAN BY Unfold DEF JobRow
  <2> QED BY <1>1, <1>4, <2>1, Unfold, EndedQuietly
<1> QED BY <1>2, <1>3, <1>4 DEF Drain

-----------------------------------------------------------------------------
(* The pipeline *)

LEMMA RunningRow ==
  ASSUME PreparedInv, Running
  PROVE  /\ Current > 0 /\ Current \in Number /\ Current \in 1..Current
         /\ Mine \in AttemptRow /\ Mine.input \in 1..MaxInputs
         /\ Mine.selection \in Review \cup {NONE}
         /\ Saved \in Nat
         /\ \A s \in 1..Saved : /\ Mine.saved[s] \in Checkpoint
                                /\ Mine.saved[s].text = NONE <=> s < Proposals
         /\ Mine.selection # NONE => /\ Mine.selection.by \in 1..(Current - 1)
                                     /\ Mine.selection.input = Mine.input
                                     /\ attempts[Mine.selection.by].input = Mine.input
                                     /\ Len(attempts[Mine.selection.by].saved) >= Proposals - 1
<1>1. Current > 0 BY Unfold DEF Working
<1>2. Current \in 1..Current /\ Current \in Number BY <1>1, Unfold, Counted
<1>3. /\ Mine \in AttemptRow /\ Mine.input \in 1..MaxInputs
      /\ Mine.selection \in Review \cup {NONE} /\ Saved \in Nat
      /\ \A s \in 1..Saved : Mine.saved[s] \in Checkpoint
  BY <1>2, Unfold, RowTypes DEF Mine, Saved
<1>4. \A s \in 1..Saved : Mine.saved[s].text = NONE <=> s < Proposals
  BY <1>2, Unfold DEF Texts, Mine, Saved
<1>5. Mine.selection # NONE => Origin(Mine.selection, Current - 1) /\ Mine.selection.input = Mine.input
  BY <1>2, Unfold DEF Selections, Mine
<1> QED BY <1>1, <1>2, <1>3, <1>4, <1>5 DEF Origin

\* What a pipeline may take over is of an earlier attempt on the same inputs.
LEMMA OldRow ==
  ASSUME PreparedInv, Running, Len(Old) > Saved
  PROVE  /\ pipe.previous \in 1..Current /\ Old = attempts[pipe.previous].saved
         /\ Old[Saved + 1].by \in Number
         /\ Old[Saved + 1].text \in Text \cup {NONE}
         /\ Old[Saved + 1].text = NONE <=> Saved + 1 < Proposals
         /\ Old[Saved + 1] = [by |-> Old[Saved + 1].by, text |-> Old[Saved + 1].text]
<1>1. Saved \in Nat BY RunningRow
<1>2. pipe.previous > 0 /\ Old = attempts[pipe.previous].saved
  <2>1. CASE pipe.previous > 0 /\ attempts[pipe.previous].input = Mine.input
    BY <2>1 DEF Old
  <2>2. CASE ~(pipe.previous > 0 /\ attempts[pipe.previous].input = Mine.input)
    <3>1. Old = <<>> BY <2>2 DEF Old
    <3> QED BY <3>1, <1>1
  <2> QED BY <2>1, <2>2
<1>3. pipe.previous \in {0} \cup Number /\ pipe.previous < Current BY Unfold DEF Working, Pipe
<1>4. pipe.previous \in 1..Current BY <1>2, <1>3, Unfold DEF Number
<1>5. Len(Old) \in Nat /\ \A s \in 1..Len(Old) : Old[s] \in Checkpoint
  BY <1>2, <1>4, Unfold, RowTypes
<1>6. Saved + 1 \in 1..Len(Old) BY <1>1, <1>5
<1>7. Old[Saved + 1].text = NONE <=> Saved + 1 < Proposals
  BY <1>2, <1>4, <1>6, Unfold DEF Texts
<1>8. Old[Saved + 1] \in Checkpoint BY <1>5, <1>6
<1>9. /\ Old[Saved + 1].by \in Number /\ Old[Saved + 1].text \in Text \cup {NONE}
      /\ Old[Saved + 1] = [by |-> Old[Saved + 1].by, text |-> Old[Saved + 1].text]
  BY <1>8 DEF Checkpoint
<1> QED BY <1>2, <1>4, <1>7, <1>9

\* A checkpoint of the pipeline keeps the rows, and the review stays one of its origin.
LEMMA SavingStep ==
  ASSUME PreparedInv, Running, inputs' = inputs,
         NEW by \in Number, NEW text \in Text \cup {NONE}, Save(by, text),
         text = NONE <=> Saved + 1 < Proposals,
         Mine.selection # NONE /\ Saved + 1 < Proposals =>
           attempts[Mine.selection.by].saved[Saved + 1] = [by |-> by, text |-> text],
         \/ review' = review
         \/ review # NONE /\ review'.by = review.by /\ review'.input = review.input
  PROVE  /\ attempts' \in Seq(AttemptRow) /\ Rows' /\ Reviewed'
         /\ Current' = Current
         /\ Mine'.input = Mine.input /\ Mine'.selection = Mine.selection
         /\ Saved' = Saved + 1
         /\ \A s \in 1..Saved : Mine'.saved[s] = Mine.saved[s]
         /\ Mine'.saved[Saved + 1] = [by |-> by, text |-> text]
<1>1. Current > 0 BY RunningRow
<1>2. attempts' \in Seq(AttemptRow) /\ SavedRow(by, text) BY <1>1, Unfold, SavesRow
<1>3. Rows' BY <1>1, Unfold, RowsSaved
<1>4. /\ Current' = Current /\ Mine'.input = Mine.input /\ Mine'.selection = Mine.selection
      /\ Saved' = Saved + 1
      /\ \A s \in 1..Saved : Mine'.saved[s] = Mine.saved[s]
      /\ Mine'.saved[Saved + 1] = [by |-> by, text |-> text]
  BY <1>1, <1>2, Unfold, SavedMine
<1>5. Reviewed'
  <2> SUFFICES ASSUME review' # NONE
               PROVE  /\ Current > 0
                      /\ Origin(review, Current)'
                      /\ review'.input <= Mine.input
    BY <1>4 DEF Reviewed
  <2>1. review # NONE /\ review'.by = review.by /\ review'.input = review.input
    OBVIOUS
  <2>2. Origin(review, Current) /\ review.input <= Mine.input BY <2>1, Unfold DEF Reviewed
  <2> DEFINE r == review
  <2>3. Current \in 0..Current BY Unfold
  <2>4. /\ r.by \in 1..Current /\ attempts'[r.by].input = r.input
        /\ Len(attempts'[r.by].saved) >= Proposals - 1
    <3>1. r.by \in 1..Current /\ Len(attempts[r.by].saved) \in Nat
      BY <2>2, Unfold, RowTypes DEF Origin
    <3>2. CASE r.by = Current
      BY <3>1, <3>2, <2>2, <1>2, Unfold, RunningRow DEF Origin, SavedRow, Mine, Saved, Proposals
    <3>3. CASE r.by # Current BY <3>1, <3>3, <2>2, <1>2 DEF Origin, SavedRow
    <3> QED BY <3>1, <3>2, <3>3
  <2> QED BY <1>1, <1>4, <2>1, <2>2, <2>4 DEF Origin
<1> QED BY <1>2, <1>3, <1>4, <1>5

LEMMA StudyStep ==
  ASSUME PreparedInv, Study
  PROVE  PreparedInv'
<1>1. /\ pipe.pc = "stage" /\ Running /\ Saved + 1 < Proposals
      /\ UNCHANGED <<inputs, facts, job, halted, review, published>>
  BY DEF Study, Running
<1>2. Saved \in Nat /\ Current \in Number BY <1>1, RunningRow
<1>3. Working /\ pipe.review = NONE /\ Saved < Proposals
  BY <1>1, <1>2, Unfold DEF Working, Proposals
<1>4. Mine.selection # NONE =>
        /\ Takes /\ review = Mine.selection
        /\ Old = attempts[Mine.selection.by].saved
  <2> SUFFICES ASSUME Mine.selection # NONE
               PROVE  /\ Takes /\ review = Mine.selection
                      /\ Old = attempts[Mine.selection.by].saved
    OBVIOUS
  <2>1. review = Mine.selection /\ pipe.prefix /\ pipe.previous = Mine.selection.by
    BY <1>1, <1>2, <1>3 DEF Working, Continues, Proposals
  <2>2. /\ Mine.selection.by \in 1..(Current - 1)
        /\ attempts[Mine.selection.by].input = Mine.input
        /\ Len(attempts[Mine.selection.by].saved) >= Proposals - 1
    BY <1>1, RunningRow
  <2>3. Old = attempts[Mine.selection.by].saved BY <2>1, <2>2, Unfold DEF Old
  <2>4. Mine.selection.by \in 1..Current BY <2>2, Unfold
  <2>5. Len(Old) \in Nat BY <2>3, <2>4, Unfold, RowTypes
  <2>6. Len(Old) > Saved BY <1>1, <1>2, <2>2, <2>3, <2>5 DEF Proposals
  <2> QED BY <1>1, <1>2, <2>1, <2>3, <2>6 DEF Takes, Proposals
<1>5. PICK by \in Number : /\ Save(by, NONE)
                           /\ Mine.selection # NONE =>
                                attempts[Mine.selection.by].saved[Saved + 1] = [by |-> by, text |-> NONE]
                           /\ \/ pipe' = pipe
                              \/ pipe' = [pipe EXCEPT !.prefix = FALSE] /\ Mine.selection = NONE
  <2>1. CASE Takes
    <3>1. Len(Old) > Saved BY <2>1 DEF Takes
    <3>2. Old[Saved + 1].by \in Number /\ Old[Saved + 1] = [by |-> Old[Saved + 1].by, text |-> NONE]
      BY <1>1, <3>1, OldRow
    <3>3. Save(Old[Saved + 1].by, NONE) /\ pipe' = pipe BY <2>1 DEF Study
    <3> QED BY <1>4, <3>2, <3>3
  <2>2. CASE ~Takes
    <3>1. Save(Current, NONE) /\ pipe' = [pipe EXCEPT !.prefix = FALSE] BY <2>2 DEF Study
    <3> QED BY <1>2, <1>4, <2>2, <3>1
  <2> QED BY <2>1, <2>2
<1>6. /\ attempts' \in Seq(AttemptRow) /\ Rows' /\ Reviewed'
      /\ Current' = Current
      /\ Mine'.input = Mine.input /\ Mine'.selection = Mine.selection
      /\ Saved' = Saved + 1
  BY <1>1, <1>5, SavingStep
<1>7. /\ pipe' \in Pipe /\ pipe'.pc = "stage" /\ pipe'.previous = pipe.previous
      /\ pipe'.review = NONE
      /\ Mine.selection # NONE => pipe' = pipe
  BY <1>1, <1>3, <1>5, Unfold DEF Pipe
<1>8. Working'
  <2>1. Outdated => Outdated' BY <1>1, Unfold, OutdatedStays
  <2>2. Mine'.selection # NONE => Continues'
    <3> SUFFICES ASSUME Mine.selection # NONE PROVE Continues' BY <1>6
    <3>1. Continues /\ pipe' = pipe BY <1>1, <1>3, <1>7 DEF Working
    <3> QED BY <1>1, <1>2, <1>6, <3>1 DEF Continues, Proposals
  <2>3. Current > 0 /\ pipe.previous < Current /\ (Mine.selection = NONE => Outdated)
    BY <1>1, <1>3 DEF Working
  <2>4. ~(Saved' >= Proposals) BY <1>1, <1>2, <1>6 DEF Proposals
  <2> QED BY <1>6, <1>7, <2>1, <2>2, <2>3, <2>4 DEF Working
<1>9. Running' BY <1>7 DEF Running
<1> QED BY <1>1, <1>6, <1>7, <1>8, <1>9, Unfold, RunningStep

\* A text is saved as the proposals, and the pipeline works from this review.
LEMMA AdoptsStep ==
  ASSUME PreparedInv, Running, Saved = Proposals - 1,
         UNCHANGED <<inputs, facts, halted, published>>,
         NEW by \in Number, NEW r \in Review \cup {NONE}, NEW text \in Text, NEW prefix \in BOOLEAN,
         Adopts(by, r, text, prefix),
         review' \in Review \cup {NONE},
         \/ review' = review
         \/ review # NONE /\ review'.by = review.by /\ review'.input = review.input,
         Mine.selection # NONE => review' = Mine.selection,
         r # NONE => ~prefix /\ r.input = Mine.input /\ review' = r /\ text = r.text
  PROVE  PreparedInv'
<1>1. Save(by, text) /\ job' = job BY DEF Adopts
<1>2. text # NONE BY PreparedAssumption
<1>3. /\ attempts' \in Seq(AttemptRow) /\ Rows' /\ Reviewed'
      /\ Current' = Current
      /\ Mine'.input = Mine.input /\ Mine'.selection = Mine.selection
      /\ Saved' = Proposals
  <2>1. ~(Saved + 1 < Proposals) /\ Saved + 1 = Proposals BY DEF Proposals
  <2> QED BY <1>1, <1>2, <2>1, SavingStep
<1>4. /\ pipe' \in Pipe /\ pipe'.prefix = prefix /\ pipe'.review = r /\ pipe'.text = text
      /\ pipe'.previous = pipe.previous
      /\ pipe'.pc \in {"stage", "layout"} /\ (pipe'.pc = "layout" => r # NONE)
  BY Unfold DEF Adopts, Pipe
<1>5. Running' BY <1>4 DEF Running
<1>6. Working'
  <2>1. Current > 0 /\ pipe.previous < Current BY Unfold DEF Working
  <2>2. Mine'.selection # NONE => Continues' BY <1>3, <1>4 DEF Continues, Proposals
  <2>3. r # NONE => FromReview' BY <1>3, <1>4 DEF FromReview, Proposals
  <2>4. ~(Saved' < Proposals) BY <1>3 DEF Proposals
  <2> QED BY <1>2, <1>3, <1>4, <2>1, <2>2, <2>3, <2>4 DEF Working
<1> QED BY <1>1, <1>3, <1>4, <1>5, <1>6, RunningStep

LEMMA SelectStep ==
  ASSUME PreparedInv, Select
  PROVE  PreparedInv'
<1>1. /\ pipe.pc = "stage" /\ Running /\ Saved + 1 = Proposals /\ Mine.selection # NONE
      /\ UNCHANGED <<inputs, facts, halted, review, published>>
  BY DEF Select, At, Running
<1>2. CASE Ends("failed", job.stale) /\ UNCHANGED attempts
  <2>1. job.stale \in BOOLEAN BY Unfold DEF JobRow
  <2> QED BY <1>1, <1>2, <2>1, Unfold, EndedQuietly
<1>3. CASE Adopts(Current, Mine.selection, Mine.selection.text, FALSE)
  <2>1. /\ Current \in Number /\ Mine.selection \in Review
        /\ Mine.selection.input = Mine.input /\ Saved \in Nat
    BY <1>1, RunningRow
  <2>2. Mine.selection.text \in Text BY <2>1 DEF Review
  <2>3. review = Mine.selection BY <1>1, Unfold DEF Working, Continues
  <2>4. Saved = Proposals - 1 BY <1>1, <2>1 DEF Proposals
  <2> QED BY <1>1, <1>3, <2>1, <2>2, <2>3, <2>4, AdoptsStep
<1> QED BY <1>2, <1>3 DEF Select

LEMMA GenerateStep ==
  ASSUME PreparedInv, Generate
  PROVE  PreparedInv'
<1>1. /\ pipe.pc = "stage" /\ Running /\ Saved + 1 = Proposals /\ Mine.selection = NONE
      /\ UNCHANGED <<inputs, facts, halted, attempts, published>>
  BY DEF Generate, At, Running
<1>2. /\ Current > 0 /\ Current \in Number /\ Mine.input \in 1..MaxInputs /\ Saved \in Nat
      /\ Current \in 1..Current
  BY <1>1, RunningRow
<1>3. review' \in Review /\ review'.by = Current /\ review'.input = Mine.input
  <2>1. PICK text \in Text, version \in {1, 2} :
          review' = Evaluated([by |-> Current, input |-> Mine.input, text |-> text,
                               version |-> 1, basis |-> NONE, ready |-> FALSE], version)
    BY DEF Generate
  <2> DEFINE first == [by |-> Current, input |-> Mine.input, text |-> text,
                       version |-> 1, basis |-> NONE, ready |-> FALSE]
  <2>2. first \in Review /\ first.by = Current /\ first.input = Mine.input
    BY <1>2 DEF Review, Resolution
  <2>3. review' = Evaluated(first, version) BY <2>1
  <2> HIDE DEF first
  <2> QED BY <2>1, <2>2, <2>3, Unfold, Evaluations
<1>4. review' # NONE BY <1>3, NullAssumption
<1>5. Rows' /\ Current' = Current /\ Mine' = Mine /\ Saved' = Saved
  BY <1>1, Unfold, RowsSame DEF Current, Mine, Saved
<1>6. Reviewed'
  <2>1. Saved >= Proposals - 1 BY <1>1, <1>2 DEF Proposals
  <2>2. Origin(review, Current)' BY <1>1, <1>2, <1>3, <1>5, <2>1 DEF Origin, Mine, Saved
  <2>3. review'.input <= Mine'.input BY <1>2, <1>3, <1>5
  <2> QED BY <1>2, <1>5, <2>2, <2>3 DEF Reviewed
<1>7. attempts' \in Seq(AttemptRow) BY <1>1, Unfold
<1>8. CASE Blocks(TRUE)
  <2>1. job' \in JobRow /\ job'.state \notin {"preparing", "queued"} /\ pipe' = NoPipe
    BY <1>8 DEF Blocks, Ends, JobRow
  <2> QED BY <1>1, <1>3, <1>5, <1>6, <1>7, <2>1, Unfold, EndedStep
<1>9. CASE pipe' = [pipe EXCEPT !.pc = "checking", !.prefix = FALSE] /\ UNCHANGED job
  <2>1. pipe.review = NONE /\ pipe.previous < Current
    BY <1>1, <1>2, Unfold DEF Working, Proposals
  <2>2. /\ pipe' \in Pipe /\ pipe'.pc = "checking" /\ pipe'.review = NONE
        /\ pipe'.previous = pipe.previous
    BY <1>9, <2>1, Unfold DEF Pipe
  <2>3. Working'
    BY <1>1, <1>2, <1>3, <1>4, <1>5, <2>1, <2>2 DEF Working, Proposals
  <2>4. Running' BY <2>2 DEF Running
  <2> QED BY <1>1, <1>3, <1>5, <1>6, <1>7, <1>9, <2>2, <2>3, <2>4, RunningStep
<1> QED BY <1>8, <1>9 DEF Generate

\* Another wording of the worker's own, by an attempt that selected no review.
LEMMA RepairsStep ==
  ASSUME PreparedInv, Running, review # NONE, NEW pc \in {"checking", "laying"}, Repairs(pc),
         UNCHANGED <<inputs, facts, halted, published>>,
         Mine.selection = NONE, review.input = Mine.input,
         pc = "checking" => pipe.pc = "checking",
         pc = "laying" => pipe.pc = "layout"
  PROVE  PreparedInv'
<1>1. review \in Review BY Unfold
<1>2. review' \in Review /\ review'.by = review.by /\ review'.input = review.input
  <2>1. PICK text \in Text : review' = Evaluated([review EXCEPT !.text = text], 2)
    BY DEF Repairs
  <2>2. /\ [review EXCEPT !.text = text] \in Review
        /\ [review EXCEPT !.text = text].by = review.by
        /\ [review EXCEPT !.text = text].input = review.input
    BY <1>1, Rewordings
  <2> QED BY <2>1, <2>2, Unfold, Evaluations
<1>3. review' # NONE BY <1>2, NullAssumption
<1>4. /\ UNCHANGED <<job, attempts>> /\ Current' = Current /\ Mine' = Mine /\ Saved' = Saved
      /\ attempts' \in Seq(AttemptRow)
  BY Unfold DEF Repairs, Current, Mine, Saved
<1>5. Rows' /\ Reviewed' BY <1>2, <1>4, Unfold, RowsSame, ReviewedSame
<1>6. /\ pipe' \in Pipe /\ pipe'.pc = pc /\ pipe'.review = pipe.review /\ pipe'.text = pipe.text
      /\ pipe'.prefix = pipe.prefix /\ pipe'.previous = pipe.previous
  <2>1. pipe.repairs \in 0..MaxRepairs /\ pipe.repairs < MaxRepairs
    BY Unfold DEF Repairs, Pipe
  <2>2. pipe.repairs + 1 \in 0..MaxRepairs BY <2>1, PreparedAssumption
  <2> QED BY <2>2, Unfold DEF Repairs, Pipe
<1>7. Working'
  <2>1. Working /\ Current > 0 /\ pipe.previous < Current BY Unfold DEF Working
  <2>2. CASE pc = "checking"
    <3>1. Saved = Proposals - 1 /\ pipe.review = NONE BY <2>1, <2>2 DEF Working
    <3> QED BY <1>2, <1>3, <1>4, <1>6, <2>1, <2>2, <3>1 DEF Working, Proposals
  <2>3. CASE pc = "laying"
    <3>1. Saved = Proposals /\ pipe.review # NONE /\ pipe.text # NONE /\ FromReview
      BY <2>1, <2>3 DEF Working, Proposals
    <3>2. FromReview' BY <1>4, <1>6, <2>3, <3>1 DEF FromReview
    <3> QED BY <1>2, <1>3, <1>4, <1>6, <2>1, <2>3, <3>1, <3>2 DEF Working, Proposals
  <2> QED BY <2>2, <2>3
<1>8. Running' BY <1>6 DEF Running
<1> QED BY <1>2, <1>4, <1>5, <1>6, <1>7, <1>8, RunningStep

LEMMA CheckedStep ==
  ASSUME PreparedInv, Checked
  PROVE  PreparedInv'
<1> DEFINE fresh == Evaluated(review, 2)
<1>1. pipe.pc = "checking" /\ Running /\ UNCHANGED <<inputs, facts, halted, published>>
  BY DEF Checked, Running
<1>2. /\ Mine.selection = NONE /\ review # NONE /\ review.input = Mine.input
      /\ Saved = Proposals - 1 /\ review \in Review
  BY <1>1, Unfold DEF Working, Continues
<1>3. fresh \in Review /\ fresh.by = review.by /\ fresh.input = review.input
  BY <1>2, Unfold, Evaluations
<1>4. fresh.text \in Text BY <1>3 DEF Review
<1>5. Current \in Number BY <1>1, RunningRow
<1>6. \/ review' = fresh /\ Adopts(Current, fresh, fresh.text, FALSE)
      \/ review' = fresh /\ Blocks(FALSE) /\ UNCHANGED attempts
      \/ Repairs("checking")
  BY DEF Checked
<1> HIDE DEF fresh
<1>7. CASE review' = fresh /\ Adopts(Current, fresh, fresh.text, FALSE)
  BY <1>1, <1>2, <1>3, <1>4, <1>5, <1>7, AdoptsStep
<1>8. CASE review' = fresh /\ Blocks(FALSE) /\ UNCHANGED attempts
  <2>1. Ends("needs_input", FALSE) BY <1>8 DEF Blocks
  <2> QED BY <1>1, <1>2, <1>3, <1>8, <2>1, Unfold, EndedQuietly
<1>9. CASE Repairs("checking")
  BY <1>1, <1>2, <1>9, RepairsStep
<1> QED BY <1>6, <1>7, <1>8, <1>9

LEMMA TakeProposalsStep ==
  ASSUME PreparedInv, TakeProposals
  PROVE  PreparedInv'
<1>1. /\ pipe.pc = "stage" /\ Running /\ Saved + 1 = Proposals /\ Takes
      /\ UNCHANGED <<inputs, facts, halted, review, published>>
  BY DEF TakeProposals, At, Running
<1>2. Saved \in Nat /\ Mine.selection = NONE /\ Len(Old) > Saved
  BY <1>1, RunningRow DEF Takes
<1>3. Saved = Proposals - 1 BY <1>1, <1>2 DEF Proposals
<1>4. Old[Proposals].by \in Number /\ Old[Proposals].text \in Text
  BY <1>1, <1>2, OldRow DEF Proposals
<1>5. Outdated BY <1>1, <1>2, <1>3, Unfold DEF Working, Proposals
<1>6. ~(review # NONE /\ review.version = 2 /\ StillReady(review))
  <2> SUFFICES ASSUME review # NONE, review.version = 2, StillReady(review) PROVE FALSE
    OBVIOUS
  <2>1. review \in Review BY Unfold
  <2>2. review.input = inputs BY <2>1, ReadyIsCurrent
  <2> QED BY <1>5, <2>2, Unfold DEF Outdated
<1>7. CASE Adopts(Old[Proposals].by, NONE, Old[Proposals].text, TRUE)
  BY <1>1, <1>2, <1>3, <1>4, <1>7, Unfold, AdoptsStep
<1>8. CASE Save(Old[Proposals].by, Old[Proposals].text) /\ Blocks(FALSE)
  <2>1. Old[Proposals].text # NONE /\ ~(Saved + 1 < Proposals)
    BY <1>1, <1>4, PreparedAssumption DEF Proposals
  <2>2. attempts' \in Seq(AttemptRow) /\ Rows' /\ Reviewed' /\ Current' = Current
    BY <1>1, <1>4, <1>8, <2>1, SavingStep
  <2>3. job' \in JobRow /\ job'.state \notin {"preparing", "queued"} /\ pipe' = NoPipe
    BY <1>8 DEF Blocks, Ends, JobRow
  <2> QED BY <1>1, <2>2, <2>3, Unfold, EndedStep
<1> QED BY <1>6, <1>7, <1>8 DEF TakeProposals

LEMMA LayoutStep ==
  ASSUME PreparedInv, Layout
  PROVE  PreparedInv'
<1>1. pipe.pc = "layout" /\ Running /\ UNCHANGED <<inputs, facts, halted, published>>
  BY DEF Layout, Running
<1>2. /\ Working /\ Saved = Proposals /\ pipe.review # NONE /\ pipe.text # NONE
      /\ FromReview /\ review = pipe.review /\ review.input = Mine.input
      /\ Current > 0 /\ pipe.previous < Current
  BY <1>1, Unfold DEF Working, FromReview, Proposals
<1>3. CASE pipe' = [pipe EXCEPT !.pc = "stage"] /\ UNCHANGED <<job, review, attempts>>
  <2>1. /\ pipe' \in Pipe /\ pipe'.pc = "stage" /\ pipe'.review = pipe.review
        /\ pipe'.text = pipe.text /\ pipe'.prefix = pipe.prefix /\ pipe'.previous = pipe.previous
    BY <1>3, Unfold DEF Pipe
  <2>2. Current' = Current /\ Mine' = Mine /\ Saved' = Saved /\ attempts' \in Seq(AttemptRow)
    BY <1>3, Unfold DEF Current, Mine, Saved
  <2>3. Rows' /\ Reviewed' BY <1>1, <1>3, Unfold, RowsSame, ReviewedSame
  <2>4. FromReview' BY <1>1, <1>2, <1>3, <2>1, <2>2 DEF FromReview
  <2>5. Mine'.selection # NONE => Continues'
    BY <1>1, <1>2, <1>3, <2>1, <2>2 DEF Working, Continues, Proposals
  <2>6. Working' BY <1>2, <2>1, <2>2, <2>4, <2>5 DEF Working, Proposals
  <2>7. Running' BY <2>1 DEF Running
  <2> QED BY <1>1, <1>3, <2>1, <2>2, <2>3, <2>6, <2>7, Unfold, RunningStep
<1>4. CASE Mine.selection = NONE /\ Repairs("laying")
  BY <1>1, <1>2, <1>4, RepairsStep
<1>5. CASE Ends("failed", job.stale) /\ UNCHANGED <<review, attempts>>
  <2>1. job.stale \in BOOLEAN BY Unfold DEF JobRow
  <2> QED BY <1>1, <1>5, <2>1, Unfold, EndedQuietly
<1> QED BY <1>3, <1>4, <1>5 DEF Layout

LEMMA LaidStep ==
  ASSUME PreparedInv, Laid
  PROVE  PreparedInv'
<1> DEFINE fresh == Evaluated(review, 2)
<1>1. /\ pipe.pc = "laying" /\ Running /\ review' = fresh
      /\ UNCHANGED <<inputs, facts, halted, attempts, published>>
  BY DEF Laid, Running
<1>2. /\ Working /\ Saved = Proposals /\ pipe.review # NONE /\ FromReview
      /\ review # NONE /\ review \in Review /\ review.input = Mine.input
      /\ Current > 0 /\ pipe.previous < Current /\ Mine.selection = NONE
  BY <1>1, Unfold DEF Working, Continues
<1>3. fresh \in Review /\ fresh.by = review.by /\ fresh.input = review.input
  BY <1>2, Unfold, Evaluations
<1>4. \/ pipe' = [pipe EXCEPT !.pc = "layout", !.review = fresh, !.text = fresh.text] /\ UNCHANGED job
      \/ Blocks(FALSE)
  BY DEF Laid
<1>5. fresh.text \in Text /\ fresh.text # NONE /\ fresh # NONE
  BY <1>3, PreparedAssumption, NullAssumption DEF Review
<1> HIDE DEF fresh
<1>6. CASE Blocks(FALSE)
  <2>1. Ends("needs_input", FALSE) BY <1>6 DEF Blocks
  <2> QED BY <1>1, <1>2, <1>3, <2>1, Unfold, EndedQuietly
<1>7. CASE pipe' = [pipe EXCEPT !.pc = "layout", !.review = fresh, !.text = fresh.text] /\ UNCHANGED job
  <2>1. /\ pipe' \in Pipe /\ pipe'.pc = "layout" /\ pipe'.review = fresh
        /\ pipe'.text = fresh.text /\ pipe'.prefix = pipe.prefix /\ pipe'.previous = pipe.previous
    BY <1>3, <1>5, <1>7, Unfold DEF Pipe
  <2>2. Current' = Current /\ Mine' = Mine /\ Saved' = Saved /\ attempts' \in Seq(AttemptRow)
    BY <1>1, Unfold DEF Current, Mine, Saved
  <2>3. Rows' /\ Reviewed' BY <1>1, <1>2, <1>3, Unfold, RowsSame, ReviewedSame
  <2>4. FromReview' BY <1>1, <1>2, <1>3, <2>1, <2>2 DEF FromReview, Proposals
  <2>5. Working' BY <1>2, <1>5, <2>1, <2>2, <2>4 DEF Working, Proposals
  <2>6. Running' BY <2>1 DEF Running
  <2> QED BY <1>1, <1>3, <1>7, <2>1, <2>2, <2>3, <2>5, <2>6, RunningStep
<1> QED BY <1>4, <1>6, <1>7

LEMMA ProduceStep ==
  ASSUME PreparedInv, Produce
  PROVE  PreparedInv'
<1>1. /\ pipe.pc = "stage" /\ Running /\ Saved + 1 \in Proposals + 1 .. Compile
      /\ UNCHANGED <<inputs, facts, job, halted, review, published>>
  BY DEF Produce, Running
<1>2. Saved \in Nat /\ Saved \in Proposals .. Compile - 1 /\ Current \in Number
  BY <1>1, RunningRow DEF Proposals, Compile
<1>3. /\ Working /\ pipe.text # NONE /\ pipe.text \in Text /\ Current > 0 /\ pipe.previous < Current
      /\ pipe.review # NONE => FromReview
  BY <1>1, <1>2, Unfold DEF Working, Proposals, Compile, Pipe
<1>4. Saved = Deslop => Mine.saved[Deslop].text \in Text
  <2> SUFFICES ASSUME Saved = Deslop PROVE Mine.saved[Deslop].text \in Text
    OBVIOUS
  <2>1. Deslop \in 1..Saved /\ ~(Deslop < Proposals) BY DEF Deslop, Proposals
  <2>2. Mine.saved[Deslop] \in Checkpoint /\ Mine.saved[Deslop].text # NONE
    BY <1>1, <2>1, RunningRow
  <2> QED BY <2>2 DEF Checkpoint
<1>5. SourceOf(Saved + 1) \in Text /\ (pipe.review # NONE => SourceOf(Saved + 1) = pipe.text)
  <2>1. Saved + 1 = Compile => Saved = Deslop BY <1>2 DEF Compile, Deslop
  <2>2. SourceOf(Saved + 1) \in Text BY <1>3, <1>4, <2>1 DEF SourceOf
  <2>3. ASSUME pipe.review # NONE, Saved = Deslop PROVE Mine.saved[Deslop].text = pipe.text
    <3>1. Deslop \in Proposals + 1 .. Saved BY <2>3 DEF Deslop, Proposals
    <3> QED BY <1>3, <2>3, <3>1 DEF FromReview
  <2> QED BY <2>1, <2>2, <2>3 DEF SourceOf
<1>6. PICK by \in Number, text \in Text :
        /\ Save(by, text)
        /\ pipe' = pipe \/ pipe' = [pipe EXCEPT !.prefix = FALSE]
        /\ pipe.review # NONE => text = pipe.text
  <2>1. CASE Takes
    <3>1. Len(Old) > Saved /\ pipe.prefix BY <2>1 DEF Takes
    <3>2. Old[Saved + 1].by \in Number /\ Old[Saved + 1].text \in Text
      BY <1>1, <1>2, <3>1, OldRow DEF Proposals, Compile
    <3>3. pipe.review = NONE BY <1>3, <3>1 DEF FromReview
    <3> QED BY <2>1, <3>2, <3>3 DEF Produce
  <2>2. CASE ~Takes BY <1>2, <1>5, <2>2 DEF Produce
  <2> QED BY <2>1, <2>2
<1>7. /\ attempts' \in Seq(AttemptRow) /\ Rows' /\ Reviewed'
      /\ Current' = Current
      /\ Mine'.input = Mine.input /\ Mine'.selection = Mine.selection
      /\ Saved' = Saved + 1
      /\ \A s \in 1..Saved : Mine'.saved[s] = Mine.saved[s]
      /\ Mine'.saved[Saved + 1] = [by |-> by, text |-> text]
  <2>1. text # NONE /\ ~(Saved + 1 < Proposals)
    BY <1>2, PreparedAssumption DEF Proposals, Compile
  <2> QED BY <1>1, <1>6, <2>1, SavingStep
<1>8. /\ pipe' \in Pipe /\ pipe'.pc = "stage" /\ pipe'.review = pipe.review
      /\ pipe'.text = pipe.text /\ pipe'.previous = pipe.previous
      /\ ~pipe.prefix => ~pipe'.prefix
  BY <1>1, <1>6, Unfold DEF Pipe
<1>9. pipe.review # NONE => FromReview'
  <2> SUFFICES ASSUME pipe.review # NONE PROVE FromReview'
    OBVIOUS
  <2>1. FromReview BY <1>3
  <2>2. ASSUME NEW s \in Proposals + 1 .. Saved' PROVE Mine'.saved[s].text = pipe.text
    <3>1. CASE s \in 1..Saved
      <4>1. s \in Proposals + 1 .. Saved BY <1>2, <3>1 DEF Proposals
      <4> QED BY <1>7, <2>1, <3>1, <4>1 DEF FromReview
    <3>2. CASE s = Saved + 1 BY <1>6, <1>7, <3>2
    <3> QED BY <1>2, <1>7, <3>1, <3>2 DEF Proposals
  <2> QED BY <1>1, <1>7, <1>8, <2>1, <2>2 DEF FromReview
<1>10. Working'
  <2>1. Mine'.selection # NONE => Continues'
    BY <1>1, <1>2, <1>3, <1>7, <1>8 DEF Working, Continues, Proposals, Compile
  <2>2. ~(Saved' < Proposals) BY <1>2, <1>7 DEF Proposals, Compile
  <2> QED BY <1>3, <1>7, <1>8, <1>9, <2>1, <2>2 DEF Working
<1>11. Running' BY <1>8 DEF Running
<1> QED BY <1>1, <1>7, <1>8, <1>10, <1>11, Unfold, RunningStep

\* What an attempt has saved when it may publish.
LEMMA Ready ==
  ASSUME PreparedInv, At(Compile + 1)
  PROVE  /\ Running /\ Saved = Compile /\ Current \in Number
         /\ Mine.saved[Compile].text \in Text /\ Mine.saved[Deslop].text \in Text
         /\ pipe.text \in Text
         /\ pipe.review # NONE => /\ review = pipe.review
                                  /\ pipe.review.input = Mine.input
                                  /\ pipe.text = pipe.review.text
                                  /\ Mine.saved[Compile].text = pipe.text
                                  /\ Mine.saved[Deslop].text = pipe.text
<1>1. pipe.pc = "stage" /\ Running /\ Saved + 1 = Compile + 1 BY DEF At, Running
<1>2. Saved = Compile /\ Current \in Number BY <1>1, RunningRow DEF Compile
<1>3. {Compile, Deslop} \subseteq 1..Saved /\ ~(Compile < Proposals) /\ ~(Deslop < Proposals)
      /\ {Compile, Deslop} \subseteq Proposals + 1 .. Saved
  BY <1>2 DEF Compile, Deslop, Proposals
<1>4. \A s \in {Compile, Deslop} : Mine.saved[s].text \in Text
  BY <1>1, <1>3, RunningRow DEF Checkpoint
<1>5. pipe.text # NONE /\ pipe.text \in Text /\ (pipe.review # NONE => FromReview)
  BY <1>1, <1>2, Unfold DEF Working, Compile, Proposals, Pipe
<1> QED BY <1>1, <1>2, <1>3, <1>4, <1>5 DEF FromReview

LEMMA PublishStep ==
  ASSUME PreparedInv, Publish
  PROVE  PreparedInv'
<1>1. UNCHANGED <<inputs, facts, halted, review, attempts>> /\ At(Compile + 1)
  BY DEF Publish
<1>2. CASE /\ published' = [attempt |-> Current, pdf |-> Mine.saved[Compile].text,
                            candidate |-> Mine.saved[Deslop].text, listed |-> pipe.text,
                            version |-> IF pipe.review = NONE THEN 0 ELSE pipe.review.version]
           /\ Ends("resume_ready", FALSE)
  <2>1. pipe.review # NONE => pipe.review.version \in {1, 2} BY Unfold DEF Pipe, Review
  <2>2. published' \in Resume BY <1>1, <1>2, <2>1, Ready DEF Resume
  <2> QED BY <1>1, <1>2, <2>2, Unfold, EndedQuietly
<1>3. CASE Blocks(FALSE) /\ UNCHANGED published
  <2>1. Ends("needs_input", FALSE) BY <1>3 DEF Blocks
  <2> QED BY <1>1, <1>3, <2>1, Unfold, EndedQuietly
<1> QED BY <1>2, <1>3 DEF Publish

-----------------------------------------------------------------------------
(* Theorems *)

LEMMA InitInv == Init => PreparedInv
<1> SUFFICES ASSUME Init PROVE PreparedInv
  OBVIOUS
<1>1. Current = 0 /\ ~Running BY DEF Init, Current, Running, NoPipe
<1>2. NoPipe \in Pipe BY PreparedAssumption DEF NoPipe, Pipe
<1>3. TypeOK
  <2>1. attempts \in Seq(AttemptRow) /\ Len(attempts) = 0 BY DEF Init
  <2>2. pipe \in Pipe BY <1>2 DEF Init
  <2>3. inputs \in 0..MaxInputs BY PreparedAssumption DEF Init
  <2>4. facts \in [Text -> Resolution]
    <3>1. facts = [text \in Text |-> NONE] BY DEF Init
    <3> QED BY <3>1 DEF Resolution
  <2>5. job \in JobRow /\ halted \in BOOLEAN BY DEF Init, JobRow
  <2>6. review \in Review \cup {NONE} /\ published \in Resume \cup {NONE} BY DEF Init
  <2>7. Len(attempts) <= MaxAttempts BY <2>1, PreparedAssumption
  <2> QED BY <2>1, <2>2, <2>3, <2>4, <2>5, <2>6, <2>7 DEF TypeOK, JobRow
<1>4. Rows BY <1>1 DEF Rows, Selections, Texts, SameGround
<1>5. Reviewed /\ States /\ Working BY <1>1 DEF Init, Reviewed, States, Working
<1> QED BY <1>3, <1>4, <1>5 DEF PreparedInv

LEMMA StepInv == PreparedInv /\ [Next]_vars => PreparedInv'
<1> SUFFICES ASSUME PreparedInv, [Next]_vars PROVE PreparedInv'
  OBVIOUS
<1>1. CASE People
  BY <1>1, SaveReviewStep, ControlStep, HaltStep, LoseStep, RequestStep, ContinueStep, RecoverStep
     DEF People
<1>2. CASE Drain BY <1>2, DrainStep
<1>3. CASE Pipeline
  BY <1>3, StudyStep, SelectStep, GenerateStep, CheckedStep, TakeProposalsStep,
     LayoutStep, LaidStep, ProduceStep, PublishStep, LoseStep
     DEF Pipeline
<1>4. CASE UNCHANGED vars
  BY <1>4 DEF vars, PreparedInv, TypeOK, Rows, Selections, Texts, SameGround, Origin, Reviewed,
              States, Outdated, Working, Continues, FromReview, Running, Current, Mine, Saved
<1> QED BY <1>1, <1>2, <1>3, <1>4 DEF Next

LEMMA Invariance == Spec => []PreparedInv
BY InitInv, StepInv, PTL DEF Spec

\* The state of the preparation has its type.
THEOREM TypeCorrect == Spec => []TypeOK
<1>1. PreparedInv => TypeOK BY DEF PreparedInv
<1> QED BY <1>1, Invariance, PTL

\* A continued attempt works from the analysis and alignment of the attempt that
\* generated its review.
THEOREM SameGroundAlways == Spec => []SameGround
<1>1. PreparedInv => SameGround BY DEF PreparedInv, Rows
<1> QED BY <1>1, Invariance, PTL

\* Only Publish changes the published resume.
LEMMA OnlyPublish ==
  ASSUME [Next]_vars, published' # published
  PROVE  Publish
BY DEF vars, Next, People, Pipeline, SaveReview, CorrectBase, RefreshFacts, CaptureInputs,
       ChangeContext, StartAutomatic, Halt, Lose, Request, Continue, Recover, Decide, Drain,
       Study, Select, Generate, Checked, TakeProposals, Layout, Laid, Produce, Block

\* What an attempt publishes is what its review says, and the review is still the
\* active one.
THEOREM ReviewedIsAlwaysPublished == Spec => ReviewedIsPublished
<1> DEFINE Good == published' # published /\ pipe.review # NONE =>
                     /\ published'.pdf = pipe.review.text
                     /\ published'.candidate = pipe.review.text
                     /\ published'.listed = pipe.review.text
                     /\ review = pipe.review
<1>1. ASSUME PreparedInv, [Next]_vars PROVE Good
  <2> SUFFICES ASSUME published' # published, pipe.review # NONE
               PROVE  /\ published'.pdf = pipe.review.text
                      /\ published'.candidate = pipe.review.text
                      /\ published'.listed = pipe.review.text
                      /\ review = pipe.review
    OBVIOUS
  <2>1. Publish BY <1>1, OnlyPublish
  <2>2. At(Compile + 1) BY <2>1 DEF Publish
  <2>3. published' = [attempt |-> Current, pdf |-> Mine.saved[Compile].text,
                      candidate |-> Mine.saved[Deslop].text, listed |-> pipe.text,
                      version |-> IF pipe.review = NONE THEN 0 ELSE pipe.review.version]
    BY <2>1 DEF Publish
  <2> QED BY <1>1, <2>2, <2>3, Ready
<1>2. PreparedInv /\ [Next]_vars => [Good]_vars
  BY <1>1
<1>3. Spec => [][Good]_vars
  <2> HIDE DEF Good
  <2> QED BY <1>2, Invariance, PTL DEF Spec
<1> QED BY <1>3 DEF ReviewedIsPublished

\* A checked resume is published only for the newest, unchanged inputs, while its
\* claims are resolved.
THEOREM PublishedStaysCurrent == Spec => PublishedIsCurrent
<1> DEFINE Good == published' # published /\ published'.version = 2 =>
                     /\ Mine.input = inputs /\ ~job.stale
                     /\ facts[published'.pdf] # NONE
<1>1. ASSUME PreparedInv, [Next]_vars PROVE Good
  <2> SUFFICES ASSUME published' # published, published'.version = 2
               PROVE  /\ Mine.input = inputs /\ ~job.stale
                      /\ facts[published'.pdf] # NONE
    OBVIOUS
  <2>1. Publish BY <1>1, OnlyPublish
  <2>2. At(Compile + 1) BY <2>1 DEF Publish
  <2>3. /\ Publishable
        /\ published' = [attempt |-> Current, pdf |-> Mine.saved[Compile].text,
                         candidate |-> Mine.saved[Deslop].text, listed |-> pipe.text,
                         version |-> IF pipe.review = NONE THEN 0 ELSE pipe.review.version]
    BY <2>1 DEF Publish
  <2>4. pipe.review # NONE /\ pipe.review.version = 2 BY <2>3
  <2>5. pipe.review \in Review BY <1>1, <2>4, Unfold DEF Pipe
  <2>6. /\ pipe.review.input = inputs /\ ~job.stale /\ facts[pipe.review.text] # NONE
    BY <2>3, <2>4, <2>5, ReadyIsCurrent DEF Publishable
  <2> QED BY <1>1, <2>2, <2>3, <2>4, <2>6, Ready
<1>2. PreparedInv /\ [Next]_vars => [Good]_vars
  BY <1>1
<1>3. Spec => [][Good]_vars
  <2> HIDE DEF Good
  <2> QED BY <1>2, Invariance, PTL DEF Spec
<1> QED BY <1>3 DEF PublishedIsCurrent

\* A step that changes the review keeps its origin, or generates another.
LEMMA OnlyGenerate ==
  ASSUME PreparedInv, [Next]_vars, review # NONE, review'.by # review.by
  PROVE  Generate
<1>1. review \in Review BY Unfold
<1>2. Evaluated(review, 2).by = review.by BY <1>1, Unfold, Evaluations
<1>3. \A text \in Text, version \in {1, 2} :
        Evaluated([review EXCEPT !.text = text], version).by = review.by
  BY <1>1, Rewordings, Unfold, Evaluations
<1>4. review.version \in {1, 2} BY <1>1 DEF Review
<1>5. ~SaveReview
  <2> SUFFICES ASSUME SaveReview PROVE FALSE
    OBVIOUS
  <2>1. PICK text \in Text : review' = Evaluated([review EXCEPT !.text = text], 2) BY DEF SaveReview
  <2> QED BY <1>3, <2>1
<1>6. ~CorrectBase BY <1>3, <1>4 DEF CorrectBase
<1>7. ~RefreshFacts BY <1>2 DEF RefreshFacts
<1>8. ~Repairs("checking") /\ ~Repairs("laying") BY <1>3 DEF Repairs
<1>9. ~Checked BY <1>2, <1>8 DEF Checked
<1>10. ~Layout BY <1>8 DEF Layout
<1>11. ~Laid BY <1>2 DEF Laid
<1>12. ~UNCHANGED review OBVIOUS
<1>13. ~People
  BY <1>5, <1>6, <1>7, <1>12
     DEF People, CaptureInputs, ChangeContext, StartAutomatic, Halt, Lose, Request, Continue,
         Recover, Decide
<1>14. ~Drain BY <1>12 DEF Drain
<1>15. Pipeline => Generate
  BY <1>9, <1>10, <1>11, <1>12
     DEF Pipeline, Study, Select, TakeProposals, Produce, Publish, Block
<1> QED BY <1>12, <1>13, <1>14, <1>15 DEF Next, vars

\* A review gives way to another generation only when newer inputs were captured.
THEOREM EditsAlwaysGiveWay == Spec => EditsGiveWay
<1> DEFINE Good == review # NONE /\ review'.by # review.by => review.input < inputs
<1>1. ASSUME PreparedInv, [Next]_vars PROVE Good
  <2> SUFFICES ASSUME review # NONE, review'.by # review.by PROVE review.input < inputs
    OBVIOUS
  <2>1. Generate BY <1>1, OnlyGenerate
  <2>2. pipe.pc = "stage" /\ Running /\ Mine.selection = NONE /\ Saved + 1 = Proposals
    BY <2>1 DEF Generate, At, Running
  <2>3. Saved \in Nat BY <1>1, <2>2, RunningRow
  <2>4. Outdated BY <1>1, <2>2, <2>3, Unfold DEF Working, Proposals
  <2> QED BY <2>4 DEF Outdated
<1>2. PreparedInv /\ [Next]_vars => [Good]_review
  BY <1>1
<1>3. Spec => [][Good]_review
  <2> HIDE DEF Good
  <2> QED BY <1>2, Invariance, PTL DEF Spec
<1> QED BY <1>3 DEF EditsGiveWay

=============================================================================
