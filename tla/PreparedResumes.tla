--------------------------- MODULE PreparedResumes ---------------------------
(***************************************************************************)
(* How one job's resume is prepared: the staged pipeline (preparation.ts),  *)
(* the proposal review it generates, people edit and a later attempt        *)
(* continues (proposal-service.ts, proposal-repository.ts), and the ways    *)
(* an attempt is admitted (service.ts, worker.ts).                          *)
(*                                                                         *)
(* A transaction, and everything a pipeline does between two awaits, is one *)
(* action.  A pipeline that lost its attempt writes nothing any more        *)
(* (JobQueue shows it), so the newest attempt's pipeline is the only one.   *)
(***************************************************************************)
EXTENDS Naturals, Sequences

CONSTANTS
  Text,         \* what a resume may say once a review is applied
  Plain,        \* the texts that pass the checks that read no facts
  MaxAttempts,  \* bound: attempts of the job
  MaxInputs,    \* bound: input snapshots captured
  MaxRepairs,   \* the automatic repairs of an attempt
  Support,      \* what can resolve the claims of a text: evidence, a person
  NONE          \* the null reference

ASSUME PreparedAssumption ==
  /\ Plain \subseteq Text
  /\ MaxAttempts \in Nat /\ MaxInputs \in Nat /\ MaxRepairs \in Nat
  /\ NONE \notin Text \cup Support

VARIABLES
  inputs,       \* the newest input snapshot, 0 = none
  facts,        \* what is known of each text's claims under the newest inputs
  job,          \* the job row
  halted,       \* worker_control: stopped, or paused after the current job
  review,       \* the active revision of the active review, or NONE
  attempts,     \* the attempts, oldest first, with their checkpoints
  pipe,         \* memory of the newest attempt's pipeline
  published     \* the newest resume

vars == <<inputs, facts, job, halted, review, attempts, pipe, published>>

-----------------------------------------------------------------------------
(* Records *)

\* The stages that compute something, in order: analysis, alignment,
\* proposals, brief, deslop, compile.  Preflight and verify save a constant.
Proposals == 3
Deslop == 5
Compile == 6

Number == 1..MaxAttempts
Resolution == Support \cup {NONE}

\* Validation 1 reads no facts; validation 2 binds what resolved its claims.
Review == [by : Number,                  \* the attempt that generated it
           input : 1..MaxInputs,
           text : Text,
           version : {1, 2},
           basis : Resolution,
           ready : BOOLEAN]

\* The null reference is no review.
ASSUME NullAssumption == NONE \notin Review

Checkpoint == [by : Number, text : Text \cup {NONE}]

AttemptRow == [input : 1..MaxInputs,
               selection : Review \cup {NONE},   \* the review it continues
               saved : Seq(Checkpoint)]

Pipe == [pc : {"off", "stage", "checking", "layout", "laying"},
         previous : {0} \cup Number,             \* whose checkpoints it may take
         member : BOOLEAN,                       \* of an automatic batch
         recovers : BOOLEAN,                     \* a missing output
         prefix : BOOLEAN,                       \* nothing computed so far
         review : Review \cup {NONE},            \* activeReview
         text : Text \cup {NONE},                \* what applied says
         repairs : 0..MaxRepairs]

Resume == [attempt : Number, pdf : Text, candidate : Text, listed : Text,
           version : {0, 1, 2}]

TypeOK ==
  /\ inputs \in 0..MaxInputs
  /\ facts \in [Text -> Resolution]
  /\ job \in [state : {"saved", "queued", "preparing", "needs_input",
                       "resume_ready", "failed"},
              stale : BOOLEAN]
  /\ halted \in BOOLEAN
  /\ review \in Review \cup {NONE}
  /\ attempts \in Seq(AttemptRow) /\ Len(attempts) <= MaxAttempts
  /\ pipe \in Pipe
  /\ published \in Resume \cup {NONE}

-----------------------------------------------------------------------------
(* The newest attempt *)

Current == Len(attempts)
Mine == attempts[Current]
Saved == Len(Mine.saved)
Running == pipe.pc # "off"
NoPipe == [pc |-> "off", previous |-> 0, member |-> FALSE, recovers |-> FALSE,
           prefix |-> FALSE, review |-> NONE, text |-> NONE, repairs |-> 0]

\* The stage the pipeline works on when it has no other business.
At(stage) == pipe.pc = "stage" /\ Saved + 1 = stage

\* The attempt is over: its pipeline is gone.
Ends(state, stale) ==
  /\ job' = [state |-> state, stale |-> stale]
  /\ pipe' = NoPipe

\* PreparationBlocked: the recovery it names replaces the job's.
Blocks(stale) == Ends("needs_input", stale)

Save(by, text) ==
  attempts' = [attempts EXCEPT ![Current].saved = Append(@, [by |-> by, text |-> text])]

-----------------------------------------------------------------------------
(* Reviews *)

\* SemanticService.support: answers of replaced inputs resolve nothing.
Basis(r) == IF r.input = inputs /\ ~job.stale THEN facts[r.text] ELSE NONE

\* ProposalService.evaluate with the validation of this version.
Evaluated(r, version) ==
  IF version = 1
  THEN [r EXCEPT !.version = 1, !.basis = NONE, !.ready = r.text \in Plain]
  ELSE [r EXCEPT !.version = 2, !.basis = Basis(r), !.ready = Basis(r) # NONE]

\* The stored validation is what its inputs give now.
Holds(r) == Evaluated(r, r.version) = r
StillReady(r) == Holds(r) /\ r.ready

\* bound: the active review, of the newest inputs, and nothing running.
Editable == review # NONE /\ review.input = inputs /\ ~Running

\* save: new wording, decisions or groundings; remembering an amendment of the
\* evidence makes the captured inputs stale.
SaveReview ==
  /\ Editable
  /\ \E text \in Text :
       review' = Evaluated([review EXCEPT !.text = text], 2)
  /\ \E remember \in BOOLEAN : job' = [job EXCEPT !.stale = @ \/ remember]
  /\ UNCHANGED <<inputs, facts, halted, attempts, pipe, published>>

\* correctBase: the validation stays of its version.
CorrectBase ==
  /\ Editable
  /\ job.state \notin {"queued", "preparing"}
  /\ \E text \in Text \ {review.text} :
       review' = Evaluated([review EXCEPT !.text = text], review.version)
  /\ UNCHANGED <<inputs, facts, job, halted, attempts, pipe, published>>

\* refreshFacts without a fence, as the batch coordinator and a narrower
\* wording call it.
RefreshFacts ==
  /\ review # NONE /\ ~Running
  /\ review' = Evaluated(review, 2)
  /\ UNCHANGED <<inputs, facts, job, halted, attempts, pipe, published>>

\* An evidence check completes or a person answers: what resolves a text's
\* claims may change at any time.
Decide(text, resolution) ==
  /\ review # NONE /\ review.text = text
  /\ facts' = [facts EXCEPT ![text] = resolution]
  /\ UNCHANGED <<inputs, job, halted, review, attempts, pipe, published>>

-----------------------------------------------------------------------------
(* Inputs, control and the end of an attempt *)

\* captureInputs: nothing is known yet under the new snapshot.
CaptureInputs ==
  /\ inputs < MaxInputs
  /\ inputs' = inputs + 1
  /\ facts' = [text \in Text |-> NONE]
  /\ UNCHANGED <<job, halted, review, attempts, pipe, published>>

\* updateJob with another posting, company or role.
ChangeContext ==
  /\ job.state \notin {"queued", "preparing"}
  /\ Current > 0
  /\ job' = [state |-> "needs_input", stale |-> TRUE]
  /\ UNCHANGED <<inputs, facts, halted, review, attempts, pipe, published>>

StartAutomatic ==
  /\ halted' = FALSE
  /\ UNCHANGED <<inputs, facts, job, review, attempts, pipe, published>>

\* pauseAfterCurrent lets the attempt end; stopProcessing cancels it.
Halt ==
  /\ halted' = TRUE
  /\ \/ UNCHANGED <<job, pipe>>
     \/ Running /\ Ends("failed", job.stale)
  /\ UNCHANGED <<inputs, facts, review, attempts, published>>

\* Cancelled, failed, timed out, expired, crashed: the job states "failed",
\* "interrupted" and "cancelled", which retry alike, are "failed".  A job that
\* waits can be cancelled too.
Lose ==
  /\ job.state \in {"queued", "preparing", "needs_input"}
  /\ Ends("failed", job.stale)
  /\ UNCHANGED <<inputs, facts, halted, review, attempts, published>>

-----------------------------------------------------------------------------
(* Admission *)

\* claimJob and launch: an attempt begins with this input.
Begins(input, previous, selection, recovers) ==
  /\ Current < MaxAttempts
  /\ attempts' = Append(attempts, [input |-> input, selection |-> selection,
                                   saved |-> <<>>])
  /\ \E member \in BOOLEAN :
       pipe' = [NoPipe EXCEPT !.pc = "stage", !.previous = previous, !.member = member,
                              !.recovers = recovers, !.prefix = TRUE]
  /\ job' = [job EXCEPT !.state = "preparing"]

\* Fault: a request may replace the output of its own inputs.
NamesAnyInput(input) == input > 0
\* What JobsService.request admits: inputs the pages name, of another output.
Names(input) ==
  /\ input > 0
  /\ review # NONE => review.input # input
  /\ Current > 0 /\ job.stale => Mine.input # input

\* prepare, resume, retry, reprepare: the newest inputs, or those of the last
\* attempt.  Halted, the job is only queued and the inputs are forgotten.
Request ==
  /\ ~Running
  /\ \E input \in {inputs} \cup {attempts[a].input : a \in {Current} \ {0}} :
       /\ Names(input)
       /\ \/ /\ ~halted
             /\ Begins(input, Current, NONE, FALSE)
          \/ /\ halted /\ job.state # "saved"
             /\ job' = [job EXCEPT !.state = "queued"]
             /\ UNCHANGED <<attempts, pipe>>
  /\ UNCHANGED <<inputs, facts, halted, review, published>>

\* drain: the inputs of the last attempt, or a capture when there is none,
\* which may fail and ask for the setup.
Drain ==
  /\ ~halted /\ job.state = "queued"
  /\ \/ /\ Current > 0
        /\ Begins(Mine.input, Current, NONE, FALSE)
        /\ UNCHANGED <<inputs, facts>>
     \/ /\ Current = 0 /\ inputs < MaxInputs
        /\ inputs' = inputs + 1
        /\ facts' = [text \in Text |-> NONE]
        /\ Begins(inputs', 0, NONE, FALSE)
     \/ /\ Current = 0
        /\ Ends("needs_input", job.stale)
        /\ UNCHANGED <<inputs, facts, attempts>>
  /\ UNCHANGED <<halted, review, published>>

\* admitReview: not while halted, and only from a state that can go on.
Admits ==
  /\ ~halted
  /\ job.state \in {"needs_input", "resume_ready", "failed"}

\* Fault: it starts from the attempt before it.
BeginsFromLast(r) == Begins(r.input, Current, r, FALSE)
\* The attempt is bound to the review, and starts from the checkpoints of the
\* attempt that generated it.
BeginsFromReview(r) == Begins(r.input, r.by, r, FALSE)

\* continue: the exact ready revision.
Continue ==
  /\ Editable /\ Admits /\ ~job.stale
  /\ StillReady(review)
  /\ BeginsFromReview(review)
  /\ UNCHANGED <<inputs, facts, halted, review, published>>

\* recoverySource: the newest attempt on the same inputs that stopped at the
\* proposals.
Sources == {a \in 1..Current : /\ attempts[a].input = Mine.input
                               /\ Len(attempts[a].saved) = Proposals - 1}

\* recover: output was lost before a review of it existed.
Recover ==
  /\ review = NONE /\ ~Running /\ Admits /\ ~job.stale
  /\ job.state = "needs_input" /\ Current > 0
  /\ Mine.input = inputs /\ Saved = Proposals - 1
  /\ \E a \in Sources :
       /\ \A b \in Sources : b <= a
       /\ Begins(inputs, a, NONE, TRUE)
  /\ UNCHANGED <<inputs, facts, halted, review, published>>

-----------------------------------------------------------------------------
(* The pipeline: stages *)

\* The checkpoints run may take over: those of the previous attempt, if it
\* worked from the same inputs.
Old == IF pipe.previous > 0 /\ attempts[pipe.previous].input = Mine.input
       THEN attempts[pipe.previous].saved ELSE <<>>

\* Fault: the proposals of the generation are taken over although a review
\* of them was selected.
TakesSelected == pipe.prefix /\ Len(Old) > Saved
\* A stage is taken over as long as every one before it was, except the
\* proposals an attempt selected.
Takes == /\ pipe.prefix /\ Len(Old) > Saved
         /\ ~ (Saved + 1 = Proposals /\ Mine.selection # NONE)

\* analysis and alignment: computed from the inputs alone.
Study ==
  /\ pipe.pc = "stage" /\ Saved + 1 < Proposals
  /\ IF Takes
     THEN Save(Old[Saved + 1].by, NONE) /\ UNCHANGED pipe
     ELSE Save(Current, NONE) /\ pipe' = [pipe EXCEPT !.prefix = FALSE]
  /\ UNCHANGED <<inputs, facts, job, halted, review, published>>

\* The proposals stage ends with this review and what it says.
Adopts(by, r, text, prefix) ==
  /\ Save(by, text)
  /\ pipe' = [pipe EXCEPT !.pc = IF pipe.member /\ r # NONE THEN "layout" ELSE "stage",
                          !.prefix = prefix, !.review = r, !.text = text]
  /\ UNCHANGED job

\* A continued attempt works from the review it selected.
Select ==
  /\ At(Proposals) /\ Mine.selection # NONE /\ ~Takes
  /\ IF StillReady(Mine.selection)
     THEN Adopts(Current, Mine.selection, Mine.selection.text, FALSE)
     ELSE Ends("failed", job.stale) /\ UNCHANGED attempts
  /\ UNCHANGED <<inputs, facts, halted, review, published>>

\* The model's proposals are saved as a generation with an initial review,
\* which becomes the active one; a member's may be repaired at once.  Then the
\* evidence check starts, if the inputs are still the newest.
Generate ==
  /\ At(Proposals) /\ Mine.selection = NONE /\ ~Takes
  /\ \E text \in Text, version \in {1} \cup (IF pipe.member THEN {2} ELSE {}) :
       LET first == [by |-> Current, input |-> Mine.input, text |-> text,
                     version |-> 1, basis |-> NONE, ready |-> FALSE]
       IN review' = Evaluated(first, version)
  /\ IF Mine.input = inputs /\ ~job.stale
     THEN pipe' = [pipe EXCEPT !.pc = "checking", !.prefix = FALSE] /\ UNCHANGED job
     ELSE Blocks(TRUE)
  /\ UNCHANGED <<inputs, facts, halted, attempts, published>>

\* A narrower or shorter wording of the worker's own, then another check.
Repairs(pc) ==
  /\ pipe.member /\ pipe.repairs < MaxRepairs
  /\ \E text \in Text \ {review.text} :
       review' = Evaluated([review EXCEPT !.text = text], 2)
  /\ pipe' = [pipe EXCEPT !.pc = pc, !.repairs = @ + 1]
  /\ UNCHANGED <<job, attempts>>

\* The check is over: the facts are read again, and the review stands, is
\* repaired, or waits for a person.  Recovered output always waits.
Checked ==
  LET fresh == Evaluated(review, 2)
      waits == pipe.recovers /\ ~pipe.member
  IN /\ pipe.pc = "checking"
     /\ \/ /\ fresh.ready /\ ~waits
           /\ review' = fresh
           /\ Adopts(Current, fresh, fresh.text, FALSE)
        \/ /\ ~fresh.ready \/ waits
           /\ review' = fresh
           /\ Blocks(FALSE) /\ UNCHANGED attempts
        \/ ~fresh.ready /\ Repairs("checking")
     /\ UNCHANGED <<inputs, facts, halted, published>>

\* Proposals taken over: the active review of these inputs, if it was checked,
\* speaks for them and must hold unchanged.  Otherwise the saved proposals do.
TakeProposals ==
  LET old == Old[Proposals]
      speaks == review # NONE /\ review.version = 2 /\ review.input = Mine.input
  IN /\ At(Proposals) /\ Takes
     /\ \/ /\ speaks /\ StillReady(review)
           /\ Adopts(old.by, review, review.text, TRUE)
        \/ /\ ~speaks /\ old.text \in Plain
           /\ Adopts(old.by, NONE, old.text, TRUE)
        \/ /\ IF speaks THEN ~StillReady(review) ELSE old.text \notin Plain
           /\ Save(old.by, old.text)
           /\ Blocks(FALSE)
     /\ UNCHANGED <<inputs, facts, halted, review, published>>

-----------------------------------------------------------------------------
(* The pipeline: layout, rendering, publication *)

\* A member's candidate is rendered before the brief.  If it overflows,
\* repeated sentences may go, which only the attempt that generated the review
\* and did not select it may write.
Layout ==
  /\ pipe.pc = "layout"
  /\ \/ /\ pipe' = [pipe EXCEPT !.pc = "stage"]
        /\ UNCHANGED <<job, review, attempts>>
     \/ /\ Mine.selection = NONE /\ pipe.review.by = Current
        /\ Repairs("laying")
     \/ /\ Mine.selection # NONE \/ pipe.review.by # Current
        /\ pipe.repairs < MaxRepairs
        /\ Ends("failed", job.stale)
        /\ UNCHANGED <<review, attempts>>
  /\ UNCHANGED <<inputs, facts, halted, published>>

\* The check of the shortened wording is over.
Laid ==
  LET fresh == Evaluated(review, 2)
  IN /\ pipe.pc = "laying"
     /\ review' = fresh
     /\ \/ /\ fresh.ready
           /\ pipe' = [pipe EXCEPT !.pc = "layout", !.review = fresh, !.text = fresh.text]
           /\ UNCHANGED job
        \/ ~fresh.ready /\ Blocks(FALSE)
     /\ UNCHANGED <<inputs, facts, halted, attempts, published>>

\* The brief and the cleaned candidate are made of the applied proposals, the
\* PDF of the cleaned candidate; a member's was rendered in the layout.
SourceOf(stage) ==
  IF stage = Compile /\ ~(pipe.member /\ pipe.review # NONE)
  THEN Mine.saved[Deslop].text ELSE pipe.text

Produce ==
  /\ pipe.pc = "stage" /\ Saved + 1 \in Proposals + 1 .. Compile
  /\ IF Takes
     THEN Save(Old[Saved + 1].by, Old[Saved + 1].text) /\ UNCHANGED pipe
     ELSE /\ Save(Current, SourceOf(Saved + 1))
          /\ pipe' = [pipe EXCEPT !.prefix = FALSE]
  /\ UNCHANGED <<inputs, facts, job, halted, review, published>>

\* Fault: the facts are not read again.
PublishableAsBegun == TRUE
\* A checked review must still say what it said.
Publishable ==
  pipe.review # NONE /\ pipe.review.version = 2 => StillReady(pipe.review)

\* The publishing transaction, and the completion of the attempt after it.
Publish ==
  /\ At(Compile + 1)
  /\ \/ /\ Publishable
        /\ published' = [attempt |-> Current, pdf |-> Mine.saved[Compile].text,
                         candidate |-> Mine.saved[Deslop].text, listed |-> pipe.text,
                         version |-> IF pipe.review = NONE THEN 0 ELSE pipe.review.version]
        /\ Ends("resume_ready", FALSE)
     \/ /\ ~Publishable
        /\ Blocks(FALSE)
        /\ UNCHANGED published
  /\ UNCHANGED <<inputs, facts, halted, review, attempts>>

\* Anything else that needs a person: setup, consent, alignment, layout.
Block ==
  /\ Running
  /\ Blocks(FALSE)
  /\ UNCHANGED <<inputs, facts, halted, review, attempts, published>>

-----------------------------------------------------------------------------
Init ==
  /\ inputs = 0
  /\ facts = [text \in Text |-> NONE]
  /\ job = [state |-> "saved", stale |-> FALSE]
  /\ halted = FALSE
  /\ review = NONE
  /\ attempts = <<>>
  /\ pipe = NoPipe
  /\ published = NONE

People ==
  \/ SaveReview \/ CorrectBase \/ RefreshFacts
  \/ CaptureInputs \/ ChangeContext \/ StartAutomatic \/ Halt \/ Lose
  \/ Request \/ Continue \/ Recover
  \/ \E text \in Text, resolution \in Resolution : Decide(text, resolution)

Pipeline ==
  \/ Study \/ Select \/ Generate \/ Checked \/ TakeProposals
  \/ Layout \/ Laid \/ Produce \/ Publish \/ Block

Next == People \/ Drain \/ Pipeline

Spec == Init /\ [][Next]_vars

-----------------------------------------------------------------------------
(* Properties *)

\* An attempt that works from a review publishes what that review says: the
\* PDF, the saved candidate and the listed proposals agree, and the review is
\* still the active one, however often it was edited, continued, interrupted
\* and continued again (preparation.ts).
ReviewedIsPublished ==
  [][published' # published /\ pipe.review # NONE =>
       /\ published'.pdf = pipe.review.text
       /\ published'.candidate = pipe.review.text
       /\ published'.listed = pipe.review.text
       /\ review = pipe.review]_vars

\* An attempt that continues a review works from the analysis and alignment
\* the review was validated against, which are those of the attempt that
\* generated it, also when an earlier continuation broke off in the middle
\* (preparation.ts, previousAttemptId).
SameGround ==
  \A a \in 1..Current :
    LET r == attempts[a].selection
    IN r # NONE => \A stage \in 1..Len(attempts[a].saved) :
         stage < Proposals => attempts[a].saved[stage] = attempts[r.by].saved[stage]

\* A checked resume is published only for the newest, unchanged inputs and
\* while every claim is resolved, although inputs, postings and answers may
\* change at every await of the pipeline (preparation.ts, publication).
PublishedIsCurrent ==
  [][published' # published /\ published'.version = 2 =>
       /\ Mine.input = inputs /\ ~job.stale
       /\ facts[published'.pdf] # NONE]_vars

\* A saved review, with what people wrote into it, gives way to another
\* generation only when newer inputs were captured: neither a retry, nor a
\* drain that resumes an older attempt, replaces it (service.ts, request).
EditsGiveWay ==
  [][review # NONE /\ review'.by # review.by => review.input < inputs]_review

\* Every resume an attempt publishes went through the evidence check: the
\* continuation requires all checks to pass (semantic-evidence-review.md).
PublishedIsChecked == published # NONE => published.version = 2
=============================================================================
