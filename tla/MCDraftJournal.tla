--------------------------- MODULE MCDraftJournal ---------------------------
(* A run without a draft, d1, whose adoption is the operation o1, and two    *)
(* fresh identifiers for what another operation continues.                   *)
EXTENDS DraftJournal

CONSTANTS d1, o1

MCAdoptOp == [d \in {d1} |-> o1]
MCTouchable == {<<d1, "artifact">>}
=============================================================================
