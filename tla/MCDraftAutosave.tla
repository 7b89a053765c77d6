-------------------------- MODULE MCDraftAutosave --------------------------
(* Two pages with a choice, two with a fault, and one page in more depth. *)
EXTENDS DraftAutosave

MCBounds ==
  {[pages |-> 2, edits |-> 2, choices |-> 1, faults |-> 0],
   [pages |-> 2, edits |-> 2, choices |-> 0, faults |-> 1],
   [pages |-> 1, edits |-> 3, choices |-> 1, faults |-> 1]}
=============================================================================
