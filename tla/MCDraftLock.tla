---------------------------- MODULE MCDraftLock ----------------------------
(* Small instances of DraftLock for TLC: calls are interchangeable, and so    *)
(* are the processes whose identifier is, or is not, given out again.         *)
EXTENDS DraftLock, TLC

Symmetry ==
  Permutations(Call) \cup Permutations(Reused) \cup Permutations(Process \ Reused)
=============================================================================
