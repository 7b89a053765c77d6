----------------------------- MODULE MCJobQueue -----------------------------
(* Small instances of JobQueue for TLC.  Jobs, attempts and inputs are       *)
(* interchangeable; processes are not (some drain, some do not).             *)
EXTENDS JobQueue, TLC

Symmetry == Permutations(Job) \cup Permutations(Attempt) \cup Permutations(Input)
=============================================================================
