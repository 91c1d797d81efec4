----------------------------- MODULE MCJobQueue -----------------------------
(***************************************************************************)
(* Small instances of JobQueue for TLC.  Jobs are interchangeable, and so  *)
(* are workers; the runs without liveness use that symmetry.               *)
(***************************************************************************)
EXTENDS JobQueue, TLC

Symmetry == Permutations(Jobs) \union Permutations(Workers)

=============================================================================
