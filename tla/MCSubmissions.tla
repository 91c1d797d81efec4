---------------------------- MODULE MCSubmissions ----------------------------
(***************************************************************************)
(* Small instances of Submissions for TLC.  The requests are               *)
(* interchangeable until they are sent, and so are the widgets; the runs   *)
(* that check no liveness use that symmetry.                               *)
(***************************************************************************)
EXTENDS Submissions, TLC

Symmetry == Permutations(Requests) \union Permutations(Widgets)

=============================================================================
