----------------------------- MODULE MCRenderer -----------------------------
(***************************************************************************)
(* Small instances of Renderer for TLC.                                    *)
(***************************************************************************)
EXTENDS Renderer, TLC

Symmetry == Permutations(Requests) \union Permutations(Tokens)

=============================================================================
