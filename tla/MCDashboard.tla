----------------------------- MODULE MCDashboard -----------------------------
(***************************************************************************)
(* Small instances of Dashboard for TLC.                                   *)
(***************************************************************************)
EXTENDS Dashboard, TLC

Symmetry == Permutations(Leads) \union Permutations(Widgets)

\* West of Greenwich, on it, and east of it.
MCOffsets == {-1, 0, 1}

=============================================================================
