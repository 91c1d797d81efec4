---------------------------- MODULE MCWidgetAdmin ----------------------------
(***************************************************************************)
(* Small instances of WidgetAdmin for TLC.                                 *)
(***************************************************************************)
EXTENDS WidgetAdmin, TLC

Symmetry == Permutations(Calls) \union Permutations(Owners)
              \union Permutations(Widgets)

\* Bodies that name one column or two, with values that a widget already has
\* and values it has not, and each kind of bad one.
MCBodies ==
    {[title |-> "b"],
     [title |-> "a", description |-> "null"],
     [button |-> "null", description |-> "b"],
     [button |-> "b"],
     [fields |-> "empty", button |-> "invalid"],
     [fields |-> "empty"],
     [fields |-> "null"],
     [fields |-> "a"],
     [title |-> "null"]}

=============================================================================
