-------------------------- MODULE MCAlertReconciler --------------------------
(* Instances of AlertReconciler for TLC. *)
EXTENDS AlertReconciler, TLC

\* Fields that cannot drift.
OneBound == {[type |-> "above", threshold |-> 2]}

\* Two that can, the second at its boundary, and "above 0", which is refused.
LiveBounds ==
    {[type |-> "above", threshold |-> 2], [type |-> "below_or_equal", threshold |-> 0],
     [type |-> "above", threshold |-> 0]}

Symmetry == Permutations(Names)

=============================================================================
