-------------------------------- MODULE Rules --------------------------------
(***************************************************************************)
(* The threshold rules of the Alert controller (rules.go): an alert whose  *)
(* comparison has one outcome for every count carries no information and   *)
(* is refused before anything is read.                                     *)
(*                                                                         *)
(* A threshold is a JSON number, counted here in halves: an odd one lies   *)
(* between two counts.  An unset one is 1, an unset type "above", and the  *)
(* case of a type does not matter.  "between" and "not_between" need a     *)
(* second threshold, which an Alert does not have.                         *)
(***************************************************************************)
EXTENDS Integers

Types == {"above", "below", "above_exclusive", "below_or_equal", "equal", "not_equal"}
Bound == [type : Types, threshold : Int]

\* HyperDX's comparison of a count of rows.
Fires(b, count) ==
    \/ b.type = "above"           /\ 2 * count >= b.threshold
    \/ b.type = "below"           /\ 2 * count < b.threshold
    \/ b.type = "above_exclusive" /\ 2 * count > b.threshold
    \/ b.type = "below_or_equal"  /\ 2 * count <= b.threshold
    \/ b.type = "equal"           /\ 2 * count = b.threshold
    \/ b.type = "not_equal"       /\ 2 * count # b.threshold

\* The outcome is the same for every count.
Decided(b, counts) == \A m, n \in counts : Fires(b, m) <=> Fires(b, n)

\* The types Tautology has a case for; it lets any threshold of another type pass.
Judged == {"above", "below", "below_or_equal"}

\* Fault: "above" is taken for strictly greater, as the examples' README has it.
Tautology_Strict(b) == b.type \in Judged /\ b.threshold < 0

\* The alert can never change state, and is refused.
Tautology(b) ==
    \/ b.type \in {"above", "below"} /\ b.threshold <= 0
    \/ b.type = "below_or_equal" /\ b.threshold < 0

=============================================================================
