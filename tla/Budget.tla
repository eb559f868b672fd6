------------------------------- MODULE Budget -------------------------------
(***************************************************************************)
(* How much the world outside the provider does in one behaviour.  Each    *)
(* behaviour has one of Budgets to spend: failing calls, moves of people   *)
(* and installers, ends of the process, calls asked for, firings compared  *)
(* and ticks of the clock.  Every bound of the modules that extend this    *)
(* one is here, except the polls and restarts the code itself bounds.      *)
(***************************************************************************)
EXTENDS Integers

CONSTANT Budgets

Kinds == {"faults", "moves", "crashes", "asks", "firings", "ticks"}

ASSUME BudgetsAssumption == Budgets \subseteq [Kinds -> Nat]

VARIABLE left       \* what is left of the budget

Spend(kind) == left[kind] > 0 /\ left' = [left EXCEPT ![kind] = @ - 1]

\* A call fails: it was lost before the server applied it, or its response after.
CallFails == Spend("faults")

=============================================================================
