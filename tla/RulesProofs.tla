----------------------------- MODULE RulesProofs -----------------------------
(* What the threshold rules refuse, for every threshold and every count. *)
EXTENDS Rules, TLAPS

\* Tautology (rules.go) refuses no alert that could ever change state, whatever its type.
THEOREM RefusesOnlyDecided ==
    ASSUME NEW b \in Bound, Tautology(b)
    PROVE  Decided(b, Nat)
<1> SUFFICES ASSUME NEW m \in Nat, NEW n \in Nat
             PROVE  Fires(b, m) <=> Fires(b, n)
  BY DEF Decided
<1>1. CASE b.type = "above" /\ b.threshold <= 0
  BY <1>1 DEF Fires, Bound
<1>2. CASE b.type = "below" /\ b.threshold <= 0
  BY <1>2 DEF Fires, Bound
<1>3. CASE b.type = "below_or_equal" /\ b.threshold < 0
  BY <1>3 DEF Fires, Bound
<1> QED
  BY <1>1, <1>2, <1>3 DEF Tautology

\* Of the types it judges, "above", "below" and "below_or_equal", it refuses every alert that has
\* one outcome: an empty window and one with more rows than the threshold would differ.
THEOREM RefusesEveryDecided ==
    ASSUME NEW b \in Bound, b.type \in Judged, Decided(b, Nat)
    PROVE  Tautology(b)
<1> SUFFICES ASSUME ~Tautology(b)
             PROVE  FALSE
  OBVIOUS
<1> DEFINE many == b.threshold + 1
<1>1. b.threshold >= 0
  BY DEF Tautology, Judged, Bound
<1>2. many \in Nat /\ 0 \in Nat
  BY <1>1 DEF Bound
<1>3. Fires(b, 0) <=> Fires(b, many)
  BY <1>2 DEF Decided
<1>4. CASE b.type = "above" /\ b.threshold > 0
  BY <1>3, <1>4 DEF Fires, Bound
<1>5. CASE b.type = "below" /\ b.threshold > 0
  BY <1>3, <1>5 DEF Fires, Bound
<1>6. CASE b.type = "below_or_equal" /\ b.threshold >= 0
  BY <1>3, <1>6 DEF Fires, Bound
<1> QED
  BY <1>4, <1>5, <1>6 DEF Tautology, Judged, Bound

=============================================================================
