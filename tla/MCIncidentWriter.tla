-------------------------- MODULE MCIncidentWriter --------------------------
(* Instances of IncidentWriter for TLC. *)
EXTENDS IncidentWriter, TLC

\* One answer per way RunAnalysis ends: a failed call, prose without a structured block, a root
\* cause without scripts, a complete analysis.
MCAnswers ==
    { [failed |-> TRUE,  cause |-> FALSE, report |-> FALSE, fix |-> FALSE],
      [failed |-> FALSE, cause |-> FALSE, report |-> TRUE,  fix |-> FALSE],
      [failed |-> FALSE, cause |-> TRUE,  report |-> TRUE,  fix |-> FALSE],
      [failed |-> FALSE, cause |-> TRUE,  report |-> TRUE,  fix |-> TRUE] }

\* The two that decide whether an incident is compared or held.
MCTwoAnswers ==
    { [failed |-> TRUE,  cause |-> FALSE, report |-> FALSE, fix |-> FALSE],
      [failed |-> FALSE, cause |-> TRUE,  report |-> TRUE,  fix |-> TRUE] }

\* Two incidents of an alert are enough for every rule that relates an incident to the next one.
TwoIncidents == Cardinality({i \in Ids : incidents[i].state # "Absent"}) <= 2

Symmetry == Permutations(Alerts) \cup Permutations(Procs)

=============================================================================
