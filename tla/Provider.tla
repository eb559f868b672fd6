------------------------------- MODULE Provider -------------------------------
(***************************************************************************)
(* The provider around its two controllers (main.go): the Job provisions   *)
(* the key, without which the Deployment's pod does not start; a started   *)
(* process seeds the default Alerts, and its RCA calls and comparisons     *)
(* share one service JWT.  The process may end at any step, and the next   *)
(* one starts from what the cluster holds.  What a process does with       *)
(* firings and Alerts is in IncidentWriter and AlertReconciler.            *)
(***************************************************************************)
EXTENDS Bootstrap, Seeder, Comparison

VARIABLE process        \* "down" or "up"

vars == <<process, left, bootVars, seedVars, comparisonVars>>

\* What only a running process has.
inProcess == <<seeder, known, comparisonVars>>

Init ==
    /\ process = "down"
    /\ left \in Budgets
    /\ BootstrapInit
    /\ SeederInit
    /\ JWTInit
    /\ ComparisonInit

\* The pod starts once the Secret has the accessKey its environment names.
ProcessStarts ==
    /\ process = "down"
    /\ secret.access # 0
    /\ process' = "up"
    /\ SeederStarts
    /\ UNCHANGED <<left, bootVars, crd, alerts, comparisonVars>>

\* A crash, or SIGTERM.
ProcessEnds ==
    /\ process = "up"
    /\ Spend("crashes")
    /\ process' = "down"
    /\ SeederStops /\ JWTStops /\ ComparisonStops
    /\ UNCHANGED <<bootVars, crd, alerts>>

\* An RCA call asks for the JWT.
RCACalls(c) ==
    /\ process = "up"
    /\ Spend("asks")
    /\ CallGet(c)

RCACallers == Callers \ {Comparer}

BootstrapSteps == BootstrapNext /\ UNCHANGED <<process, seedVars, comparisonVars>>
SeederSteps == (Seeds \/ SeederOthers) /\ UNCHANGED <<process, bootVars, comparisonVars>>
JWTSteps ==
    /\ \/ \E c \in Callers : Lock(c) \/ Exchange(c)
       \/ \E c \in RCACallers : RCACalls(c) \/ (CallOver(c) /\ UNCHANGED left)
       \/ JWTTick
    /\ UNCHANGED <<process, bootVars, seedVars, comparison>>
ComparisonSteps ==
    /\ (process = "up" /\ StartComparison) \/ Compares
    /\ UNCHANGED <<process, bootVars, seedVars>>

Next ==
    \/ ProcessStarts \/ ProcessEnds
    \/ BootstrapSteps \/ SeederSteps \/ JWTSteps \/ ComparisonSteps

Spec == Init /\ [][Next]_vars

\* Nothing forces a crash, a move of people, a firing, an RCA call or the clock.
Fairness ==
    /\ WF_vars(ProcessStarts)
    /\ BootstrapFairness /\ SeederFairness /\ JWTFairness /\ ComparisonFairness
FairSpec == Spec /\ Fairness

-----------------------------------------------------------------------------

\* Every variable has its type; in particular the Job is restarted BackoffLimit times at most.
TypeOK ==
    /\ process \in {"down", "up"}
    /\ left \in [Kinds -> Nat]
    /\ BootstrapTypeOK /\ SeederTypeOK /\ JWTTypeOK /\ ComparisonTypeOK

=============================================================================
