-------------------------- MODULE IncidentLifecycle --------------------------
(***************************************************************************)
(* What the incident writer promises of an alert's incidents, without its  *)
(* calls, locks, slots, retries and restarts: an incident opens only when  *)
(* its alert has none in progress, gets its one outcome (an analysis, or   *)
(* the error of a restart) in one step, which opens it unless someone else *)
(* moved it first, and is then moved by the others only.                   *)
(***************************************************************************)
CONSTANTS Ids,      \* the incidents
          AlertOf   \* the alert of each

VARIABLES state,    \* of each incident
          outcome   \* of each incident, "none" until it is written

vars == <<state, outcome>>

InProgress(i) == state[i] \in {"Unset", "Analyzing"}
Set(i, s) == state' = [state EXCEPT ![i] = s]
Write(i, o) == outcome[i] = "none" /\ outcome' = [outcome EXCEPT ![i] = o]

Init ==
    /\ state = [i \in Ids |-> "Absent"]
    /\ outcome = [i \in Ids |-> "none"]

\* A firing nothing covers opens an incident.
Opens(i) ==
    /\ state[i] = "Absent"
    /\ \A j \in Ids : AlertOf[j] = AlertOf[i] => ~InProgress(j)
    /\ Set(i, "Unset")
    /\ UNCHANGED outcome

\* Its RCA starts.
Starts(i) ==
    /\ state[i] = "Unset"
    /\ Set(i, "Analyzing")
    /\ UNCHANGED outcome

\* Its RCA ends: with scripts, or with the reason it has none.
Concludes(i) ==
    /\ state[i] # "Absent"
    /\ \E o \in {"scripts", "noScripts"} : Write(i, o)
    /\ IF InProgress(i) THEN Set(i, "Open") ELSE UNCHANGED state

\* A restart interrupted its RCA.
Interrupts(i) ==
    /\ InProgress(i)
    /\ Write(i, "interrupted")
    /\ Set(i, "Open")

\* The incident controller and humans.
Moves(i) ==
    /\ \/ state[i] \notin {"Absent", "Closed"} /\ Set(i, "Closed")
       \/ state[i] \in {"Analyzing", "Open"} /\ Set(i, "Verifying")
       \/ state[i] = "Verifying" /\ \E s \in {"Open", "Resolved"} : Set(i, s)
    /\ UNCHANGED outcome

Next == \E i \in Ids : Opens(i) \/ Starts(i) \/ Concludes(i) \/ Interrupts(i) \/ Moves(i)
Spec == Init /\ [][Next]_vars

=============================================================================
