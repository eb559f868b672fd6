----------------------- MODULE IncidentLifecycleProofs -----------------------
(***************************************************************************)
(* One process keeps the promise IncidentLifecycle states, for every value *)
(* of the constants: each step of the writer, the controller or a human is *)
(* a step of IncidentLifecycle or leaves its variables alone.              *)
(***************************************************************************)
EXTENDS IncidentInvariantProofs

\* No outcome is written while someone is still to write it.
NotYet ==
    \A i \in Ids :
        \/ incidents[i].state \in {"Absent", "Unset", "Analyzing"}
        \/ \E p \in Procs : Handles(p, i)
        => incidents[i].completedAt = Unset

\* The incident about to be marked is new, or a human has closed it.
MarksUnset ==
    \A p \in Procs, a \in Alerts :
        eval[p][a].pc = "marking" => incidents[eval[p][a].target].state \in {"Unset", "Closed"}

PromiseInv == PickInv /\ OneHandler /\ NotYet /\ MarksUnset

\* A sweeping process handles nothing.
LEMMA SweepHandlesNothing ==
    ASSUME OneProcess, PhaseKept, NEW p \in Procs, NEW q \in Procs, NEW i \in Ids,
           sweep[p] # {}
    PROVE  ~Handles(q, i) /\ \A a \in Alerts : eval[q][a].pc = "idle"
<1>1. phase[p] = "sweeping" /\ p = q
  BY DEF PhaseKept, OneProcess
<1> QED
  BY <1>1 DEF PhaseKept, Handles

LEMMA NextNotYet == ASSUME OneProcess, PromiseInv, [Next]_vars PROVE NotYet'
<1> SUFFICES ASSUME NEW j \in Ids,
                    \/ incidents'[j].state \in {"Absent", "Unset", "Analyzing"}
                    \/ \E p \in Procs : Handles(p, j)'
             PROVE  incidents'[j].completedAt = Unset
  BY DEF NotYet, Handles
<1>0. /\ TypeInv /\ TypeOK /\ PhaseKept /\ FreshIsCurrent /\ OneHandler /\ NotYet
      /\ incidents[j] \in Incident
  BY DEF PromiseInv, PickInv, BaseInv, TypeInv, TypeOK
<1>1. Created.completedAt = Unset
  BY DEF Created, Absent
<1>2. ASSUME NEW p \in Procs, Handles(p, j)', incidents'[j] # Created PROVE Handles(p, j)
  BY <1>0, <1>2, HandlesSteps
<1>3. CASE incidents'[j] = incidents[j]
  BY <1>0, <1>1, <1>2, <1>3 DEF NotYet
<1>4. CASE ByOthers(j)
  <2>1. incidents'[j].state # "Absent"
    BY <1>0, <1>4, NextKeepsIncidents DEF ByOthers
  <2>2. PICK p \in Procs : Handles(p, j)'
    BY <1>4, <2>1 DEF ByOthers, analyzingOrUnset
  <2> QED
    BY <1>0, <1>1, <1>2, <1>4, <2>2 DEF ByOthers, NotYet
<1>5. CASE BySweep(j)
  <2>1. PICK p \in Procs : /\ j \in sweep[p] /\ incidents'[j] = Interrupted(j)
                           /\ UNCHANGED <<rca, eval>>
    BY <1>5 DEF BySweep
  <2>2. incidents'[j].state = "Open"
    BY <1>0, <2>1 DEF Interrupted, Incident
  <2>3. PICK q \in Procs : Handles(q, j)'
    BY <2>2
  <2>4. Handles(q, j)
    BY <2>1, <2>3 DEF Handles
  <2> QED
    BY <1>0, <2>1, <2>4, SweepHandlesNothing
<1>6. CASE ByCreate(j)
  BY <1>1, <1>6 DEF ByCreate
<1>7. CASE ByMark(j)
  <2>1. incidents[j].completedAt = Unset
    BY <1>0, <1>7 DEF ByMark, NotYet, Handles
  <2> QED
    BY <1>0, <1>7, <2>1 DEF ByMark, Incident
<1>8. CASE ByAnalysis(j)
  <2>1. PICK p \in Procs : /\ rca[p][j].pc = "writing" /\ j \in fresh[p]
                           /\ incidents'[j] = Analyzed(incidents[j], rca[p][j])
                           /\ rca'[p][j] = NoAnalysis
                           /\ UNCHANGED eval
    BY <1>8 DEF ByAnalysis
  <2>2. incidents'[j].state = IF rca[p][j].working THEN "Open" ELSE incidents[j].state
    BY <1>0, <2>1 DEF Analyzed, Incident
  <2>3. incidents[j].state # "Absent"
    BY <1>0, <2>1 DEF TypeInv, AnalysisExists
  <2>4. incidents'[j].state \notin {"Absent", "Unset", "Analyzing"}
    BY <1>0, <2>1, <2>2, <2>3 DEF FreshIsCurrent, analyzingOrUnset
  <2>5. PICK q \in Procs : Handles(q, j)'
    BY <2>4
  <2>6. p = q
    BY DEF OneProcess
  <2> QED
    BY <1>0, <2>1, <2>5, <2>6 DEF Handles, NoAnalysis, TypeInv, MarksOnce
<1> QED
  BY <1>0, <1>3, <1>4, <1>5, <1>6, <1>7, <1>8, IncidentSteps

LEMMA NextMarksUnset == ASSUME OneProcess, PromiseInv, [Next]_vars PROVE MarksUnset'
<1>0. /\ TypeInv /\ TypeOK /\ PhaseKept /\ MarksUnset
      /\ TypeOK' /\ MarksCreated' /\ MarksOnce'
  BY NextType, NextMarksCreated, NextMarksOnce DEF PromiseInv, PickInv, BaseInv, TypeInv
<1>1. ASSUME NEW q \in Procs, NEW b \in Alerts, eval'[q][b].pc = "marking"
      PROVE  eval'[q][b].target \in Ids /\ eval'[q][b].target[1] = b
  <2>1. eval'[q][b].target = <<b, eval'[q][b].at>> /\ eval'[q][b].at \in Time
    BY <1>0, <1>1 DEF MarksCreated, TypeOK, Evaluation
  <2> QED
    BY <2>1 DEF Ids
<1> SUFFICES ASSUME NEW q \in Procs, NEW b \in Alerts, NEW j \in Ids,
                    eval'[q][b].pc = "marking", eval'[q][b].target = j, j[1] = b
             PROVE  incidents'[j].state \in {"Unset", "Closed"}
  BY <1>1 DEF MarksUnset
<1>2. CASE eval'[q][b] = eval[q][b]
  <2>1. eval[q][b].pc = "marking" /\ eval[q][b].target = j /\ incidents[j].state \in {"Unset", "Closed"}
    BY <1>0, <1>2 DEF MarksUnset
  <2>2. incidents[j] \in Incident
    BY <1>0 DEF TypeOK
  <2>3. CASE ByOthers(j)
    BY <2>1, <2>3 DEF ByOthers, analyzingOrUnset
  <2>4. CASE BySweep(j)
    BY <1>0, <2>1, <2>4, SweepHandlesNothing DEF BySweep
  <2>5. CASE ByCreate(j)
    BY <2>1, <2>5 DEF ByCreate
  <2>6. CASE ByMark(j)
    <3>1. PICK p \in Procs, a \in Alerts :
            Mark(p, a) /\ eval[p][a].pc = "marking" /\ eval[p][a].target = j
      BY <2>6 DEF ByMark
    <3>2. p = q /\ a = b
      BY <1>0, <3>1 DEF OneProcess, TypeInv, MarksCreated
    <3>3. eval'[q][b] = Idle
      BY <1>0, <3>1, <3>2, SetEvalAt DEF Mark
    <3> QED
      BY <3>3 DEF Idle
  <2>7. CASE ByAnalysis(j)
    BY <1>0, <2>1, <2>7 DEF ByAnalysis, TypeInv, MarksOnce, OneProcess
  <2> QED
    BY <1>0, <2>1, <2>3, <2>4, <2>5, <2>6, <2>7, IncidentSteps
<1>3. CASE Create(q, b)
  <2>1. eval[q][b].pc = "creating" /\ UNCHANGED rca
    BY <1>3 DEF Create
  <2>2. ~Handles(q, j)
    <3>1. rca[q][j].pc = "none"
      BY <1>0, <2>1 DEF MarksOnce
    <3>2. ASSUME NEW c \in Alerts, eval[q][c].pc = "marking", eval[q][c].target = j PROVE FALSE
      BY <1>0, <2>1, <3>2 DEF TypeInv, MarksCreated
    <3> QED
      BY <3>1, <3>2 DEF Handles
  <2>3. Handles(q, j)'
    BY DEF Handles
  <2>4. incidents'[j] = Created
    BY <1>0, <2>2, <2>3, HandlesSteps
  <2> QED
    BY <2>4 DEF Created, Absent
<1> QED
  BY <1>0, <1>2, <1>3, EvalSteps

-----------------------------------------------------------------------------
(* The refinement. *)

\* A step changes one incident at most.
LEMMA WritesOne ==
    ASSUME TypeInv, [Next]_vars
    PROVE  UNCHANGED incidents \/ \E i \in Ids : \E inc : Write(i, inc)
<1>0. TypeOK
  BY DEF TypeInv
<1>1. ASSUME NEW p \in Procs, RecoverPatch(p)
      PROVE  UNCHANGED incidents \/ \E i \in Ids : \E inc : Write(i, inc)
  BY <1>0, <1>1 DEF RecoverPatch, TypeOK, cluster
<1>2. ASSUME NEW p \in Procs, NEW a \in Alerts, Create(p, a)
      PROVE  UNCHANGED incidents \/ \E i \in Ids : \E inc : Write(i, inc)
  <2>1. <<a, eval[p][a].at>> \in Ids
    BY <1>0 DEF TypeOK, Evaluation, Ids
  <2> QED
    BY <1>2, <2>1 DEF Create, cluster
<1>3. ASSUME NEW p \in Procs, NEW a \in Alerts, Mark(p, a)
      PROVE  UNCHANGED incidents \/ \E i \in Ids : \E inc : Write(i, inc)
  <2>1. eval[p][a].pc = "marking" /\ <<a, eval[p][a].at>> \in Ids
    BY <1>0, <1>3 DEF Mark, TypeOK, Evaluation, Ids
  <2>2. eval[p][a].target \in Ids
    BY <2>1 DEF TypeInv, MarksCreated
  <2> QED
    BY <1>3, <2>2 DEF Mark, cluster
<1>4. ASSUME NEW p \in Procs, NEW i \in Ids, FinishWrite(p, i)
      PROVE  UNCHANGED incidents \/ \E inc : Write(i, inc)
  <2>1. \/ UNCHANGED incidents
        \/ Write(i, Analyzed(incidents[i], rca[p][i]))
    BY <1>4 DEF FinishWrite, cluster
  <2> QED
    BY <2>1
<1>5. CASE Others \/ Touch
  BY <1>5 DEF Others, Close, Verify, Reopen, Resolve, Moves, Touch
<1>6. ASSUME NEW p \in Procs, Start(p) \/ RecoverList(p) \/ Serve(p) \/ Crash(p)
      PROVE  UNCHANGED incidents
  BY <1>6 DEF Start, RecoverList, Serve, Crash, cluster
<1>7. ASSUME NEW p \in Procs, NEW a \in Alerts,
             Fire(p, a) \/ List(p, a) \/ Compare(p, a) \/ Covered(p, a)
      PROVE  UNCHANGED incidents
  BY <1>7 DEF Fire, List, Compare, Covered, cluster
<1>8. ASSUME NEW p \in Procs, NEW i \in Ids, AcquireSlot(p, i) \/ Analyze(p, i) \/ FinishRead(p, i)
      PROVE  UNCHANGED incidents
  BY <1>8 DEF AcquireSlot, Analyze, FinishRead, cluster
<1>9. CASE Tick \/ UNCHANGED vars
  BY <1>9 DEF Tick, cluster, vars
<1> QED
  BY <1>1, <1>2, <1>3, <1>4, <1>5, <1>6, <1>7, <1>8, <1>9 DEF Next, Recovers, Evaluates, Analyses

\* What IncidentLifecycle sees of an incident, as the INSTANCE of it maps it.
AllStates == [i \in Ids |-> incidents[i].state]
AllOutcomes == [i \in Ids |-> Outcome(incidents[i])]

\* The other incidents stay as they are, and so do their states and outcomes.
LEMMA MappedStep ==
    ASSUME TypeInv, [Next]_vars, NEW j \in Ids, incidents'[j] # incidents[j]
    PROVE  /\ AllStates' = [AllStates EXCEPT ![j] = incidents'[j].state]
           /\ AllOutcomes' = [AllOutcomes EXCEPT ![j] = Outcome(incidents'[j])]
<1>1. incidents \in [Ids -> Incident]
  BY DEF TypeInv, TypeOK
<1>2. \A i \in Ids : i # j => incidents'[i] = incidents[i]
  BY <1>1, WritesOne DEF Write
<1> HIDE DEF Outcome
<1> QED
  BY <1>2 DEF AllStates, AllOutcomes

\* Every step is one of IncidentLifecycle, or leaves what it sees alone.
LEMMA StepKeepsPromise ==
    ASSUME OneProcess, PromiseInv, [Next]_vars
    PROVE  \/ \E j \in Ids : Lifecycle!Opens(j) \/ Lifecycle!Starts(j) \/ Lifecycle!Concludes(j)
                             \/ Lifecycle!Interrupts(j) \/ Lifecycle!Moves(j)
           \/ UNCHANGED <<AllStates, AllOutcomes>>
<1>0. /\ TypeInv /\ TypeOK /\ PhaseKept /\ FreshIsCurrent /\ OnlyMine /\ NotYet /\ MarksUnset
      /\ TypeOK'
  BY NextType DEF PromiseInv, PickInv, BaseInv, TypeInv
<1>1. CASE UNCHANGED incidents
  BY <1>1 DEF AllStates, AllOutcomes, Outcome
<1>2. ASSUME NEW j \in Ids, incidents'[j] # incidents[j]
      PROVE  Lifecycle!Opens(j) \/ Lifecycle!Starts(j) \/ Lifecycle!Concludes(j)
             \/ Lifecycle!Interrupts(j) \/ Lifecycle!Moves(j)
  <2> DEFINE old == incidents[j]
             new == incidents'[j]
  <2>0. /\ old \in Incident /\ new \in Incident
        /\ AllStates' = [AllStates EXCEPT ![j] = new.state]
        /\ AllOutcomes' = [AllOutcomes EXCEPT ![j] = Outcome(new)]
        /\ AllStates[j] = old.state /\ AllOutcomes[j] = Outcome(old)
    BY <1>0, <1>2, MappedStep DEF TypeOK, AllStates, AllOutcomes
  <2>1. Outcome(new) = Outcome(old) => UNCHANGED AllOutcomes
    BY <2>0 DEF AllOutcomes
  <2>2. new.state = old.state => UNCHANGED AllStates
    BY <2>0 DEF AllStates
  <2>3. \A t \in Time : t # Unset
    BY ConstantsAssumption DEF Time, Unset
  <2>4. CASE BySweep(j)
    <3>1. PICK p \in Procs : j \in sweep[p] /\ j \in fresh[p] /\ new = Interrupted(j)
      BY <2>4 DEF BySweep
    <3>2. analyzingOrUnset(old) /\ Outcome(old) = "none"
      BY <1>0, <3>1 DEF FreshIsCurrent, NotYet, analyzingOrUnset, Outcome
    <3>3. new.state = "Open" /\ new.error = "interrupted" /\ new.completedAt = now
      BY <2>0, <3>1 DEF Interrupted, Incident
    <3>4. Outcome(new) = "interrupted"
      BY <1>0, <2>3, <3>3 DEF Outcome, TypeOK
    <3> QED
      BY <2>0, <3>2, <3>3, <3>4
         DEF Lifecycle!Interrupts, Lifecycle!Set, Lifecycle!Write, Lifecycle!InProgress,
             analyzingOrUnset, AllStates, AllOutcomes, Outcome
  <2>5. CASE ByCreate(j)
    <3>1. PICK p \in Procs, a \in Alerts : Create(p, a) /\ j = <<a, eval[p][a].at>>
      BY <2>5 DEF ByCreate
    <3>2. Vacant(p, a) /\ j[1] = a
      BY <3>1 DEF Create, Vacant
    <3>3. \A i \in Ids : i[1] = j[1] => ~analyzingOrUnset(incidents[i])
      BY <1>0, <3>2 DEF OnlyMine, InProgress, analyzingOrUnset
    <3>4. old.state = "Absent" /\ new.state = "Unset"
      BY <2>5 DEF ByCreate, Created, Absent
    <3>5. Outcome(new) = "none" /\ Outcome(old) = "none"
      BY <1>0, <2>5, <3>4 DEF ByCreate, Created, Absent, NotYet, Outcome
    <3> QED
      BY <2>0, <2>1, <3>3, <3>4, <3>5
         DEF Lifecycle!Opens, Lifecycle!Set, Lifecycle!InProgress, analyzingOrUnset,
             AllStates, AllOutcomes, Outcome
  <2>6. CASE ByMark(j)
    <3>1. old.state = "Unset" /\ new.state = "Analyzing"
      BY <1>0, <2>0, <2>6 DEF ByMark, MarksUnset, ended, Incident
    <3>2. Outcome(new) = Outcome(old)
      BY <2>0, <2>6 DEF ByMark, Incident, Outcome
    <3> QED
      BY <2>0, <2>1, <3>1, <3>2 DEF Lifecycle!Starts, Lifecycle!Set, AllStates, AllOutcomes, Outcome
  <2>7. CASE ByAnalysis(j)
    <3>1. PICK p \in Procs : /\ rca[p][j].pc = "writing" /\ j \in fresh[p]
                             /\ new = Analyzed(old, rca[p][j])
      BY <2>7 DEF ByAnalysis
    <3>2. old.state # "Absent" /\ Outcome(old) = "none"
      BY <1>0, <3>1 DEF TypeInv, AnalysisExists, NotYet, Handles, Outcome
    <3>3. /\ new.state = IF rca[p][j].working THEN "Open" ELSE old.state
          /\ new.error \in {"none", "analysis"} /\ new.completedAt = rca[p][j].at
      BY <2>0, <3>1 DEF Analyzed, Incident
    <3>4. rca[p][j].working <=> analyzingOrUnset(old)
      BY <1>0, <3>1 DEF FreshIsCurrent
    <3>5. rca[p][j].at \in Time
      BY <1>0 DEF TypeOK, Analysis
    <3>6. Outcome(new) \in {"scripts", "noScripts"}
      BY <2>3, <3>3, <3>5 DEF Outcome
    <3> QED
      BY <2>0, <2>2, <3>2, <3>3, <3>4, <3>6
         DEF Lifecycle!Concludes, Lifecycle!Set, Lifecycle!Write, Lifecycle!InProgress,
             analyzingOrUnset, AllStates, AllOutcomes, Outcome
  <2>8. CASE ByOthers(j)
    <3>1. Outcome(new) = Outcome(old)
      BY <2>8 DEF ByOthers, Outcome
    <3>2. \/ old.state \notin {"Absent", "Closed"} /\ new.state = "Closed"
          \/ old.state \in {"Analyzing", "Open"} /\ new.state = "Verifying"
          \/ old.state = "Verifying" /\ new.state \in {"Open", "Resolved"}
      <4>1. ASSUME NEW from, NEW to, Moves(from, to) PROVE old.state \in from /\ new.state = to
        <5>1. PICK i \in Ids : /\ incidents[i].state \in from
                               /\ Write(i, [incidents[i] EXCEPT !.state = to,
                                              !.resolvedAt = IF to = "Resolved" THEN now ELSE @])
          BY <4>1 DEF Moves
        <5>2. i = j
          BY <1>0, <1>2, <5>1 DEF Write, TypeOK
        <5> QED
          BY <1>0, <2>0, <5>1, <5>2 DEF Write, TypeOK, Incident
      <4> QED
        BY <2>8, <4>1 DEF ByOthers, Others, Close, Verify, Reopen, Resolve, States
    <3> QED
      BY <2>0, <2>1, <3>1, <3>2 DEF Lifecycle!Moves, Lifecycle!Set, AllStates, AllOutcomes, Outcome
  <2> QED
    BY <1>0, <1>2, <2>4, <2>5, <2>6, <2>7, <2>8, IncidentSteps
<1>3. incidents \in [Ids -> Incident] /\ incidents' \in [Ids -> Incident]
  BY <1>0 DEF TypeOK
<1> QED
  BY <1>1, <1>2, <1>3

LEMMA InitPromiseInv == Init => PromiseInv
<1> SUFFICES ASSUME Init PROVE PromiseInv
  OBVIOUS
<1>1. PickInv /\ OneHandler
  BY InitPickInv, InitErrorInv DEF ErrorInv
<1>2. NotYet /\ MarksUnset
  BY DEF Init, NotYet, MarksUnset, Absent, Idle
<1> QED
  BY <1>1, <1>2 DEF PromiseInv

LEMMA NextPromiseInv == ASSUME OneProcess, PromiseInv, [Next]_vars PROVE PromiseInv'
<1>1. TypeInv /\ PickInv /\ OneHandler
  BY DEF PromiseInv, PickInv, BaseInv
<1>2. PickInv'
  BY <1>1, NextPickInv
<1> QED
  BY <1>1, <1>2, NextOneHandler, NextNotYet, NextMarksUnset DEF PromiseInv

\* In one process, whatever calls fail and however often it restarts: an incident opens only when
\* its alert has none in progress, gets one outcome in one step, which opens it unless someone
\* moved it first, and is moved by the others only after that.
THEOREM PromiseKept ==
    ASSUME OneProcess
    PROVE  Spec => KeepsPromise
<1>1. PromiseInv /\ [Next]_vars => PromiseInv'
  BY NextPromiseInv
<1>2. Init => Lifecycle!Init
  BY DEF Init, Lifecycle!Init, Absent, Outcome
<1>3. PromiseInv /\ [Next]_vars => [Lifecycle!Next]_(Lifecycle!vars)
  BY StepKeepsPromise DEF Lifecycle!Next, Lifecycle!vars, AllStates, AllOutcomes, Outcome
<1> QED
  BY InitPromiseInv, <1>1, <1>2, <1>3, PTL DEF Spec, KeepsPromise, Lifecycle!Spec

-----------------------------------------------------------------------------
(* Action properties and orphans of one process. *)

\* In one process, an incident past Analyzing is moved by the incident controller and humans only:
\* no mark, analysis or sweep that was on its way takes its state back.
THEOREM OthersMoveThePast ==
    ASSUME OneProcess
    PROVE  Spec => OnlyOthersMovePastOpen
<1>1. ASSUME PromiseInv, [Next]_vars, NEW j \in Ids,
             incidents[j].state \in {"Open", "Verifying", "Resolved", "Closed"},
             incidents'[j].state # incidents[j].state
      PROVE  Others
  <2>0. /\ TypeInv /\ FreshIsCurrent /\ MarksUnset /\ incidents[j] \in Incident
    BY <1>1 DEF PromiseInv, PickInv, BaseInv, TypeInv, TypeOK
  <2>1. ~BySweep(j)
    BY <1>1, <2>0 DEF BySweep, FreshIsCurrent, analyzingOrUnset
  <2>2. ~ByCreate(j)
    BY <1>1 DEF ByCreate
  <2>3. ~ByMark(j)
    BY <1>1, <2>0 DEF ByMark, MarksUnset, ended
  <2>4. ~ByAnalysis(j)
    <3>1. ASSUME NEW p \in Procs, rca[p][j].pc = "writing", j \in fresh[p],
                 incidents'[j] = Analyzed(incidents[j], rca[p][j])
          PROVE  FALSE
      <4>1. ~rca[p][j].working
        BY <1>1, <2>0, <3>1 DEF FreshIsCurrent, analyzingOrUnset
      <4>2. incidents'[j].state = IF rca[p][j].working THEN "Open" ELSE incidents[j].state
        BY <2>0, <3>1 DEF Analyzed, Incident
      <4> QED
        BY <1>1, <4>1, <4>2
    <3> QED
      BY <3>1 DEF ByAnalysis
  <2> QED
    BY <1>1, <2>0, <2>1, <2>2, <2>3, <2>4, IncidentSteps DEF ByOthers
<1>2. PromiseInv /\ [Next]_vars => [MovesPastOpen => Others]_vars
  BY <1>1 DEF MovesPastOpen
<1>3. PromiseInv /\ [Next]_vars => PromiseInv'
  BY NextPromiseInv
<1> QED
  BY InitPromiseInv, <1>2, <1>3, PTL DEF Spec, OnlyOthersMovePastOpen

\* A process that sweeps or serves and does not attend an incident in progress has logged a loss.
LEMMA NextOrphansAreLogged ==
    ASSUME OneProcess, PromiseInv, OrphansAreLogged, [Next]_vars
    PROVE  OrphansAreLogged'
<1> SUFFICES ASSUME NEW j \in Ids, NEW p \in Procs, Orphan(j)', phase'[p] \in {"sweeping", "serving"}
             PROVE  j \in lost'
  BY DEF OrphansAreLogged, Orphan
<1>0. TypeInv /\ TypeOK /\ FreshIsCurrent /\ incidents[j] \in Incident /\ j[1] \in Alerts
  BY DEF PromiseInv, PickInv, BaseInv, TypeInv, TypeOK, Ids
<1>1. /\ InProgress(j)'
      /\ rca'[p][j].pc = "none"
      /\ ~(eval'[p][j[1]].pc = "marking" /\ eval'[p][j[1]].target = j)
      /\ phase'[p] = "sweeping" => j \notin sweep'[p]
  BY DEF Orphan, Attended
<1>2. \A q \in Procs : q = p
  BY DEF OneProcess
\* A step that takes nobody away from the incident, and loses nothing of it.
<1>3. ASSUME lost \subseteq lost', InProgress(j), phase[p] \in {"sweeping", "serving"},
             rca[p][j].pc = "none",
             ~(eval[p][j[1]].pc = "marking" /\ eval[p][j[1]].target = j),
             phase[p] = "sweeping" => j \notin sweep[p]
      PROVE  j \in lost'
  BY <1>2, <1>3 DEF OrphansAreLogged, Orphan, Attended
<1>4. CASE Start(p)
  BY <1>0, <1>4 DEF Start, TypeOK
<1>5. CASE RecoverList(p)
  BY <1>0, <1>1, <1>5 DEF RecoverList, LeftBehind, InProgress, analyzingOrUnset, TypeOK
<1>6. CASE RecoverPatch(p)
  <2>1. PICK i \in sweep[p] :
          /\ sweep' = [sweep EXCEPT ![p] = @ \ {i}]
          /\ \/ Current(p, i) /\ Write(i, Interrupted(i)) /\ lost' = lost
             \/ lost' = lost \cup {i} /\ (Write(i, Interrupted(i)) \/ UNCHANGED incidents)
    BY <1>6 DEF RecoverPatch, cluster
  <2>2. UNCHANGED <<phase, eval, rca>> /\ phase[p] = "sweeping" /\ i \in Ids
    BY <1>0, <1>6 DEF RecoverPatch, TypeOK
  <2>3. CASE i = j
    <3>1. Write(i, Interrupted(i)) => ~InProgress(j)'
      <4>1. Interrupted(j).state = "Open"
        BY <1>0 DEF Interrupted, Incident
      <4>2. Write(i, Interrupted(i)) => incidents'[j] = Interrupted(j)
        BY <1>0, <2>2, <2>3, WriteAt
      <4> QED
        BY <4>1, <4>2 DEF InProgress, analyzingOrUnset
    <3> QED
      BY <1>1, <2>1, <2>3, <3>1
  <2>4. CASE i # j
    <3>1. incidents'[j] = incidents[j]
      BY <1>0, <2>1, <2>2, <2>4, WriteAt
    <3>2. InProgress(j) /\ lost \subseteq lost'
      BY <1>1, <2>1, <3>1 DEF InProgress, analyzingOrUnset
    <3>3. j \notin sweep[p]
      BY <1>0, <1>1, <2>1, <2>2, <2>4 DEF TypeOK
    <3> QED
      BY <1>1, <1>3, <2>2, <3>2, <3>3
  <2> QED
    BY <2>3, <2>4
<1>7. CASE Serve(p)
  <2>1. UNCHANGED <<incidents, sweep, eval, rca, lost>> /\ sweep[p] = {} /\ phase[p] = "sweeping"
    BY <1>7 DEF Serve, cluster
  <2>2. InProgress(j)
    BY <1>1, <2>1 DEF InProgress, analyzingOrUnset
  <2> QED
    BY <1>1, <1>3, <2>1, <2>2
<1>8. CASE Crash(p)
  BY <1>0, <1>8 DEF Crash, TypeOK
<1>9. ASSUME NEW a \in Alerts, Fire(p, a) \/ List(p, a) \/ Compare(p, a) \/ Covered(p, a)
      PROVE  j \in lost'
  <2>1. UNCHANGED <<incidents, phase, sweep, rca, lost>>
    BY <1>9 DEF Fire, List, Compare, Covered, cluster
  <2>2. /\ UNCHANGED eval \/ eval[p][a].pc # "marking"
        /\ UNCHANGED eval \/ \E e : SetEval(p, a, e)
    <3>1. CASE Fire(p, a)
      BY <3>1 DEF Fire
    <3>2. CASE List(p, a)
      BY <3>2 DEF List
    <3>3. CASE Compare(p, a)
      BY <3>3 DEF Compare
    <3>4. CASE Covered(p, a)
      BY <3>4 DEF Covered
    <3> QED
      BY <1>9, <3>1, <3>2, <3>3, <3>4
  <2>3. eval[p][j[1]].pc = "marking" => eval'[p][j[1]] = eval[p][j[1]]
    BY <1>0, <2>2, SetEvalAt
  <2>4. InProgress(j)
    BY <1>1, <2>1 DEF InProgress, analyzingOrUnset
  <2> QED
    BY <1>1, <1>3, <2>1, <2>3, <2>4
<1>10. ASSUME NEW a \in Alerts, Create(p, a) PROVE j \in lost'
  <2> DEFINE i == <<a, eval[p][a].at>>
             marks == [eval[p][a] EXCEPT !.pc = "marking", !.target = i]
  <2>1. UNCHANGED <<phase, sweep, rca>> /\ eval[p][a].pc = "creating" /\ lost \subseteq lost'
    BY <1>10 DEF Create
  <2>2. i \in Ids /\ i[1] = a /\ eval[p][a] \in Evaluation
    BY <1>0 DEF TypeOK, Evaluation, Ids
  <2>3. marks.pc = "marking" /\ marks.target = i
    BY <2>2 DEF Evaluation
  <2>4. /\ \E e : SetEval(p, a, e)
        /\ \/ Write(i, Created) /\ SetEval(p, a, marks)
           \/ UNCHANGED incidents
           \/ i \in lost' /\ Write(i, Created)
    BY <1>10 DEF Create, cluster
  <2> HIDE DEF i, marks
  <2>5. a # j[1] => eval'[p][j[1]] = eval[p][j[1]]
    BY <1>0, <2>4, SetEvalAt
  <2>6. i = j => j \in lost' \/ UNCHANGED incidents
    <3>1. ASSUME i = j, SetEval(p, a, marks) PROVE FALSE
      BY <1>0, <1>1, <2>2, <2>3, <3>1, SetEvalAt
    <3> QED
      BY <2>4, <3>1
  <2>7. j \in lost' \/ incidents'[j] = incidents[j]
    BY <1>0, <2>2, <2>4, <2>6, WriteAt
  <2>8. CASE incidents'[j] = incidents[j]
    <3>1. InProgress(j)
      BY <1>1, <2>8 DEF InProgress, analyzingOrUnset
    <3> QED
      BY <1>1, <1>3, <2>1, <2>5, <3>1
  <2> QED
    BY <2>7, <2>8
<1>11. ASSUME NEW a \in Alerts, Mark(p, a) PROVE j \in lost'
  <2> DEFINE i == eval[p][a].target
             waits == [NoAnalysis EXCEPT !.pc = "waiting"]
  <2>1. UNCHANGED <<phase, sweep>> /\ eval[p][a].pc = "marking" /\ lost \subseteq lost'
    BY <1>11 DEF Mark
  <2>2. i \in Ids /\ i[1] = a
    <3>1. i = <<a, eval[p][a].at>> /\ eval[p][a].at \in Time
      BY <1>0, <2>1 DEF TypeInv, MarksCreated, TypeOK, Evaluation
    <3> QED
      BY <3>1 DEF Ids
  <2>3. waits.pc = "waiting"
    BY DEF NoAnalysis
  <2>4. /\ SetEval(p, a, Idle)
        /\ \/ \E inc : Write(i, inc) /\ SetRca(p, i, waits)
           \/ i \in lost' /\ rca' = rca /\ (UNCHANGED incidents \/ \E inc : Write(i, inc))
    BY <1>11 DEF Mark, cluster
  <2> HIDE DEF i, waits
  <2>5. i = j => j \in lost'
    <3>1. ASSUME i = j, SetRca(p, i, waits) PROVE FALSE
      BY <1>0, <1>1, <2>3, <3>1, SetRcaAt
    <3> QED
      BY <2>4, <3>1
  <2>6. CASE i # j
    <3>1. incidents'[j] = incidents[j] /\ rca'[p][j] = rca[p][j]
      BY <1>0, <2>2, <2>4, <2>6, WriteAt, SetRcaAt
    <3>2. a # j[1] => eval'[p][j[1]] = eval[p][j[1]]
      BY <1>0, <2>4, SetEvalAt
    <3>3. a = j[1] => eval[p][j[1]].target # j
      BY <2>6 DEF i
    <3>4. InProgress(j)
      BY <1>1, <3>1 DEF InProgress, analyzingOrUnset
    <3> QED
      BY <1>1, <1>3, <2>1, <3>1, <3>2, <3>3, <3>4
  <2> QED
    BY <2>5, <2>6
<1>12. ASSUME NEW i \in Ids, Analyses(p, i) PROVE j \in lost'
  <2>1. UNCHANGED <<phase, sweep, eval>> /\ lost \subseteq lost'
    BY <1>12 DEF Analyses, AcquireSlot, Analyze, FinishRead, FinishWrite
  <2>2. rca[p][i].pc # "none" /\ rca[p][i] \in Analysis
    BY <1>0, <1>12 DEF Analyses, AcquireSlot, Analyze, FinishRead, FinishWrite, TypeOK
  <2>3. \E r : SetRca(p, i, r)
    BY <1>12 DEF Analyses, AcquireSlot, Analyze, FinishRead, FinishWrite
  <2>4. CASE i # j
    <3>1. rca'[p][j] = rca[p][j]
      BY <1>0, <2>3, <2>4, SetRcaAt
    <3>2. UNCHANGED incidents \/ \E inc : Write(i, inc)
      BY <1>12 DEF Analyses, AcquireSlot, Analyze, FinishRead, FinishWrite, cluster
    <3>3. incidents'[j] = incidents[j]
      BY <1>0, <2>4, <3>2, WriteAt
    <3>4. InProgress(j)
      BY <1>1, <3>3 DEF InProgress, analyzingOrUnset
    <3> QED
      BY <1>1, <1>3, <2>1, <3>1, <3>4
  <2>5. CASE i = j
    <3> DEFINE Goes(r) == SetRca(p, i, r) /\ r.pc # "none"
    <3>1. ASSUME NEW r, Goes(r) PROVE FALSE
      BY <1>0, <1>1, <2>5, <3>1, SetRcaAt
    <3> HIDE DEF Goes
    <3>2. ~AcquireSlot(p, i)
      <4>1. [rca[p][i] EXCEPT !.pc = "running"].pc = "running"
        BY <2>2 DEF Analysis
      <4> QED
        BY <3>1, <4>1 DEF AcquireSlot, Goes
    <3>3. ~Analyze(p, i)
      <4>1. ASSUME NEW x PROVE [rca[p][i] EXCEPT !.pc = "reading", !.answer = x, !.at = now].pc = "reading"
        BY <2>2 DEF Analysis
      <4> QED
        BY <3>1, <4>1 DEF Analyze, Goes
    <3>4. CASE FinishRead(p, i)
      <4>1. ASSUME NEW x PROVE [rca[p][i] EXCEPT !.pc = "writing", !.working = x].pc = "writing"
        BY <2>2 DEF Analysis
      <4> QED
        BY <2>5, <3>1, <3>4, <4>1 DEF FinishRead, Goes
    <3>5. CASE FinishWrite(p, i)
      <4>1. [rca[p][i] EXCEPT !.pc = "reading", !.tries = @ + 1].pc = "reading"
        BY <2>2 DEF Analysis
      <4>2. \/ i \in lost'
            \/ /\ rca[p][i].pc = "writing" /\ i \in fresh[p]
               /\ Write(i, Analyzed(incidents[i], rca[p][i]))
        BY <3>1, <3>5, <4>1 DEF FinishWrite, Current, Goes
      <4>3. CASE /\ rca[p][i].pc = "writing" /\ i \in fresh[p]
                 /\ Write(i, Analyzed(incidents[i], rca[p][i]))
        <5>1. incidents'[j] = Analyzed(incidents[j], rca[p][j])
          BY <1>0, <2>5, <4>3, WriteAt
        <5>2. incidents'[j].state = IF rca[p][j].working THEN "Open" ELSE incidents[j].state
          BY <1>0, <5>1 DEF Analyzed, Incident
        <5>3. rca[p][j].working <=> analyzingOrUnset(incidents[j])
          BY <1>0, <2>5, <4>3 DEF FreshIsCurrent
        <5> QED
          BY <1>1, <5>2, <5>3 DEF InProgress, analyzingOrUnset
      <4> QED
        BY <2>5, <4>2, <4>3
    <3> QED
      BY <1>12, <3>2, <3>3, <3>4, <3>5 DEF Analyses
  <2> QED
    BY <2>4, <2>5
<1>13. CASE Others \/ Touch \/ Tick \/ UNCHANGED vars
  <2>1. UNCHANGED <<phase, sweep, eval, rca, lost>>
    BY <1>13 DEF Others, Close, Verify, Reopen, Resolve, Moves, Touch, Tick, volatile, vars
  <2>2. InProgress(j)
    <3>1. CASE Others
      <4>1. ASSUME NEW from, NEW to \in States \ {"Unset", "Analyzing"}, Moves(from, to)
            PROVE  InProgress(j)
        <5>1. PICK i \in Ids : Write(i, [incidents[i] EXCEPT !.state = to,
                                           !.resolvedAt = IF to = "Resolved" THEN now ELSE @])
          BY <4>1 DEF Moves
        <5> DEFINE inc == [incidents[i] EXCEPT !.state = to,
                             !.resolvedAt = IF to = "Resolved" THEN now ELSE @]
        <5>2. i = j => inc.state = to
          BY <1>0 DEF Incident
        <5> HIDE DEF inc
        <5>3. incidents'[j] = IF i = j THEN inc ELSE incidents[j]
          BY <1>0, <5>1, WriteAt DEF inc
        <5> QED
          BY <1>1, <4>1, <5>2, <5>3 DEF InProgress, analyzingOrUnset
      <4> QED
        BY <3>1, <4>1 DEF Others, Close, Verify, Reopen, Resolve, States
    <3>2. CASE Touch
      BY <1>0, <1>1, <3>2, WriteAt DEF Touch, InProgress, analyzingOrUnset
    <3>3. CASE Tick \/ UNCHANGED vars
      BY <1>1, <3>3 DEF Tick, cluster, vars, InProgress, analyzingOrUnset
    <3> QED
      BY <1>13, <3>1, <3>2, <3>3
  <2> QED
    BY <1>1, <1>3, <2>1, <2>2
<1> QED
  BY <1>2, <1>4, <1>5, <1>6, <1>7, <1>8, <1>9, <1>10, <1>11, <1>12, <1>13
     DEF Next, Recovers, Evaluates

\* In one process, however its calls fail and however often it restarts: an incident stays in
\* progress without an RCA or a sweep to come only when an error line said a write of it was lost.
THEOREM NoSilentOrphan ==
    ASSUME OneProcess
    PROVE  Spec => []OrphansAreLogged
<1>1. Init => OrphansAreLogged
  BY DEF Init, OrphansAreLogged, Orphan, InProgress, Absent
<1>2. PromiseInv /\ OrphansAreLogged /\ [Next]_vars => OrphansAreLogged'
  BY NextOrphansAreLogged
<1>3. PromiseInv /\ [Next]_vars => PromiseInv'
  BY NextPromiseInv
<1> QED
  BY InitPromiseInv, <1>1, <1>2, <1>3, PTL DEF Spec

=============================================================================
