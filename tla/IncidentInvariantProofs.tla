----------------------- MODULE IncidentInvariantProofs -----------------------
(***************************************************************************)
(* Theorems about what the writer leaves in an incident, for every value   *)
(* of the constants: error and howToFix agree, however many processes      *)
(* sweep and analyze; and one process never has two incidents of an alert  *)
(* in progress.  Both rest on what a process may still do to an incident   *)
(* it holds a fresh copy of.                                               *)
(***************************************************************************)
EXTENDS IncidentWriterProofs

\* Only a sweeping process has incidents left to patch, only a serving one evaluates or analyzes.
PhaseKept ==
    \A p \in Procs :
        /\ phase[p] # "sweeping" => sweep[p] = {}
        /\ \A a \in Alerts : eval[p][a].pc # "idle" => phase[p] = "serving"
        /\ \A i \in Ids : rca[p][i].pc # "none" => phase[p] = "serving"

\* The process is about to mark the incident, or runs its RCA.
Handles(p, i) ==
    \/ rca[p][i].pc # "none"
    \/ \E a \in Alerts : eval[p][a].pc = "marking" /\ eval[p][a].target = i

\* The one that created it.
OneHandler == \A p, q \in Procs, i \in Ids : Handles(p, i) /\ Handles(q, i) => p = q

\* What a process read of an incident whose copy is fresh is so still.
FreshIsCurrent ==
    \A p \in Procs, i \in Ids :
        i \in fresh[p] =>
            /\ i \in sweep[p] => analyzingOrUnset(incidents[i])
            /\ rca[p][i].pc = "writing" => (rca[p][i].working <=> analyzingOrUnset(incidents[i]))

\* howToFix is written once, as the last of the incident's RCA.
NoFixYet ==
    \A i \in Ids :
        incidents[i].fix => ~analyzingOrUnset(incidents[i]) /\ \A p \in Procs : ~Handles(p, i)

BaseInv == TypeInv /\ PhaseKept /\ FreshIsCurrent
ErrorInv == BaseInv /\ OneHandler /\ NoFixYet /\ ErrorIffNoScripts

-----------------------------------------------------------------------------
(* What one step does to each variable. *)

\* One SetEval changes one evaluation.
LEMMA SetEvalAt ==
    ASSUME TypeOK, NEW p \in Procs, NEW a \in Alerts, NEW e, SetEval(p, a, e),
           NEW q \in Procs, NEW b \in Alerts
    PROVE  eval'[q][b] = IF p = q /\ a = b THEN e ELSE eval[q][b]
<1>1. eval \in [Procs -> [Alerts -> Evaluation]] /\ eval[q] \in [Alerts -> Evaluation]
  BY DEF TypeOK
<1>2. eval'[q] = IF p = q THEN [eval[q] EXCEPT ![a] = e] ELSE eval[q]
  BY <1>1 DEF SetEval
<1> QED
  BY <1>1, <1>2

LEMMA SetRcaAt ==
    ASSUME TypeOK, NEW p \in Procs, NEW i \in Ids, NEW r, SetRca(p, i, r),
           NEW q \in Procs, NEW j \in Ids
    PROVE  rca'[q][j] = IF p = q /\ i = j THEN r ELSE rca[q][j]
<1>1. rca \in [Procs -> [Ids -> Analysis]] /\ rca[q] \in [Ids -> Analysis]
  BY DEF TypeOK
<1>2. rca'[q] = IF p = q THEN [rca[q] EXCEPT ![i] = r] ELSE rca[q]
  BY <1>1 DEF SetRca
<1> QED
  BY <1>1, <1>2

\* A write changes one incident, and no copy of it is fresh any more.
LEMMA WriteAt ==
    ASSUME TypeOK, NEW i \in Ids, NEW inc, Write(i, inc), NEW j \in Ids, NEW q \in Procs
    PROVE  /\ incidents'[j] = IF i = j THEN inc ELSE incidents[j]
           /\ j \in fresh'[q] => j \in fresh[q] /\ i # j
BY DEF TypeOK, Write

\* The ways a step changes an incident.
ByOthers(j) ==
    /\ Others
    /\ incidents'[j].state = "Closed" \/ incidents[j].state \in {"Analyzing", "Open", "Verifying"}
    /\ ~analyzingOrUnset(incidents'[j])
    /\ incidents'[j].fix = incidents[j].fix
    /\ incidents'[j].error = incidents[j].error
    /\ incidents'[j].completedAt = incidents[j].completedAt
    /\ UNCHANGED <<rca, eval>>
BySweep(j) ==
    \E p \in Procs :
        /\ j \in sweep[p] /\ j \in fresh[p]
        /\ incidents'[j] = Interrupted(j)
        /\ UNCHANGED <<rca, eval>>
ByCreate(j) ==
    /\ incidents[j].state = "Absent" /\ incidents'[j] = Created
    /\ \E p \in Procs, a \in Alerts : Create(p, a) /\ j = <<a, eval[p][a].at>>
ByMark(j) ==
    /\ ~ended(incidents[j])
    /\ incidents'[j] = [incidents[j] EXCEPT !.state = "Analyzing"]
    /\ \E p \in Procs, a \in Alerts :
         Mark(p, a) /\ eval[p][a].pc = "marking" /\ eval[p][a].target = j
ByAnalysis(j) ==
    \E p \in Procs :
        /\ rca[p][j].pc = "writing" /\ j \in fresh[p]
        /\ incidents'[j] = Analyzed(incidents[j], rca[p][j])
        /\ rca'[p][j] = NoAnalysis
        /\ UNCHANGED eval

LEMMA IncidentSteps ==
    ASSUME TypeInv, [Next]_vars, NEW j \in Ids
    PROVE  \/ incidents'[j] = incidents[j]
           \/ ByOthers(j) \/ BySweep(j) \/ ByCreate(j) \/ ByMark(j) \/ ByAnalysis(j)
<1>0. TypeOK /\ incidents \in [Ids -> Incident]
  BY DEF TypeInv, TypeOK
<1>1. CASE incidents' = incidents
  BY <1>1
<1>2. ASSUME NEW p \in Procs, RecoverPatch(p)
      PROVE  incidents'[j] = incidents[j] \/ BySweep(j)
  <2>1. PICK i \in sweep[p] : \/ Current(p, i) /\ Write(i, Interrupted(i))
                              \/ UNCHANGED incidents
    BY <1>2 DEF RecoverPatch, cluster
  <2>2. i \in Ids
    BY <1>0 DEF TypeOK
  <2>3. UNCHANGED <<rca, eval>>
    BY <1>2 DEF RecoverPatch
  <2>4. CASE UNCHANGED incidents
    BY <2>4
  <2>5. CASE Current(p, i) /\ Write(i, Interrupted(i))
    <3>1. i # j => incidents'[j] = incidents[j]
      BY <1>0, <2>2, <2>5 DEF Write
    <3>2. i = j => incidents'[j] = Interrupted(j)
      BY <1>0, <2>2, <2>5 DEF Write
    <3> QED
      BY <2>3, <2>5, <3>1, <3>2 DEF BySweep, Current
  <2> QED
    BY <2>1, <2>4, <2>5
<1>3. ASSUME NEW p \in Procs, NEW a \in Alerts, Create(p, a)
      PROVE  incidents'[j] = incidents[j] \/ ByCreate(j)
  <2> DEFINE i == <<a, eval[p][a].at>>
  <2>1. i \in Ids
    BY <1>0 DEF TypeOK, Evaluation, Ids
  <2>2. UNCHANGED incidents \/ (incidents[i].state = "Absent" /\ Write(i, Created))
    BY <1>3 DEF Create, cluster
  <2> QED
    BY <1>0, <1>3, <2>1, <2>2 DEF Write, ByCreate
<1>4. ASSUME NEW p \in Procs, NEW a \in Alerts, Mark(p, a)
      PROVE  incidents'[j] = incidents[j] \/ ByMark(j)
  <2> DEFINE i == eval[p][a].target
  <2>1. eval[p][a].pc = "marking" /\ eval[p][a].at \in Time
    BY <1>0, <1>4 DEF Mark, TypeOK, Evaluation
  <2>2. i \in Ids
    BY <2>1 DEF TypeInv, MarksCreated, Ids
  <2>3. \/ UNCHANGED incidents
        \/ ~ended(incidents[i]) /\ Write(i, [incidents[i] EXCEPT !.state = "Analyzing"])
    BY <1>4 DEF Mark, cluster
  <2> QED
    BY <1>0, <1>4, <2>1, <2>2, <2>3 DEF Write, ByMark
<1>5. ASSUME NEW p \in Procs, NEW i \in Ids, FinishWrite(p, i)
      PROVE  incidents'[j] = incidents[j] \/ ByAnalysis(j)
  <2>1. rca[p][i].pc = "writing" /\ UNCHANGED eval
    BY <1>5 DEF FinishWrite
  <2>2. \/ UNCHANGED incidents
        \/ /\ i \in fresh[p] /\ Write(i, Analyzed(incidents[i], rca[p][i]))
           /\ SetRca(p, i, NoAnalysis)
    BY <1>5 DEF FinishWrite, cluster, Current
  <2>3. CASE UNCHANGED incidents
    BY <2>3
  <2>4. CASE i \in fresh[p] /\ Write(i, Analyzed(incidents[i], rca[p][i])) /\ SetRca(p, i, NoAnalysis)
    <3>1. i # j => incidents'[j] = incidents[j]
      BY <1>0, <2>4 DEF Write
    <3>2. i = j => incidents'[j] = Analyzed(incidents[j], rca[p][j])
      BY <1>0, <2>4 DEF Write
    <3>3. rca'[p][i] = NoAnalysis
      BY <1>0, <2>4, SetRcaAt
    <3> QED
      BY <2>1, <2>4, <3>1, <3>2, <3>3 DEF ByAnalysis
  <2> QED
    BY <2>2, <2>3, <2>4
<1>6. ASSUME Others, NEW from, NEW to \in States \ {"Unset", "Analyzing"}, Moves(from, to),
             to = "Closed" \/ from \subseteq {"Analyzing", "Open", "Verifying"}
      PROVE  incidents'[j] = incidents[j] \/ ByOthers(j)
  <2>1. PICK i \in Ids : /\ incidents[i].state \in from
                         /\ Write(i, [incidents[i] EXCEPT !.state = to,
                                        !.resolvedAt = IF to = "Resolved" THEN now ELSE @])
    BY <1>6 DEF Moves
  <2>2. UNCHANGED <<rca, eval>>
    BY <1>6 DEF Moves, volatile
  <2>3. incidents[i] \in Incident
    BY <1>0
  <2>4. i # j => incidents'[j] = incidents[j]
    BY <1>0, <2>1 DEF Write
  <2>5. i = j => /\ incidents'[j].state = to
                 /\ incidents'[j].fix = incidents[j].fix /\ incidents'[j].error = incidents[j].error
                 /\ incidents'[j].completedAt = incidents[j].completedAt
    BY <1>0, <2>1, <2>3 DEF Write, Incident
  <2> QED
    BY <1>6, <2>1, <2>2, <2>4, <2>5 DEF ByOthers, analyzingOrUnset
<1>7. CASE Others
  BY <1>6, <1>7 DEF Others, Close, Verify, Reopen, Resolve, States
<1>8. CASE Touch
  BY <1>0, <1>8 DEF Touch, Write
<1>9. ASSUME NEW p \in Procs, Start(p) \/ RecoverList(p) \/ Serve(p) \/ Crash(p)
      PROVE  incidents' = incidents
  BY <1>9 DEF Start, RecoverList, Serve, Crash, cluster
<1>10. ASSUME NEW p \in Procs, NEW a \in Alerts, Fire(p, a) \/ List(p, a) \/ Compare(p, a) \/ Covered(p, a)
       PROVE  incidents' = incidents
  BY <1>10 DEF Fire, List, Compare, Covered, cluster
<1>11. ASSUME NEW p \in Procs, NEW i \in Ids, AcquireSlot(p, i) \/ Analyze(p, i) \/ FinishRead(p, i)
       PROVE  incidents' = incidents
  BY <1>11 DEF AcquireSlot, Analyze, FinishRead, cluster
<1>12. CASE Tick \/ UNCHANGED vars
  BY <1>12 DEF Tick, cluster, vars
<1> QED
  BY <1>1, <1>2, <1>3, <1>4, <1>5, <1>7, <1>8, <1>9, <1>10, <1>11, <1>12
     DEF Next, Recovers, Evaluates, Analyses

\* An evaluation starts with a firing, which a serving process takes.
LEMMA EvalStarts ==
    ASSUME TypeInv, [Next]_vars, NEW q \in Procs, NEW b \in Alerts, eval'[q][b].pc # "idle"
    PROVE  eval[q][b].pc # "idle" \/ Fire(q, b)
<1>0. TypeOK
  BY DEF TypeInv
<1>1. ASSUME NEW p \in Procs, NEW a \in Alerts, Evaluates(p, a)
      PROVE  eval[q][b].pc # "idle" \/ eval'[q][b] = eval[q][b]
  <2>1. eval[p][a].pc # "idle" /\ \E e : SetEval(p, a, e)
    <3>1. CASE List(p, a)
      BY <3>1 DEF List
    <3>2. CASE Compare(p, a)
      BY <3>2 DEF Compare
    <3>3. CASE Covered(p, a) \/ Mark(p, a)
      BY <3>3 DEF Covered, Mark
    <3>4. CASE Create(p, a)
      BY <3>4 DEF Create
    <3> QED
      BY <1>1, <3>1, <3>2, <3>3, <3>4 DEF Evaluates
  <2> QED
    BY <1>0, <2>1, SetEvalAt
<1>2. ASSUME NEW p \in Procs, NEW a \in Alerts, Fire(p, a)
      PROVE  Fire(q, b) \/ eval'[q][b] = eval[q][b]
  <2>1. UNCHANGED eval \/ SetEval(p, a, [Idle EXCEPT !.pc = "listing", !.at = now])
    BY <1>2 DEF Fire
  <2> QED
    BY <1>0, <1>2, <2>1, SetEvalAt
<1>3. ASSUME NEW p \in Procs, Crash(p)
      PROVE  eval'[q][b].pc = "idle" \/ eval'[q][b] = eval[q][b]
  BY <1>0, <1>3 DEF Crash, TypeOK, Idle
<1>4. ASSUME NEW p \in Procs, Recovers(p) PROVE eval' = eval
  BY <1>4 DEF Recovers, Start, RecoverList, RecoverPatch, Serve
<1>5. ASSUME NEW p \in Procs, NEW i \in Ids, Analyses(p, i) PROVE eval' = eval
  BY <1>5 DEF Analyses, AcquireSlot, Analyze, FinishRead, FinishWrite
<1>6. ASSUME Others \/ Touch \/ Tick \/ UNCHANGED vars PROVE eval' = eval
  BY <1>6 DEF Others, Close, Verify, Reopen, Resolve, Moves, Touch, Tick, volatile, vars
<1> QED
  BY <1>1, <1>2, <1>3, <1>4, <1>5, <1>6 DEF Next

\* A serving process goes on serving, or ends and forgets what it did; one with nothing to patch
\* gets something only by its list, which makes the copies fresh.
LEMMA PhaseSteps ==
    ASSUME TypeInv, [Next]_vars, NEW q \in Procs
    PROVE  /\ \/ phase'[q] = phase[q]
              \/ phase[q] # "serving"
              \/ \A b \in Alerts, j \in Ids : eval'[q][b] = Idle /\ rca'[q][j] = NoAnalysis
           /\ \/ sweep'[q] \subseteq sweep[q]
              \/ /\ phase[q] = "starting" /\ phase'[q] = "sweeping"
                 /\ sweep'[q] = LeftBehind
                 /\ UNCHANGED <<incidents, eval, rca>>
           /\ phase'[q] # "sweeping" =>
                sweep'[q] = {} \/ (phase[q] # "sweeping" /\ sweep'[q] \subseteq sweep[q])
<1>0. TypeOK /\ phase[q] \in {"down", "starting", "sweeping", "serving"}
  BY DEF TypeInv, TypeOK
<1>1. CASE phase' = phase /\ sweep' = sweep
  BY <1>1
<1>2. ASSUME NEW p \in Procs, Start(p) PROVE phase'[q] = phase[q] \/ phase[q] # "serving"
  BY <1>0, <1>2 DEF Start, TypeOK
<1>3. ASSUME NEW p \in Procs, p # q, Recovers(p) \/ Crash(p)
      PROVE  phase'[q] = phase[q] /\ sweep'[q] = sweep[q]
  BY <1>0, <1>3 DEF Recovers, Start, RecoverList, RecoverPatch, Serve, Crash, TypeOK
<1>4. CASE Start(q)
  BY <1>0, <1>4 DEF Start, TypeOK
<1>5. CASE RecoverList(q)
  BY <1>0, <1>5 DEF RecoverList, TypeOK
<1>6. CASE RecoverPatch(q)
  BY <1>0, <1>6 DEF RecoverPatch, TypeOK
<1>7. CASE Serve(q)
  BY <1>0, <1>7 DEF Serve, TypeOK
<1>8. CASE Crash(q)
  BY <1>0, <1>8 DEF Crash, TypeOK
<1>9. ASSUME NEW p \in Procs, NEW a \in Alerts, Fire(p, a) \/ Evaluates(p, a)
      PROVE  phase' = phase /\ sweep' = sweep
  BY <1>9 DEF Fire, Evaluates, List, Compare, Covered, Create, Mark
<1>10. ASSUME NEW p \in Procs, NEW i \in Ids, Analyses(p, i) PROVE phase' = phase /\ sweep' = sweep
  BY <1>10 DEF Analyses, AcquireSlot, Analyze, FinishRead, FinishWrite
<1>11. ASSUME Others \/ Touch \/ Tick \/ UNCHANGED vars PROVE phase' = phase /\ sweep' = sweep
  BY <1>11 DEF Others, Close, Verify, Reopen, Resolve, Moves, Touch, Tick, volatile, vars
<1> QED
  BY <1>1, <1>3, <1>4, <1>5, <1>6, <1>7, <1>8, <1>9, <1>10, <1>11 DEF Next, Recovers

LEMMA NextPhaseKept == TypeInv /\ PhaseKept /\ [Next]_vars => PhaseKept'
<1> SUFFICES ASSUME TypeInv, PhaseKept, [Next]_vars, NEW q \in Procs
             PROVE  /\ phase'[q] # "sweeping" => sweep'[q] = {}
                    /\ \A b \in Alerts : eval'[q][b].pc # "idle" => phase'[q] = "serving"
                    /\ \A j \in Ids : rca'[q][j].pc # "none" => phase'[q] = "serving"
  BY DEF PhaseKept
<1>1. phase'[q] # "sweeping" => sweep'[q] = {}
  BY PhaseSteps DEF PhaseKept
<1>2. ASSUME NEW b \in Alerts, eval'[q][b].pc # "idle" PROVE phase'[q] = "serving"
  <2>1. phase[q] = "serving"
    BY <1>2, EvalStarts DEF PhaseKept, Fire
  <2>2. eval'[q][b] # Idle
    BY <1>2 DEF Idle
  <2>3. CASE Ids # {}
    BY <2>1, <2>2, <2>3, PhaseSteps
  <2>4. <<b, 0>> \in Ids
    BY ConstantsAssumption DEF Ids, Time
  <2> QED
    BY <2>3, <2>4
<1>3. ASSUME NEW j \in Ids, rca'[q][j].pc # "none" PROVE phase'[q] = "serving"
  <2>1. phase[q] = "serving"
    <3>1. ASSUME NEW a \in Alerts, Mark(q, a) PROVE eval[q][a].pc # "idle"
      BY <3>1 DEF Mark
    <3> QED
      BY <1>3, <3>1, RcaSteps DEF PhaseKept
  <2>2. rca'[q][j] # NoAnalysis
    BY <1>3 DEF NoAnalysis
  <2>3. j[1] \in Alerts
    BY DEF Ids
  <2> QED
    BY <2>1, <2>2, <2>3, PhaseSteps
<1> QED
  BY <1>1, <1>2, <1>3

-----------------------------------------------------------------------------
(* Fresh copies. *)

\* A copy is fresh still, is one of the startup's list, or is the one finish has just read.
LEMMA FreshSteps ==
    ASSUME TypeInv, [Next]_vars, NEW q \in Procs, NEW j \in Ids, j \in fresh'[q]
    PROVE  \/ j \in fresh[q] /\ incidents'[j] = incidents[j]
           \/ RecoverList(q) /\ j \in LeftBehind /\ UNCHANGED <<incidents, rca>>
           \/ FinishRead(q, j)
<1>0. TypeOK /\ incidents \in [Ids -> Incident] /\ fresh \in [Procs -> SUBSET Ids]
  BY DEF TypeInv, TypeOK
<1>1. ASSUME NEW i \in Ids, NEW inc, Write(i, inc)
      PROVE  j \in fresh[q] /\ incidents'[j] = incidents[j]
  BY <1>0, <1>1, WriteAt
<1>2. CASE UNCHANGED cluster
  BY <1>2 DEF cluster
<1>3. ASSUME NEW p \in Procs, RecoverPatch(p)
      PROVE  j \in fresh[q] /\ incidents'[j] = incidents[j]
  <2>1. PICK i \in sweep[p] : Write(i, Interrupted(i)) \/ UNCHANGED cluster
    BY <1>3 DEF RecoverPatch
  <2>2. i \in Ids
    BY <1>0 DEF TypeOK
  <2> QED
    BY <1>1, <1>2, <2>1, <2>2 DEF cluster
<1>4. ASSUME NEW p \in Procs, NEW a \in Alerts, Create(p, a) \/ Mark(p, a)
      PROVE  j \in fresh[q] /\ incidents'[j] = incidents[j]
  <2>1. UNCHANGED cluster \/ \E i \in Ids : \E inc : Write(i, inc)
    <3>1. <<a, eval[p][a].at>> \in Ids
      BY <1>0 DEF TypeOK, Evaluation, Ids
    <3>2. CASE Create(p, a)
      BY <3>1, <3>2 DEF Create
    <3>3. CASE Mark(p, a)
      <4>1. eval[p][a].target \in Ids
        BY <3>1, <3>3 DEF Mark, TypeInv, MarksCreated
      <4> QED
        BY <3>3, <4>1 DEF Mark
    <3> QED
      BY <1>4, <3>2, <3>3
  <2> QED
    BY <1>1, <2>1 DEF cluster
<1>5. ASSUME NEW p \in Procs, NEW i \in Ids, FinishWrite(p, i)
      PROVE  j \in fresh[q] /\ incidents'[j] = incidents[j]
  <2>1. UNCHANGED cluster \/ \E inc : Write(i, inc)
    BY <1>5 DEF FinishWrite
  <2> QED
    BY <1>1, <2>1 DEF cluster
<1>6. CASE Others \/ Touch
  <2>1. \E i \in Ids : \E inc : Write(i, inc)
    BY <1>6 DEF Others, Close, Verify, Reopen, Resolve, Moves, Touch
  <2> QED
    BY <1>1, <2>1
<1>7. ASSUME NEW p \in Procs, NEW i \in Ids, FinishRead(p, i)
      PROVE  (j \in fresh[q] /\ incidents'[j] = incidents[j]) \/ FinishRead(q, j)
  <2>1. fresh' = [fresh EXCEPT ![p] = @ \cup {i}] \/ UNCHANGED fresh
    BY <1>7 DEF FinishRead
  <2>2. UNCHANGED incidents
    BY <1>7 DEF FinishRead
  <2> QED
    BY <1>0, <1>7, <2>1, <2>2
<1>8. ASSUME NEW p \in Procs, RecoverList(p)
      PROVE  \/ j \in fresh[q] /\ incidents'[j] = incidents[j]
             \/ RecoverList(q) /\ j \in LeftBehind /\ UNCHANGED <<incidents, rca>>
  <2>1. fresh' = [fresh EXCEPT ![p] = LeftBehind] \/ UNCHANGED fresh
    BY <1>8 DEF RecoverList
  <2>2. UNCHANGED <<incidents, rca>>
    BY <1>8 DEF RecoverList
  <2> QED
    BY <1>0, <1>8, <2>1, <2>2
<1>9. ASSUME NEW p \in Procs, Crash(p)
      PROVE  j \in fresh[q] /\ incidents'[j] = incidents[j]
  BY <1>0, <1>9 DEF Crash
<1>10. ASSUME NEW p \in Procs, Start(p) \/ Serve(p) PROVE UNCHANGED cluster
  BY <1>10 DEF Start, Serve, cluster
<1>11. ASSUME NEW p \in Procs, NEW a \in Alerts, Fire(p, a) \/ List(p, a) \/ Compare(p, a) \/ Covered(p, a)
       PROVE  UNCHANGED cluster
  BY <1>11 DEF Fire, List, Compare, Covered, cluster
<1>12. ASSUME NEW p \in Procs, NEW i \in Ids, AcquireSlot(p, i) \/ Analyze(p, i)
       PROVE  UNCHANGED cluster
  BY <1>12 DEF AcquireSlot, Analyze, cluster
<1>13. CASE Tick \/ UNCHANGED vars
  BY <1>13 DEF Tick, cluster, vars
<1> QED
  BY <1>2, <1>3, <1>4, <1>5, <1>6, <1>7, <1>8, <1>9, <1>10, <1>11, <1>12, <1>13
     DEF Next, Recovers, Evaluates, Analyses

\* An analysis is written as finish read the incident.
LEMMA WritingSteps ==
    ASSUME TypeInv, [Next]_vars, NEW q \in Procs, NEW j \in Ids, rca'[q][j].pc = "writing"
    PROVE  \/ rca'[q][j] = rca[q][j]
           \/ /\ rca'[q][j].working = analyzingOrUnset(incidents[j])
              /\ UNCHANGED incidents
<1>0. TypeOK
  BY DEF TypeInv
<1>1. ASSUME NEW p \in Procs, NEW i \in Ids, FinishRead(p, i)
      PROVE  \/ rca'[q][j] = rca[q][j]
             \/ rca'[q][j].pc = "none"
             \/ rca'[q][j].working = analyzingOrUnset(incidents[j]) /\ UNCHANGED incidents
  <2> DEFINE r == [rca[p][i] EXCEPT !.pc = "writing", !.working = analyzingOrUnset(incidents[i])]
  <2>1. rca[p][i] \in Analysis
    BY <1>0 DEF TypeOK
  <2>2. r.working = analyzingOrUnset(incidents[i])
    BY <2>1 DEF Analysis
  <2>3. SetRca(p, i, r) \/ SetRca(p, i, NoAnalysis)
    BY <1>1 DEF FinishRead
  <2>4. UNCHANGED incidents
    BY <1>1 DEF FinishRead
  <2> HIDE DEF r
  <2> QED
    BY <1>0, <2>2, <2>3, <2>4, SetRcaAt DEF NoAnalysis
<1>2. ASSUME NEW p \in Procs, NEW i \in Ids, AcquireSlot(p, i) \/ Analyze(p, i) \/ FinishWrite(p, i)
      PROVE  rca'[q][j] = rca[q][j] \/ rca'[q][j].pc # "writing"
  <2>1. rca[p][i] \in Analysis
    BY <1>0 DEF TypeOK
  <2>2. ASSUME NEW r, SetRca(p, i, r), r.pc # "writing"
        PROVE  rca'[q][j] = rca[q][j] \/ rca'[q][j].pc # "writing"
    BY <1>0, <2>2, SetRcaAt
  <2>3. CASE AcquireSlot(p, i)
    <3>1. SetRca(p, i, [rca[p][i] EXCEPT !.pc = "running"])
      BY <2>3 DEF AcquireSlot
    <3>2. [rca[p][i] EXCEPT !.pc = "running"].pc = "running"
      BY <2>1 DEF Analysis
    <3> QED
      BY <2>2, <3>1, <3>2
  <2>4. CASE Analyze(p, i)
    <3>1. PICK answer \in Answers :
            SetRca(p, i, [rca[p][i] EXCEPT !.pc = "reading", !.answer = answer, !.at = now])
      BY <2>4 DEF Analyze
    <3>2. [rca[p][i] EXCEPT !.pc = "reading", !.answer = answer, !.at = now].pc = "reading"
      BY <2>1 DEF Analysis
    <3> QED
      BY <2>2, <3>1, <3>2
  <2>5. CASE FinishWrite(p, i)
    <3>1. \/ SetRca(p, i, NoAnalysis)
          \/ SetRca(p, i, [rca[p][i] EXCEPT !.pc = "reading", !.tries = @ + 1])
      BY <2>5 DEF FinishWrite
    <3>2. [rca[p][i] EXCEPT !.pc = "reading", !.tries = @ + 1].pc = "reading"
      BY <2>1 DEF Analysis
    <3>3. NoAnalysis.pc = "none"
      BY DEF NoAnalysis
    <3> QED
      BY <2>2, <3>1, <3>2, <3>3
  <2> QED
    BY <1>2, <2>3, <2>4, <2>5
<1>3. ASSUME NEW p \in Procs, NEW a \in Alerts, Mark(p, a)
      PROVE  rca'[q][j] = rca[q][j] \/ rca'[q][j].pc # "writing"
  <2> DEFINE t == eval[p][a].target
             r == [NoAnalysis EXCEPT !.pc = "waiting"]
  <2>1. t \in Ids
    <3>1. eval[p][a].pc = "marking" /\ eval[p][a].at \in Time
      BY <1>0, <1>3 DEF Mark, TypeOK, Evaluation
    <3> QED
      BY <3>1 DEF TypeInv, MarksCreated, Ids
  <2>2. rca' = rca \/ SetRca(p, t, r)
    BY <1>3 DEF Mark
  <2>3. r.pc = "waiting"
    BY DEF NoAnalysis
  <2> HIDE DEF t, r
  <2>4. CASE rca' = rca
    BY <2>4
  <2>5. CASE SetRca(p, t, r)
    BY <1>0, <2>1, <2>3, <2>5, SetRcaAt
  <2> QED
    BY <2>2, <2>4, <2>5
<1>4. ASSUME NEW p \in Procs, Crash(p)
      PROVE  rca'[q][j] = rca[q][j] \/ rca'[q][j].pc # "writing"
  BY <1>0, <1>4 DEF Crash, TypeOK, NoAnalysis
<1>5. ASSUME NEW p \in Procs, Recovers(p) PROVE rca' = rca
  BY <1>5 DEF Recovers, Start, RecoverList, RecoverPatch, Serve
<1>6. ASSUME NEW p \in Procs, NEW a \in Alerts,
             Fire(p, a) \/ List(p, a) \/ Compare(p, a) \/ Covered(p, a) \/ Create(p, a)
      PROVE  rca' = rca
  BY <1>6 DEF Fire, List, Compare, Covered, Create
<1>7. CASE Others \/ Touch \/ Tick \/ UNCHANGED vars
  BY <1>7 DEF Others, Close, Verify, Reopen, Resolve, Moves, Touch, Tick, volatile, vars
<1> QED
  BY <1>1, <1>2, <1>3, <1>4, <1>5, <1>6, <1>7 DEF Next, Evaluates, Analyses

LEMMA NextFreshIsCurrent == BaseInv /\ [Next]_vars => FreshIsCurrent'
<1> SUFFICES ASSUME BaseInv, [Next]_vars, NEW q \in Procs, NEW j \in Ids, j \in fresh'[q]
             PROVE  /\ j \in sweep'[q] => analyzingOrUnset(incidents'[j])
                    /\ rca'[q][j].pc = "writing" =>
                         (rca'[q][j].working <=> analyzingOrUnset(incidents'[j]))
  BY DEF FreshIsCurrent, analyzingOrUnset
<1>0. TypeInv /\ PhaseKept /\ FreshIsCurrent
  BY DEF BaseInv
<1>1. j \in sweep'[q] =>
        j \in sweep[q] \/ (j \in LeftBehind /\ UNCHANGED incidents)
  BY <1>0, PhaseSteps
<1>2. CASE j \in fresh[q] /\ incidents'[j] = incidents[j]
  <2>1. j \in sweep'[q] => analyzingOrUnset(incidents'[j])
    BY <1>0, <1>1, <1>2 DEF FreshIsCurrent, LeftBehind
  <2>2. rca'[q][j].pc = "writing" => (rca'[q][j].working <=> analyzingOrUnset(incidents'[j]))
    BY <1>0, <1>2, WritingSteps DEF FreshIsCurrent
  <2> QED
    BY <2>1, <2>2
<1>3. CASE RecoverList(q) /\ j \in LeftBehind /\ UNCHANGED <<incidents, rca>>
  <2>1. rca'[q][j].pc = "none"
    BY <1>0, <1>3 DEF RecoverList, PhaseKept
  <2> QED
    BY <1>3, <2>1 DEF LeftBehind
<1>4. CASE FinishRead(q, j)
  <2>1. rca[q][j].pc = "reading" /\ UNCHANGED <<incidents, sweep>>
    BY <1>4 DEF FinishRead
  <2>2. sweep[q] = {}
    BY <1>0, <2>1 DEF PhaseKept
  <2>3. rca'[q][j].pc = "writing" => rca'[q][j].working = analyzingOrUnset(incidents[j])
    BY <1>0, <2>1, WritingSteps
  <2> QED
    BY <2>1, <2>2, <2>3
<1> QED
  BY <1>0, <1>2, <1>3, <1>4, FreshSteps

-----------------------------------------------------------------------------
(* Who writes an incident. *)

\* A process handles an incident it handled, or has just created.
LEMMA HandlesSteps ==
    ASSUME TypeInv, [Next]_vars, NEW q \in Procs, NEW j \in Ids, Handles(q, j)'
    PROVE  \/ Handles(q, j)
           \/ /\ incidents[j].state = "Absent" /\ incidents'[j] = Created
              /\ \E b \in Alerts : Create(q, b)
<1>0. TypeOK /\ TypeOK'
  BY NextType DEF TypeInv
<1>1. CASE rca'[q][j].pc # "none"
  BY <1>1, RcaSteps DEF Handles, Mark
<1>2. ASSUME NEW b \in Alerts, eval'[q][b].pc = "marking", eval'[q][b].target = j
      PROVE  \/ Handles(q, j)
             \/ incidents[j].state = "Absent" /\ incidents'[j] = Created /\ Create(q, b)
  <2> DEFINE i == <<b, eval[q][b].at>>
             marks == [eval[q][b] EXCEPT !.pc = "marking", !.target = i]
             covers == [eval[q][b] EXCEPT !.pc = "covered", !.target = i]
  <2>1. CASE eval'[q][b] = eval[q][b]
    BY <1>2, <2>1 DEF Handles
  <2>2. CASE Create(q, b)
    <3>1. \/ incidents[i].state = "Absent" /\ Write(i, Created) /\ SetEval(q, b, marks)
          \/ SetEval(q, b, covers)
          \/ SetEval(q, b, Idle)
      BY <2>2 DEF Create
    <3>2. eval[q][b] \in Evaluation /\ i \in Ids
      BY <1>0 DEF TypeOK, Evaluation, Ids
    <3>3. marks.target = i /\ covers.pc = "covered" /\ Idle.pc = "idle"
      BY <3>2 DEF Evaluation, Idle
    <3> HIDE DEF i, marks, covers
    <3>4. ~SetEval(q, b, covers) /\ ~SetEval(q, b, Idle)
      BY <1>0, <1>2, <3>3, SetEvalAt
    <3>5. i = j
      BY <1>0, <1>2, <3>1, <3>3, <3>4, SetEvalAt
    <3>6. incidents'[j] = Created
      BY <1>0, <3>1, <3>2, <3>4, <3>5, WriteAt
    <3> QED
      BY <2>2, <3>1, <3>4, <3>5, <3>6
  <2> QED
    BY <1>2, <2>1, <2>2, EvalSteps
<1> QED
  BY <1>1, <1>2 DEF Handles

LEMMA NobodyHandlesAbsent ==
    ASSUME TypeInv, NEW q \in Procs, NEW j \in Ids, incidents[j].state = "Absent"
    PROVE  ~Handles(q, j)
BY DEF TypeInv, AnalysisExists, MarksOnce, Handles

LEMMA NextOneHandler == TypeInv /\ OneHandler /\ [Next]_vars => OneHandler'
<1> SUFFICES ASSUME TypeInv, OneHandler, [Next]_vars,
                    NEW p \in Procs, NEW q \in Procs, NEW j \in Ids,
                    Handles(p, j)', Handles(q, j)', p # q
             PROVE  FALSE
  BY DEF OneHandler, Handles
<1>0. TypeOK
  BY DEF TypeInv
<1>1. ASSUME NEW x \in Procs, NEW y \in Procs, x # y, Handles(x, j)',
             NEW b \in Alerts, Create(y, b), incidents[j].state = "Absent"
      PROVE  FALSE
  <2>1. UNCHANGED rca /\ \E e : SetEval(y, b, e)
    BY <1>1 DEF Create
  <2>2. \A c \in Alerts : eval'[x][c] = eval[x][c]
    BY <1>0, <1>1, <2>1, SetEvalAt
  <2>3. Handles(x, j)
    BY <1>1, <2>1, <2>2 DEF Handles
  <2> QED
    BY <1>1, <2>3, NobodyHandlesAbsent
<1>2. Handles(p, j) /\ Handles(q, j)
  BY <1>1, HandlesSteps
<1> QED
  BY <1>2 DEF OneHandler

-----------------------------------------------------------------------------
(* error and howToFix. *)

\* The analysis that writes howToFix is the last to write the incident before the controller and
\* humans; a sweep and a mark write none, and find none.
LEMMA NextErrors == ErrorInv /\ [Next]_vars => NoFixYet' /\ ErrorIffNoScripts'
<1> SUFFICES ASSUME ErrorInv, [Next]_vars, NEW j \in Ids
             PROVE  /\ incidents'[j].fix =>
                         ~analyzingOrUnset(incidents'[j]) /\ \A p \in Procs : ~Handles(p, j)'
                    /\ incidents'[j].completedAt # Unset =>
                         (incidents'[j].fix <=> incidents'[j].error = "none")
  BY DEF NoFixYet, ErrorIffNoScripts, Handles, analyzingOrUnset
<1>0. TypeInv /\ TypeOK /\ FreshIsCurrent /\ OneHandler /\ NoFixYet /\ ErrorIffNoScripts
  BY DEF ErrorInv, BaseInv, TypeInv
<1>1. incidents[j] \in Incident
  BY <1>0 DEF TypeOK
<1>2. Created.fix = FALSE /\ Created.completedAt = Unset
  BY DEF Created, Absent
<1>3. ASSUME NEW p \in Procs, Handles(p, j)', incidents'[j].fix PROVE Handles(p, j)
  BY <1>0, <1>2, <1>3, HandlesSteps
<1>4. CASE incidents'[j] = incidents[j]
  BY <1>0, <1>3, <1>4 DEF NoFixYet, ErrorIffNoScripts
<1>5. CASE ByOthers(j)
  BY <1>0, <1>3, <1>5 DEF ByOthers, NoFixYet, ErrorIffNoScripts
<1>6. CASE BySweep(j)
  <2>1. ~incidents[j].fix
    BY <1>0, <1>6 DEF BySweep, FreshIsCurrent, NoFixYet
  <2>2. incidents'[j].fix = incidents[j].fix /\ incidents'[j].error = "interrupted"
    BY <1>1, <1>6 DEF BySweep, Interrupted, Incident
  <2> QED
    BY <2>1, <2>2
<1>7. CASE ByCreate(j)
  BY <1>2, <1>7 DEF ByCreate
<1>8. CASE ByMark(j)
  <2>1. ~incidents[j].fix
    BY <1>0, <1>8 DEF ByMark, Handles, NoFixYet
  <2>2. /\ incidents'[j].fix = incidents[j].fix /\ incidents'[j].error = incidents[j].error
        /\ incidents'[j].completedAt = incidents[j].completedAt
    BY <1>1, <1>8 DEF ByMark, Incident
  <2> QED
    BY <1>0, <2>1, <2>2 DEF ErrorIffNoScripts
<1>9. CASE ByAnalysis(j)
  <2>1. PICK p \in Procs : /\ rca[p][j].pc = "writing" /\ j \in fresh[p]
                           /\ incidents'[j] = Analyzed(incidents[j], rca[p][j])
                           /\ rca'[p][j] = NoAnalysis
                           /\ UNCHANGED eval
    BY <1>9 DEF ByAnalysis
  <2>2. Handles(p, j) /\ ~incidents[j].fix
    BY <1>0, <2>1 DEF Handles, NoFixYet
  <2>3. /\ incidents'[j].fix = (incidents[j].fix \/ rca[p][j].answer.fix)
        /\ incidents'[j].error = IF rca[p][j].answer.fix THEN "none" ELSE "analysis"
        /\ incidents'[j].state = IF rca[p][j].working THEN "Open" ELSE incidents[j].state
    BY <1>1, <2>1 DEF Analyzed, Incident
  <2>4. rca[p][j].working <=> analyzingOrUnset(incidents[j])
    BY <1>0, <2>1 DEF FreshIsCurrent
  <2>5. ~analyzingOrUnset(incidents'[j])
    BY <2>3, <2>4 DEF analyzingOrUnset
  <2>6. ~Handles(p, j)'
    BY <1>0, <2>1 DEF Handles, NoAnalysis, TypeInv, MarksOnce
  <2>7. ASSUME NEW q \in Procs, Handles(q, j)', incidents'[j].fix PROVE FALSE
    BY <1>0, <1>3, <2>2, <2>6, <2>7 DEF OneHandler
  <2> QED
    BY <2>2, <2>3, <2>5, <2>7
<1> QED
  BY <1>0, <1>4, <1>5, <1>6, <1>7, <1>8, <1>9, IncidentSteps

LEMMA InitErrorInv == Init => ErrorInv
<1> SUFFICES ASSUME Init PROVE ErrorInv
  OBVIOUS
<1>1. TypeInv
  BY InitTypeInv
<1>2. PhaseKept /\ FreshIsCurrent
  BY DEF Init, PhaseKept, FreshIsCurrent, Idle, NoAnalysis
<1>3. \A p \in Procs, i \in Ids : ~Handles(p, i)
  BY DEF Init, Handles, Idle, NoAnalysis
<1>4. \A i \in Ids : ~incidents[i].fix /\ incidents[i].completedAt = Unset
  BY DEF Init, Absent
<1> QED
  BY <1>1, <1>2, <1>3, <1>4 DEF ErrorInv, BaseInv, OneHandler, NoFixYet, ErrorIffNoScripts

\* Whatever processes swept, marked and analyzed an incident in whatever order, with whatever
\* calls lost: once it has completedAt, error is empty exactly when howToFix is there.
THEOREM ErrorExplains == Spec => []ErrorIffNoScripts
<1>1. ErrorInv /\ [Next]_vars => ErrorInv'
  <2> SUFFICES ASSUME ErrorInv, [Next]_vars PROVE ErrorInv'
    OBVIOUS
  <2>1. TypeInv'
    BY NextType, NextMarksCreated, NextAnalysisExists, NextMarksOnce, NextSlotsCountRunning
       DEF ErrorInv, BaseInv, TypeInv
  <2> QED
    BY <2>1, NextPhaseKept, NextFreshIsCurrent, NextOneHandler, NextErrors DEF ErrorInv, BaseInv
<1>2. ErrorInv => ErrorIffNoScripts
  BY DEF ErrorInv
<1> QED
  BY InitErrorInv, <1>1, <1>2, PTL DEF Spec

-----------------------------------------------------------------------------
(* One incident in progress per alert.  With one process the firing lock is the alert's only
   writer: OneInProgressPerAlert is not inductive alone, since between the list and the create,
   and between the create and the mark, it rests on what the evaluation has found. *)

\* An incident not yet marked has nothing a comparison could read.
UnsetHasNothing ==
    \A i \in Ids : incidents[i].state = "Unset" => ~incidents[i].cause /\ ~incidents[i].report

\* The evaluation found no incident that covers the firing, and will create one unless the
\* comparison names one.
Vacant(p, a) ==
    \/ eval[p][a].pc = "creating"
    \/ eval[p][a].pc = "comparing" /\ eval[p][a].target = NoId

\* None of the alert is in progress then, and only the one it created until it is marked.
OnlyMine ==
    \A p \in Procs, a \in Alerts, i \in Ids :
        i[1] = a /\ InProgress(i) =>
            /\ ~Vacant(p, a)
            /\ eval[p][a].pc = "marking" => eval[p][a].target = i

OneProcess == \A x, y \in Procs : x = y

PickInv == BaseInv /\ UnsetHasNothing /\ OnlyMine /\ OneInProgressPerAlert

\* An incident comes in progress by its create, or by the mark.
LEMMA InProgressSteps ==
    ASSUME TypeInv, FreshIsCurrent, [Next]_vars, NEW j \in Ids, InProgress(j)'
    PROVE  \/ InProgress(j)
           \/ \E p \in Procs, a \in Alerts : Create(p, a) /\ j = <<a, eval[p][a].at>>
           \/ \E p \in Procs, a \in Alerts : Mark(p, a) /\ eval[p][a].target = j /\ j[1] = a
<1>0. incidents[j] \in Incident
  BY DEF TypeInv, TypeOK
<1>1. CASE incidents'[j] = incidents[j]
  BY <1>1 DEF InProgress, analyzingOrUnset
<1>2. CASE ByOthers(j)
  BY <1>2 DEF ByOthers, InProgress, analyzingOrUnset
<1>3. CASE BySweep(j)
  BY <1>0, <1>3 DEF BySweep, Interrupted, InProgress, analyzingOrUnset, Incident
<1>4. CASE ByCreate(j)
  BY <1>4 DEF ByCreate
<1>5. CASE ByMark(j)
  BY <1>5 DEF ByMark, TypeInv, MarksCreated
<1>6. CASE ByAnalysis(j)
  <2>1. PICK p \in Procs : /\ rca[p][j].pc = "writing" /\ j \in fresh[p]
                           /\ incidents'[j] = Analyzed(incidents[j], rca[p][j])
    BY <1>6 DEF ByAnalysis
  <2>2. rca[p][j].working <=> analyzingOrUnset(incidents[j])
    BY <2>1 DEF FreshIsCurrent
  <2>3. incidents'[j].state = IF rca[p][j].working THEN "Open" ELSE incidents[j].state
    BY <1>0, <2>1 DEF Analyzed, Incident
  <2> QED
    BY <2>2, <2>3 DEF InProgress, analyzingOrUnset
<1> QED
  BY <1>1, <1>2, <1>3, <1>4, <1>5, <1>6, IncidentSteps

LEMMA NextUnsetHasNothing ==
    TypeInv /\ FreshIsCurrent /\ UnsetHasNothing /\ [Next]_vars => UnsetHasNothing'
<1> SUFFICES ASSUME TypeInv, FreshIsCurrent, UnsetHasNothing, [Next]_vars, NEW j \in Ids,
                    incidents'[j].state = "Unset"
             PROVE  ~incidents'[j].cause /\ ~incidents'[j].report
  BY DEF UnsetHasNothing
<1>0. incidents[j] \in Incident
  BY DEF TypeInv, TypeOK
<1>1. CASE incidents'[j] = incidents[j]
  BY <1>1 DEF UnsetHasNothing
<1>2. CASE ByOthers(j)
  BY <1>2 DEF ByOthers, analyzingOrUnset
<1>3. CASE BySweep(j)
  BY <1>0, <1>3 DEF BySweep, Interrupted, Incident
<1>4. CASE ByCreate(j)
  BY <1>4 DEF ByCreate, Created, Absent
<1>5. CASE ByMark(j)
  BY <1>0, <1>5 DEF ByMark, Incident
<1>6. CASE ByAnalysis(j)
  <2>1. PICK p \in Procs : /\ rca[p][j].pc = "writing" /\ j \in fresh[p]
                           /\ incidents'[j] = Analyzed(incidents[j], rca[p][j])
    BY <1>6 DEF ByAnalysis
  <2>2. incidents'[j].state = IF rca[p][j].working THEN "Open" ELSE incidents[j].state
    BY <1>0, <2>1 DEF Analyzed, Incident
  <2> QED
    BY <2>1, <2>2 DEF FreshIsCurrent, analyzingOrUnset
<1> QED
  BY <1>1, <1>2, <1>3, <1>4, <1>5, <1>6, IncidentSteps

\* An incident in progress is no candidate of a comparison, and holds every firing.
LEMMA FallbackNone ==
    ASSUME TypeInv, UnsetHasNothing, NEW a \in Alerts, NEW at, Fallback(a, at) = NoId,
           NEW i \in Ids, i[1] = a
    PROVE  ~InProgress(i)
<1>1. SUFFICES ASSUME InProgress(i) PROVE FALSE
  OBVIOUS
<1>2. i \in Open(a) /\ ~Comparable(incidents[i]) /\ holdsFirings(incidents[i], at)
  BY <1>1 DEF Open, alertIncidents, ended, InProgress, analyzingOrUnset, Comparable,
              UnsetHasNothing, holdsFirings
<1> QED
  BY <1>2, FallbackChoice DEF TypeInv, TypeOK

\* An evaluation finds no incident by its list, and stays with that.
LEMMA VacantSteps ==
    ASSUME TypeInv, [Next]_vars, NEW q \in Procs, NEW b \in Alerts, Vacant(q, b)'
    PROVE  \/ Vacant(q, b) /\ ~Create(q, b) /\ ~Mark(q, b)
           \/ UNCHANGED incidents /\ Fallback(b, eval[q][b].at) = NoId
<1>0. TypeOK /\ eval[q][b] \in Evaluation
  BY DEF TypeInv, TypeOK
<1>1. ASSUME NEW e, SetEval(q, b, e) PROVE eval'[q][b] = e
  BY <1>0, <1>1, SetEvalAt
<1>2. ASSUME NEW f
      PROVE  /\ CoverOrCreate(eval[q][b], f).pc = IF f # NoId THEN "covered" ELSE "creating"
             /\ CoverOrCreate(eval[q][b], f).target = f
  BY <1>0 DEF CoverOrCreate, Evaluation
<1>3. Idle.pc = "idle"
  BY DEF Idle
<1>4. ASSUME NEW p \in Procs, NEW a \in Alerts, Fire(p, a) \/ Evaluates(p, a), p # q \/ a # b
      PROVE  eval'[q][b] = eval[q][b]
  <2>1. UNCHANGED eval \/ \E e : SetEval(p, a, e)
    <3>1. CASE Fire(p, a)
      BY <3>1 DEF Fire
    <3>2. CASE List(p, a)
      BY <3>2 DEF List
    <3>3. CASE Compare(p, a)
      BY <3>3 DEF Compare
    <3>4. CASE Covered(p, a) \/ Mark(p, a)
      BY <3>4 DEF Covered, Mark
    <3>5. CASE Create(p, a)
      BY <3>5 DEF Create
    <3> QED
      BY <1>4, <3>1, <3>2, <3>3, <3>4, <3>5 DEF Evaluates
  <2> QED
    BY <1>0, <1>4, <2>1, SetEvalAt
<1>5. CASE Fire(q, b) /\ ~Create(q, b) /\ ~Mark(q, b)
  <2>1. UNCHANGED eval \/ SetEval(q, b, [Idle EXCEPT !.pc = "listing", !.at = now])
    BY <1>5 DEF Fire
  <2>2. [Idle EXCEPT !.pc = "listing", !.at = now].pc = "listing"
    BY DEF Idle
  <2>3. UNCHANGED eval
    BY <1>1, <2>1, <2>2 DEF Vacant
  <2> QED
    BY <1>5, <2>3 DEF Vacant
<1>6. CASE List(q, b)
  <2> DEFINE e == eval[q][b]
             f == Fallback(b, e.at)
             compares == [e EXCEPT !.pc = "comparing", !.candidates = Candidates(b), !.target = f]
  <2>1. UNCHANGED incidents
    BY <1>6 DEF List, cluster
  <2>2. compares.target = f
    BY <1>0 DEF Evaluation
  <2> HIDE DEF f
  <2>3. \/ SetEval(q, b, CoverOrCreate(e, f))
        \/ SetEval(q, b, compares)
        \/ SetEval(q, b, Idle)
    BY <1>6 DEF List, f
  <2> HIDE DEF compares
  <2>4. \/ eval'[q][b] = CoverOrCreate(e, f)
        \/ eval'[q][b] = compares
        \/ eval'[q][b] = Idle
    BY <1>1, <2>3
  <2>5. CASE eval'[q][b] = CoverOrCreate(e, f)
    BY <1>2, <2>1, <2>5 DEF Vacant, f
  <2>6. CASE eval'[q][b] = compares
    <3>1. compares.pc = "comparing"
      BY <1>0 DEF Evaluation, compares
    <3>2. compares.target = NoId
      BY <2>6, <3>1 DEF Vacant
    <3> QED
      BY <2>1, <2>2, <3>2 DEF f
  <2>7. CASE eval'[q][b] = Idle
    BY <1>3, <2>7 DEF Vacant
  <2> QED
    BY <2>4, <2>5, <2>6, <2>7
<1>7. CASE Compare(q, b) /\ ~Create(q, b) /\ ~Mark(q, b)
  <2> DEFINE e == eval[q][b]
  <2>1. \/ \E i \in e.candidates :
             SetEval(q, b, [e EXCEPT !.pc = "covered", !.candidates = {}, !.target = i])
        \/ SetEval(q, b, CoverOrCreate(e, e.target))
        \/ SetEval(q, b, Idle)
    BY <1>7 DEF Compare
  <2>2. ASSUME NEW i PROVE [e EXCEPT !.pc = "covered", !.candidates = {}, !.target = i].pc = "covered"
    BY <1>0 DEF Evaluation
  <2>3. CASE \E i \in e.candidates :
               SetEval(q, b, [e EXCEPT !.pc = "covered", !.candidates = {}, !.target = i])
    BY <1>1, <2>2, <2>3 DEF Vacant
  <2>4. CASE SetEval(q, b, CoverOrCreate(e, e.target))
    BY <1>1, <1>2, <1>7, <2>4 DEF Vacant, Compare
  <2>5. CASE SetEval(q, b, Idle)
    BY <1>1, <1>3, <2>5 DEF Vacant
  <2> QED
    BY <2>1, <2>3, <2>4, <2>5
<1>8. CASE Covered(q, b) \/ Mark(q, b)
  BY <1>1, <1>3, <1>8 DEF Covered, Mark, Vacant
<1>9. CASE Create(q, b)
  <2> DEFINE i == <<b, eval[q][b].at>>
             marks == [eval[q][b] EXCEPT !.pc = "marking", !.target = i]
             covers == [eval[q][b] EXCEPT !.pc = "covered", !.target = i]
  <2>1. SetEval(q, b, marks) \/ SetEval(q, b, covers) \/ SetEval(q, b, Idle)
    BY <1>9 DEF Create
  <2>2. marks.pc = "marking" /\ covers.pc = "covered"
    BY <1>0 DEF Evaluation
  <2> HIDE DEF marks, covers
  <2> QED
    BY <1>1, <1>3, <2>1, <2>2 DEF Vacant
<1>10. CASE eval'[q][b] = eval[q][b] /\ ~Create(q, b) /\ ~Mark(q, b)
  BY <1>10 DEF Vacant
<1>11. ASSUME NEW p \in Procs, Crash(p) PROVE eval'[q][b] = eval[q][b]
  BY <1>0, <1>3, <1>11 DEF Crash, TypeOK, Vacant
<1>12. ASSUME NEW p \in Procs, Recovers(p) PROVE eval' = eval
  BY <1>12 DEF Recovers, Start, RecoverList, RecoverPatch, Serve
<1>13. ASSUME NEW p \in Procs, NEW i \in Ids, Analyses(p, i) PROVE eval' = eval
  BY <1>13 DEF Analyses, AcquireSlot, Analyze, FinishRead, FinishWrite
<1>14. ASSUME Others \/ Touch \/ Tick \/ UNCHANGED vars PROVE eval' = eval
  BY <1>14 DEF Others, Close, Verify, Reopen, Resolve, Moves, Touch, Tick, volatile, vars
<1> QED
  BY <1>4, <1>5, <1>6, <1>7, <1>8, <1>9, <1>10, <1>11, <1>12, <1>13, <1>14 DEF Next, Evaluates

\* Two evaluations of one process are at different alerts; an evaluation is at one call.
LEMMA NextOnlyMine ==
    ASSUME OneProcess, PickInv, [Next]_vars
    PROVE  OnlyMine'
<1> SUFFICES ASSUME NEW q \in Procs, NEW b \in Alerts, NEW j \in Ids, j[1] = b, InProgress(j)'
             PROVE  /\ ~Vacant(q, b)'
                    /\ eval'[q][b].pc = "marking" => eval'[q][b].target = j
  BY DEF OnlyMine, Vacant, InProgress, analyzingOrUnset
<1>0. TypeInv /\ TypeOK /\ FreshIsCurrent /\ UnsetHasNothing /\ OnlyMine
  BY DEF PickInv, BaseInv, TypeInv
<1>1. eval[q][b] \in Evaluation
  BY <1>0 DEF TypeOK
<1>2. \/ InProgress(j)
      \/ Create(q, b) /\ j = <<b, eval[q][b].at>>
      \/ Mark(q, b) /\ eval[q][b].target = j
  <2>1. ASSUME NEW p \in Procs, NEW a \in Alerts, Create(p, a), j = <<a, eval[p][a].at>>
        PROVE  Create(q, b) /\ j = <<b, eval[q][b].at>>
    BY <2>1 DEF OneProcess
  <2>2. ASSUME NEW p \in Procs, NEW a \in Alerts, Mark(p, a), eval[p][a].target = j, j[1] = a
        PROVE  Mark(q, b) /\ eval[q][b].target = j
    BY <2>2 DEF OneProcess
  <2> QED
    BY <1>0, <2>1, <2>2, InProgressSteps
<1>3. ASSUME Vacant(q, b)' PROVE FALSE
  <2>1. CASE Vacant(q, b) /\ ~Create(q, b) /\ ~Mark(q, b)
    BY <1>0, <1>2, <2>1 DEF OnlyMine
  <2>2. CASE UNCHANGED incidents /\ Fallback(b, eval[q][b].at) = NoId
    <3>1. InProgress(j)
      BY <2>2 DEF InProgress, analyzingOrUnset
    <3> QED
      BY <1>0, <2>2, <3>1, FallbackNone
  <2> QED
    BY <1>0, <1>3, <2>1, <2>2, VacantSteps
<1>4. ASSUME eval'[q][b].pc = "marking" PROVE eval'[q][b].target = j
  <2>1. CASE eval'[q][b] = eval[q][b]
    <3>1. eval[q][b].pc = "marking"
      BY <1>4, <2>1
    <3>2. ~Create(q, b)
      BY <3>1 DEF Create
    <3> QED
      BY <1>0, <1>2, <2>1, <3>1, <3>2 DEF OnlyMine
  <2>2. CASE Create(q, b)
    <3>1. Vacant(q, b)
      BY <2>2 DEF Create, Vacant
    <3>2. ~InProgress(j) /\ ~Mark(q, b)
      BY <1>0, <2>2, <3>1 DEF OnlyMine, Create, Mark
    <3>3. j = <<b, eval[q][b].at>>
      BY <1>2, <3>2
    <3> DEFINE i == <<b, eval[q][b].at>>
               marks == [eval[q][b] EXCEPT !.pc = "marking", !.target = i]
               covers == [eval[q][b] EXCEPT !.pc = "covered", !.target = i]
    <3>4. SetEval(q, b, marks) \/ SetEval(q, b, covers) \/ SetEval(q, b, Idle)
      BY <2>2 DEF Create
    <3>5. marks.target = i /\ covers.pc = "covered" /\ Idle.pc = "idle"
      BY <1>1 DEF Evaluation, Idle
    <3> HIDE DEF i, marks, covers
    <3>6. eval'[q][b].target = i
      BY <1>0, <1>4, <3>4, <3>5, SetEvalAt
    <3> QED
      BY <3>3, <3>6 DEF i
  <2> QED
    BY <1>0, <1>4, <2>1, <2>2, EvalSteps
<1> QED
  BY <1>3, <1>4

LEMMA NextOneInProgress ==
    ASSUME OneProcess, PickInv, [Next]_vars
    PROVE  OneInProgressPerAlert'
<1> SUFFICES ASSUME NEW i \in Ids, NEW j \in Ids, InProgress(i)', InProgress(j)', i[1] = j[1]
             PROVE  i = j
  BY DEF OneInProgressPerAlert, InProgress, analyzingOrUnset
<1>0. TypeInv /\ FreshIsCurrent /\ OnlyMine /\ OneInProgressPerAlert
  BY DEF PickInv, BaseInv
<1>1. ASSUME NEW x \in Ids, InProgress(x)'
      PROVE  \/ InProgress(x)
             \/ \E p \in Procs, a \in Alerts :
                  eval[p][a].pc = "creating" /\ x = <<a, eval[p][a].at>>
             \/ \E p \in Procs, a \in Alerts :
                  eval[p][a].pc = "marking" /\ eval[p][a].target = x /\ x[1] = a
  <2>1. ASSUME NEW p \in Procs, NEW a \in Alerts
        PROVE  /\ Create(p, a) => eval[p][a].pc = "creating"
               /\ Mark(p, a) => eval[p][a].pc = "marking"
    BY DEF Create, Mark
  <2> QED
    BY <1>0, <1>1, <2>1, InProgressSteps
<1>2. CASE InProgress(i) /\ InProgress(j)
  BY <1>0, <1>2 DEF OneInProgressPerAlert
<1>3. ASSUME NEW x \in Ids, NEW y \in Ids, InProgress(x)', InProgress(y)', x[1] = y[1],
             NEW p \in Procs, NEW a \in Alerts, eval[p][a].pc = "creating", x = <<a, eval[p][a].at>>
      PROVE  x = y
  <2>1. x[1] = a /\ Vacant(p, a)
    BY <1>3 DEF Vacant
  <2>2. ~InProgress(y)
    BY <1>0, <1>3, <2>1 DEF OnlyMine
  <2>3. ASSUME NEW q \in Procs, NEW b \in Alerts, eval[q][b].pc = "creating", y = <<b, eval[q][b].at>>
        PROVE  x = y
    <3>1. b = a /\ q = p
      BY <1>3, <2>1, <2>3 DEF OneProcess
    <3> QED
      BY <1>3, <2>3, <3>1
  <2>4. ASSUME NEW q \in Procs, NEW b \in Alerts, eval[q][b].pc = "marking", y[1] = b
        PROVE  FALSE
    <3>1. b = a /\ q = p
      BY <1>3, <2>1, <2>4 DEF OneProcess
    <3> QED
      BY <1>3, <2>4, <3>1
  <2> QED
    BY <1>1, <1>3, <2>2, <2>3, <2>4
<1>4. ASSUME NEW x \in Ids, NEW y \in Ids, InProgress(x)', InProgress(y)', x[1] = y[1],
             NEW p \in Procs, NEW a \in Alerts,
             eval[p][a].pc = "marking", eval[p][a].target = x, x[1] = a
      PROVE  x = y
  <2>1. CASE InProgress(y)
    BY <1>0, <1>4, <2>1 DEF OnlyMine
  <2>2. ASSUME NEW q \in Procs, NEW b \in Alerts, eval[q][b].pc = "creating", y = <<b, eval[q][b].at>>
        PROVE  x = y
    BY <1>3, <1>4, <2>2
  <2>3. ASSUME NEW q \in Procs, NEW b \in Alerts,
               eval[q][b].pc = "marking", eval[q][b].target = y, y[1] = b
        PROVE  x = y
    <3>1. b = a /\ q = p
      BY <1>4, <2>3 DEF OneProcess
    <3> QED
      BY <1>4, <2>3, <3>1
  <2> QED
    BY <1>1, <1>4, <2>1, <2>2, <2>3
<1> QED
  BY <1>1, <1>2, <1>3, <1>4

LEMMA InitPickInv == Init => PickInv
<1> SUFFICES ASSUME Init PROVE PickInv
  OBVIOUS
<1>1. BaseInv
  BY InitErrorInv DEF ErrorInv
<1>2. \A i \in Ids : incidents[i].state = "Absent"
  BY DEF Init, Absent
<1> QED
  BY <1>1, <1>2 DEF PickInv, UnsetHasNothing, OnlyMine, OneInProgressPerAlert, InProgress

LEMMA NextPickInv == ASSUME OneProcess, PickInv, [Next]_vars PROVE PickInv'
<1>1. TypeInv'
  BY NextType, NextMarksCreated, NextAnalysisExists, NextMarksOnce, NextSlotsCountRunning
     DEF PickInv, BaseInv, TypeInv
<1>2. BaseInv'
  BY <1>1, NextPhaseKept, NextFreshIsCurrent DEF PickInv, BaseInv
<1> QED
  BY <1>2, NextUnsetHasNothing, NextOnlyMine, NextOneInProgress DEF PickInv, BaseInv

\* In one process, whatever calls fail and however often it restarts: an alert never has two
\* incidents in progress, so one problem has one RCA at a time.
THEOREM OneAnalysisPerAlert ==
    ASSUME OneProcess
    PROVE  Spec => []OneInProgressPerAlert
<1>1. PickInv /\ [Next]_vars => PickInv'
  BY NextPickInv
<1>2. PickInv => OneInProgressPerAlert
  BY DEF PickInv
<1> QED
  BY InitPickInv, <1>1, <1>2, PTL DEF Spec

=============================================================================
