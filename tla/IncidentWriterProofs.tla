------------------------ MODULE IncidentWriterProofs ------------------------
(***************************************************************************)
(* Theorems about IncidentWriter, for every value of its constants.        *)
(***************************************************************************)
EXTENDS IncidentWriter, FiniteSetTheorems, WellFoundedInduction, TLAPS

\* A non-empty set of numbers up to n has a greatest element.
LEMMA Greatest ==
    ASSUME NEW n \in Nat, NEW S, S \subseteq 0 .. n, S # {}
    PROVE  \E x \in S : \A y \in S : y <= x
<1> DEFINE T == {n - x : x \in S}
<1>1. T \subseteq Nat
  <2> SUFFICES ASSUME NEW x \in S PROVE n - x \in Nat
    OBVIOUS
  <2> QED
    OBVIOUS
<1>2. T # {}
  <2>1. PICK x \in S : TRUE
    OBVIOUS
  <2>2. n - x \in T
    BY <2>1
  <2> QED
    BY <2>2
<1>3. PICK m \in T : \A k \in T : <<k, m>> \notin OpToRel(<, Nat)
  <2> HIDE DEF T
  <2> QED
    BY <1>1, <1>2, NatLessThanWellFounded, WFMin
<1>4. \A k \in T : ~(k < m)
  <2> SUFFICES ASSUME NEW k \in T, k < m PROVE FALSE
    OBVIOUS
  <2>1. k \in Nat /\ m \in Nat
    BY <1>1
  <2>2. <<k, m>> \in OpToRel(<, Nat)
    BY <2>1 DEF OpToRel
  <2> QED
    BY <1>3, <2>2
<1>5. PICK x \in S : m = n - x
  BY <1>3
<1>6. ASSUME NEW y \in S PROVE y <= x
  <2>1. n - y \in T
    OBVIOUS
  <2>2. ~(n - y < n - x)
    BY <1>4, <1>5, <2>1
  <2>3. x \in Int /\ y \in Int
    OBVIOUS
  <2> QED
    BY <2>2, <2>3
<1> QED
  BY <1>6

\* newest(S) is a member of S, and none of S is newer.
LEMMA NewestMember ==
    ASSUME incidents \in [Ids -> Incident], NEW S, S \subseteq Ids, S # {}
    PROVE  newest(S) \in S /\ \A j \in S : ~Newer(j, newest(S))
<1>1. \A i \in S : incidents[i].created \in 0 .. MaxTime /\ i[2] \in 0 .. MaxTime
  BY DEF Ids, Incident, Time
<1> DEFINE C == {incidents[i].created : i \in S}
<1>2. PICK c \in C : \A d \in C : d <= c
  <2>1. C \subseteq 0 .. MaxTime /\ C # {}
    BY <1>1
  <2> HIDE DEF C
  <2> QED
    BY <2>1, Greatest, ConstantsAssumption
<1> DEFINE L == {i \in S : incidents[i].created = c}
           N == {i[2] : i \in L}
<1>3. PICK n \in N : \A m \in N : m <= n
  <2>1. N \subseteq 0 .. MaxTime
    BY <1>1
  <2>2. N # {}
    BY <1>2
  <2> HIDE DEF N
  <2> QED
    BY <2>1, <2>2, Greatest, ConstantsAssumption
<1>4. PICK i \in L : i[2] = n
  BY <1>3
<1>5. ASSUME NEW j \in S PROVE ~Newer(j, i)
  <2>1. incidents[j].created <= c
    BY <1>2
  <2>2. incidents[j].created = c => j[2] <= n
    BY <1>3
  <2> QED
    BY <2>1, <2>2, <1>1, <1>4 DEF Newer
<1>6. \A j \in S : ~Newer(j, j)
  BY <1>1 DEF Newer
<1> QED
  BY <1>4, <1>5, <1>6 DEF newest

\* pick's fallback is an incident or none, and none only when no open incident without an analysis
\* holds the firing.
LEMMA FallbackChoice ==
    ASSUME incidents \in [Ids -> Incident], NEW a, NEW at
    PROVE  /\ Fallback(a, at) \in Ids \cup {NoId}
           /\ Fallback(a, at) = NoId =>
                \A i \in Open(a) : Comparable(incidents[i]) \/ ~holdsFirings(incidents[i], at)
<1> DEFINE holding == {i \in Open(a) : ~Comparable(incidents[i]) /\ holdsFirings(incidents[i], at)}
           all == alertIncidents(a)
<1>1. holding \subseteq Ids /\ all \subseteq Ids
  BY DEF Open, alertIncidents
<1>2. CASE holding # {}
  <2>1. newest(holding) \in Ids
    BY <1>1, <1>2, NewestMember
  <2>2. Fallback(a, at) = newest(holding)
    BY <1>2 DEF Fallback
  <2> QED
    BY <2>1, <2>2, ConstantsAssumption
<1>3. CASE holding = {}
  <2>1. all # {} => newest(all) \in Ids
    BY <1>1, NewestMember
  <2>2. Fallback(a, at) \in Ids \cup {NoId}
    BY <1>3, <2>1 DEF Fallback
  <2> QED
    BY <1>3, <2>2
<1> QED
  BY <1>2, <1>3

-----------------------------------------------------------------------------
(* Type correctness.  TypeOK is not inductive: the incident an evaluation marks is the one it
   created, no analysis of it runs yet, and a slot is given back only by an analysis that runs. *)

MarksCreated ==
    \A p \in Procs, a \in Alerts :
        eval[p][a].pc = "marking" => eval[p][a].target = <<a, eval[p][a].at>>

AnalysisExists ==
    \A p \in Procs, i \in Ids : rca[p][i].pc # "none" => incidents[i].state # "Absent"

MarksOnce ==
    \A p \in Procs, a \in Alerts :
        eval[p][a].pc = "marking" =>
            /\ incidents[eval[p][a].target].state # "Absent"
            /\ rca[p][eval[p][a].target].pc = "none"

SlotsCountRunning ==
    \A p \in Procs : IsFiniteSet(Running(p)) /\ slots[p] = Cardinality(Running(p))

TypeInv == TypeOK /\ MarksCreated /\ AnalysisExists /\ MarksOnce /\ SlotsCountRunning

\* The values the actions write have their types.
LEMMA ConstantTypes ==
    /\ Absent \in Incident /\ Idle \in Evaluation /\ NoAnalysis \in Analysis
    /\ [Absent EXCEPT !.state = "Unset"] \in Incident
<1>1. 0 \in Time /\ Unset \in Time \cup {Unset} /\ 0 \in 0 .. WriteAttempts - 1
  BY ConstantsAssumption DEF Time
<1>2. Absent \in Incident
  BY <1>1 DEF Absent, Incident, States
<1>3. [Absent EXCEPT !.state = "Unset"] \in Incident
  BY <1>1 DEF Absent, Incident, States
<1>4. Idle \in Evaluation
  BY <1>1 DEF Idle, Evaluation
<1>5. NoAnalysis \in Analysis
  <2>1. NoAnswer \in AllAnswers
    BY DEF NoAnswer, AllAnswers
  <2> QED
    BY <1>1, <2>1 DEF NoAnalysis, Analysis
<1> QED
  BY <1>2, <1>3, <1>4, <1>5

\* A write of a well-typed incident keeps the cluster's types.
LEMMA WriteType ==
    ASSUME TypeOK, NEW i \in Ids, NEW inc \in Incident, Write(i, inc)
    PROVE  incidents' \in [Ids -> Incident] /\ fresh' \in [Procs -> SUBSET Ids]
BY DEF TypeOK, Write

LEMMA InitType == Init => TypeOK
BY ConstantTypes, ConstantsAssumption DEF Init, TypeOK, Time, Unset

LEMMA RecoverType ==
    ASSUME TypeOK, NEW p \in Procs, Recovers(p) \/ Crash(p)
    PROVE  TypeOK'
<1> USE DEF budget, cluster
<1>1. CASE Start(p)
  BY <1>1 DEF Start, TypeOK
<1>2. CASE RecoverList(p)
  <2>1. LeftBehind \subseteq Ids
    BY DEF LeftBehind
  <2>2. faults' \in 0 .. MaxFaults
    BY <1>2, ConstantsAssumption DEF RecoverList, Fails, TypeOK
  <2>3. /\ fresh' \in [Procs -> SUBSET Ids]
        /\ phase' \in [Procs -> {"down", "starting", "sweeping", "serving"}]
        /\ sweep' \in [Procs -> SUBSET Ids]
        /\ lost' \subseteq Ids
    BY <1>2, <2>1 DEF RecoverList, TypeOK
  <2> QED
    BY <1>2, <2>2, <2>3 DEF RecoverList, TypeOK
<1>3. CASE RecoverPatch(p)
  <2>1. PICK i \in sweep[p] :
          /\ sweep' = [sweep EXCEPT ![p] = @ \ {i}]
          /\ lost' \in {lost, lost \cup {i}}
          /\ faults' = faults \/ Fails
          /\ Write(i, Interrupted(i)) \/ UNCHANGED cluster
    BY <1>3 DEF RecoverPatch
  <2>2. i \in Ids
    BY <2>1 DEF TypeOK
  <2>3. Interrupted(i) \in Incident
    <3>1. incidents[i] \in Incident /\ now \in Time
      BY <2>2 DEF TypeOK
    <3> QED
      BY <3>1 DEF Interrupted, Incident, States
  <2>4. incidents' \in [Ids -> Incident] /\ fresh' \in [Procs -> SUBSET Ids]
    BY <2>1, <2>2, <2>3, WriteType DEF TypeOK
  <2>5. faults' \in 0 .. MaxFaults
    BY <2>1, ConstantsAssumption DEF Fails, TypeOK
  <2> QED
    BY <1>3, <2>1, <2>2, <2>4, <2>5 DEF RecoverPatch, TypeOK
<1>4. CASE Serve(p)
  BY <1>4 DEF Serve, TypeOK
<1>5. CASE Crash(p)
  BY <1>5, ConstantTypes, ConstantsAssumption DEF Crash, TypeOK
<1> QED
  BY <1>1, <1>2, <1>3, <1>4, <1>5 DEF Recovers

\* Replacing one evaluation, or one analysis, keeps the type of all of them.
LEMMA EvalType ==
    ASSUME TypeOK, NEW p \in Procs, NEW a \in Alerts, NEW e \in Evaluation, SetEval(p, a, e)
    PROVE  eval' \in [Procs -> [Alerts -> Evaluation]]
BY DEF TypeOK, SetEval

LEMMA RcaType ==
    ASSUME TypeOK, NEW p \in Procs, NEW i \in Ids, NEW r \in Analysis, SetRca(p, i, r)
    PROVE  rca' \in [Procs -> [Ids -> Analysis]]
BY DEF TypeOK, SetRca

LEMMA CoverOrCreateType ==
    ASSUME NEW e \in Evaluation, NEW f \in Ids \cup {NoId}
    PROVE  CoverOrCreate(e, f) \in Evaluation
BY DEF CoverOrCreate, Evaluation

LEMMA EvaluatesType ==
    ASSUME TypeOK, MarksCreated, NEW p \in Procs, NEW a \in Alerts, Fire(p, a) \/ Evaluates(p, a)
    PROVE  TypeOK'
<1> DEFINE e == eval[p][a]
<1> USE DEF budget, cluster
<1>0. /\ e \in Evaluation /\ now \in Time
      /\ incidents \in [Ids -> Incident]
      /\ faults \in 0 .. MaxFaults /\ (Fails => faults' \in 0 .. MaxFaults)
  BY ConstantsAssumption DEF TypeOK, Fails
<1>1. CASE Fire(p, a)
  <2>1. [Idle EXCEPT !.pc = "listing", !.at = now] \in Evaluation
    BY <1>0, ConstantTypes DEF Evaluation
  <2>2. eval' \in [Procs -> [Alerts -> Evaluation]]
    <3>1. CASE SetEval(p, a, [Idle EXCEPT !.pc = "listing", !.at = now])
      BY <3>1, <2>1, EvalType
    <3>2. CASE UNCHANGED eval
      BY <3>2 DEF TypeOK
    <3> QED
      BY <1>1, <3>1, <3>2 DEF Fire
  <2>3. lastFired' \in [Procs -> [Alerts -> Time \cup {Unset}]]
    BY <1>0, <1>1 DEF Fire, TypeOK
  <2> QED
    BY <1>1, <2>2, <2>3 DEF Fire, TypeOK
<1>2. CASE List(p, a)
  <2>1. Fallback(a, e.at) \in Ids \cup {NoId}
    BY <1>0, FallbackChoice
  <2>2. CoverOrCreate(e, Fallback(a, e.at)) \in Evaluation
    BY <1>0, <2>1, CoverOrCreateType
  <2>3. [e EXCEPT !.pc = "comparing", !.candidates = Candidates(a), !.target = Fallback(a, e.at)]
          \in Evaluation
    <3>1. Candidates(a) \subseteq Ids
      BY DEF Candidates, Open, alertIncidents
    <3> QED
      BY <1>0, <2>1, <3>1 DEF Evaluation
  <2>4. \E f \in Evaluation : SetEval(p, a, f)
    BY <1>2, <2>2, <2>3, ConstantTypes DEF List
  <2>5. eval' \in [Procs -> [Alerts -> Evaluation]]
    BY <2>4, EvalType
  <2>6. faults' \in 0 .. MaxFaults
    BY <1>0, <1>2 DEF List
  <2> QED
    BY <1>2, <2>5, <2>6 DEF List, TypeOK
<1>3. CASE Compare(p, a)
  <2>1. CoverOrCreate(e, e.target) \in Evaluation
    <3>1. e.target \in Ids \cup {NoId}
      BY <1>0 DEF Evaluation
    <3> QED
      BY <1>0, <3>1, CoverOrCreateType
  <2>2. \A i \in e.candidates :
          [e EXCEPT !.pc = "covered", !.candidates = {}, !.target = i] \in Evaluation
    BY <1>0 DEF Evaluation
  <2>3. \E f \in Evaluation : SetEval(p, a, f)
    BY <1>3, <2>1, <2>2, ConstantTypes DEF Compare
  <2>4. eval' \in [Procs -> [Alerts -> Evaluation]]
    BY <2>3, EvalType
  <2> QED
    BY <1>3, <2>4 DEF Compare, TypeOK
<1>4. CASE Covered(p, a)
  <2>1. eval' \in [Procs -> [Alerts -> Evaluation]]
    BY <1>4, EvalType, ConstantTypes DEF Covered
  <2> QED
    BY <1>4, <2>1 DEF Covered, TypeOK
<1>5. CASE Create(p, a)
  <2> DEFINE i == <<a, e.at>>
  <2>1. i \in Ids
    BY <1>0 DEF Ids, Evaluation
  <2>2. Created \in Incident
    BY <1>0, ConstantTypes DEF Created, Incident
  <2>3. \A pc \in {"marking", "covered"} : [e EXCEPT !.pc = pc, !.target = i] \in Evaluation
    BY <1>0, <2>1 DEF Evaluation
  <2>4. \E f \in Evaluation : SetEval(p, a, f)
    BY <1>5, <2>3, ConstantTypes DEF Create
  <2>5. eval' \in [Procs -> [Alerts -> Evaluation]]
    BY <2>4, EvalType
  <2>6. Write(i, Created) \/ UNCHANGED cluster
    BY <1>5 DEF Create
  <2>7. incidents' \in [Ids -> Incident] /\ fresh' \in [Procs -> SUBSET Ids]
    BY <2>1, <2>2, <2>6, WriteType DEF TypeOK
  <2>8. faults' \in 0 .. MaxFaults /\ lost' \subseteq Ids
    BY <1>0, <1>5, <2>1 DEF Create, TypeOK
  <2> QED
    BY <1>5, <2>5, <2>7, <2>8 DEF Create, TypeOK
<1>6. CASE Mark(p, a)
  <2> DEFINE i == e.target
             marked == [incidents[i] EXCEPT !.state = "Analyzing"]
  <2>1. i \in Ids
    <3>1. i = <<a, e.at>>
      BY <1>6 DEF Mark, MarksCreated
    <3>2. e.at \in Time
      BY <1>0 DEF Evaluation
    <3> QED
      BY <3>1, <3>2 DEF Ids
  <2>2. marked \in Incident /\ incidents[i] \in Incident
    BY <1>0, <2>1 DEF Incident, States
  <2>3. [NoAnalysis EXCEPT !.pc = "waiting"] \in Analysis
    BY ConstantTypes DEF Analysis
  <2>4. eval' \in [Procs -> [Alerts -> Evaluation]]
    BY <1>6, EvalType, ConstantTypes DEF Mark
  <2>5. Write(i, marked) \/ UNCHANGED cluster
    BY <1>6 DEF Mark
  <2>6. incidents' \in [Ids -> Incident] /\ fresh' \in [Procs -> SUBSET Ids]
    BY <2>1, <2>2, <2>5, WriteType DEF TypeOK
  <2>7. SetRca(p, i, [NoAnalysis EXCEPT !.pc = "waiting"]) \/ UNCHANGED rca
    BY <1>6 DEF Mark
  <2>8. rca' \in [Procs -> [Ids -> Analysis]]
    BY <2>1, <2>3, <2>7, RcaType DEF TypeOK
  <2>9. faults' \in 0 .. MaxFaults /\ lost' \subseteq Ids
    BY <1>0, <1>6, <2>1 DEF Mark, TypeOK
  <2> QED
    BY <1>6, <2>4, <2>6, <2>8, <2>9 DEF Mark, TypeOK
<1> QED
  BY <1>1, <1>2, <1>3, <1>4, <1>5, <1>6 DEF Evaluates

\* The slot count of a running analysis is not 0.
LEMMA RunningHoldsSlot ==
    ASSUME TypeOK, SlotsCountRunning, NEW p \in Procs, NEW i \in Ids, rca[p][i].pc = "running"
    PROVE  slots[p] - 1 \in 0 .. MaxConcurrentAnalyses
<1>1. i \in Running(p) /\ IsFiniteSet(Running(p)) /\ slots[p] = Cardinality(Running(p))
  BY DEF Running, SlotsCountRunning
<1>2. slots[p] # 0
  BY <1>1, FS_EmptySet
<1>3. slots[p] \in 0 .. MaxConcurrentAnalyses
  BY DEF TypeOK
<1> QED
  BY <1>2, <1>3, ConstantsAssumption

LEMMA AnalysesType ==
    ASSUME TypeOK, SlotsCountRunning, NEW p \in Procs, NEW i \in Ids, Analyses(p, i)
    PROVE  TypeOK'
<1> DEFINE r == rca[p][i]
<1> USE DEF budget, cluster
<1>0. /\ r \in Analysis /\ now \in Time /\ incidents[i] \in Incident
      /\ faults \in 0 .. MaxFaults /\ (Fails => faults' \in 0 .. MaxFaults)
  BY ConstantsAssumption DEF TypeOK, Fails
<1>1. CASE AcquireSlot(p, i)
  <2>1. [r EXCEPT !.pc = "running"] \in Analysis
    BY <1>0 DEF Analysis
  <2>2. rca' \in [Procs -> [Ids -> Analysis]]
    BY <1>1, <2>1, RcaType DEF AcquireSlot
  <2>3. slots' \in [Procs -> 0 .. MaxConcurrentAnalyses]
    BY <1>1, ConstantsAssumption DEF AcquireSlot, TypeOK
  <2> QED
    BY <1>1, <2>2, <2>3 DEF AcquireSlot, TypeOK
<1>2. CASE Analyze(p, i)
  <2>1. \A answer \in Answers :
          [r EXCEPT !.pc = "reading", !.answer = answer, !.at = now] \in Analysis
    BY <1>0, ConstantsAssumption DEF Analysis
  <2>2. rca' \in [Procs -> [Ids -> Analysis]]
    BY <1>2, <2>1, RcaType DEF Analyze
  <2>3. slots' \in [Procs -> 0 .. MaxConcurrentAnalyses]
    BY <1>2, RunningHoldsSlot DEF Analyze, TypeOK
  <2> QED
    BY <1>2, <2>2, <2>3 DEF Analyze, TypeOK
<1>3. CASE FinishRead(p, i)
  <2>1. [r EXCEPT !.pc = "writing", !.working = analyzingOrUnset(incidents[i])] \in Analysis
    <3>1. analyzingOrUnset(incidents[i]) \in BOOLEAN
      BY DEF analyzingOrUnset
    <3> HIDE DEF analyzingOrUnset
    <3> QED
      BY <1>0, <3>1 DEF Analysis
  <2>2. rca' \in [Procs -> [Ids -> Analysis]]
    BY <1>3, <2>1, ConstantTypes, RcaType DEF FinishRead
  <2>3. /\ faults' \in 0 .. MaxFaults /\ lost' \subseteq Ids
        /\ fresh' \in [Procs -> SUBSET Ids]
    <3>1. fresh' = [fresh EXCEPT ![p] = @ \cup {i}] \/ fresh' = fresh
      BY <1>3 DEF FinishRead
    <3>2. lost' \in {lost, lost \cup {i}} /\ (faults' = faults \/ Fails)
      BY <1>3 DEF FinishRead
    <3>3. fresh' \in [Procs -> SUBSET Ids]
      <4>1. fresh \in [Procs -> SUBSET Ids] /\ fresh[p] \cup {i} \in SUBSET Ids
        BY DEF TypeOK
      <4> QED
        BY <3>1, <4>1
    <3>4. lost' \subseteq Ids
      BY <3>2 DEF TypeOK
    <3> QED
      BY <1>0, <3>2, <3>3, <3>4
  <2> QED
    BY <1>3, <2>2, <2>3 DEF FinishRead, TypeOK
<1>4. CASE FinishWrite(p, i)
  <2>1. Analyzed(incidents[i], r) \in Incident
    <3> DEFINE inc == incidents[i]
    <3>1. /\ (inc.cause \/ r.answer.cause) \in BOOLEAN
          /\ (inc.report \/ r.answer.report) \in BOOLEAN
          /\ (inc.fix \/ r.answer.fix) \in BOOLEAN
      OBVIOUS
    <3>2. /\ (IF r.working THEN "Open" ELSE inc.state) \in States
          /\ (IF r.answer.fix THEN "none" ELSE "analysis") \in {"none", "interrupted", "analysis"}
          /\ r.at \in Time \cup {Unset}
      BY <1>0 DEF Incident, States, Analysis
    <3>3. Analyzed(inc, r) = [inc EXCEPT !.state = IF r.working THEN "Open" ELSE inc.state,
                                         !.cause = inc.cause \/ r.answer.cause,
                                         !.report = inc.report \/ r.answer.report,
                                         !.fix = inc.fix \/ r.answer.fix,
                                         !.error = IF r.answer.fix THEN "none" ELSE "analysis",
                                         !.completedAt = r.at]
      BY Zenon DEF Analyzed
    <3> QED
      BY <1>0, <3>1, <3>2, <3>3 DEF Incident
  <2>2. AttemptsLeft(r) => [r EXCEPT !.pc = "reading", !.tries = @ + 1] \in Analysis
    <3>1. r.tries \in 0 .. WriteAttempts - 1
      BY <1>0 DEF Analysis
    <3>2. AttemptsLeft(r) => r.tries + 1 \in 0 .. WriteAttempts - 1
      BY <3>1, ConstantsAssumption DEF AttemptsLeft
    <3> QED
      BY <1>0, <3>2 DEF Analysis
  <2>3. \E q \in Analysis : SetRca(p, i, q)
    BY <1>4, <2>2, ConstantTypes DEF FinishWrite
  <2>4. rca' \in [Procs -> [Ids -> Analysis]]
    BY <2>3, RcaType
  <2>5. Write(i, Analyzed(incidents[i], r)) \/ UNCHANGED cluster
    BY <1>4 DEF FinishWrite
  <2>6. incidents' \in [Ids -> Incident] /\ fresh' \in [Procs -> SUBSET Ids]
    BY <2>1, <2>5, WriteType DEF TypeOK
  <2>7. faults' \in 0 .. MaxFaults /\ lost' \subseteq Ids
    BY <1>0, <1>4 DEF FinishWrite, TypeOK
  <2> QED
    BY <1>4, <2>4, <2>6, <2>7 DEF FinishWrite, TypeOK
<1> QED
  BY <1>1, <1>2, <1>3, <1>4 DEF Analyses

LEMMA OthersType ==
    ASSUME TypeOK, Others \/ Touch \/ Tick
    PROVE  TypeOK'
<1> USE DEF budget, cluster, volatile
<1>0. now \in Time /\ incidents \in [Ids -> Incident]
  BY DEF TypeOK
<1>1. ASSUME NEW from, NEW to \in States, Moves(from, to) PROVE TypeOK'
  <2>1. PICK i \in Ids :
          Write(i, [incidents[i] EXCEPT !.state = to,
                                        !.resolvedAt = IF to = "Resolved" THEN now ELSE @])
    BY <1>1 DEF Moves
  <2>2. [incidents[i] EXCEPT !.state = to, !.resolvedAt = IF to = "Resolved" THEN now ELSE @]
          \in Incident
    BY <1>0 DEF Incident
  <2>3. incidents' \in [Ids -> Incident] /\ fresh' \in [Procs -> SUBSET Ids]
    BY <2>1, <2>2, WriteType
  <2> QED
    BY <1>1, <2>3 DEF Moves, TypeOK
<1>2. CASE Others
  BY <1>1, <1>2 DEF Others, Close, Verify, Reopen, Resolve, States
<1>3. CASE Touch
  <2>1. incidents' \in [Ids -> Incident] /\ fresh' \in [Procs -> SUBSET Ids]
    BY <1>0, <1>3, WriteType DEF Touch
  <2> QED
    BY <1>3, <2>1, ConstantsAssumption DEF Touch, TypeOK
<1>4. CASE Tick
  BY <1>4, ConstantsAssumption DEF Tick, TypeOK, Time
<1> QED
  BY <1>2, <1>3, <1>4

LEMMA NextType == TypeInv /\ [Next]_vars => TypeOK'
<1> SUFFICES ASSUME TypeInv, [Next]_vars PROVE TypeOK'
  OBVIOUS
<1> USE DEF TypeInv
<1>1. ASSUME NEW p \in Procs, Recovers(p) \/ Crash(p) PROVE TypeOK'
  BY <1>1, RecoverType
<1>2. ASSUME NEW p \in Procs, NEW a \in Alerts, Fire(p, a) \/ Evaluates(p, a) PROVE TypeOK'
  BY <1>2, EvaluatesType
<1>3. ASSUME NEW p \in Procs, NEW i \in Ids, Analyses(p, i) PROVE TypeOK'
  BY <1>3, AnalysesType
<1>4. CASE Others \/ Touch \/ Tick
  BY <1>4, OthersType
<1>5. CASE UNCHANGED vars
  BY <1>5 DEF vars, TypeOK
<1> QED
  BY <1>1, <1>2, <1>3, <1>4, <1>5 DEF Next

\* Only an evaluation's own steps change it, and the one that starts to mark has just created.
LEMMA SetEvalMarks ==
    ASSUME TypeOK, MarksCreated, NEW p \in Procs, NEW a \in Alerts, NEW e, SetEval(p, a, e),
           e.pc = "marking" => e.target = <<a, e.at>>
    PROVE  MarksCreated'
BY DEF TypeOK, MarksCreated, SetEval

LEMMA EvaluatesMarks ==
    ASSUME TypeOK, MarksCreated, NEW p \in Procs, NEW a \in Alerts, Fire(p, a) \/ Evaluates(p, a)
    PROVE  MarksCreated'
<1> DEFINE e == eval[p][a]
<1>0. e \in Evaluation
  BY DEF TypeOK
<1>1. CASE UNCHANGED eval
  BY <1>1 DEF MarksCreated
<1>2. CASE SetEval(p, a, Idle)
  BY <1>2, SetEvalMarks DEF Idle
<1>3. CASE SetEval(p, a, [Idle EXCEPT !.pc = "listing", !.at = now])
  BY <1>3, SetEvalMarks DEF Idle
<1>4. ASSUME NEW f, SetEval(p, a, CoverOrCreate(e, f)) PROVE MarksCreated'
  <2>1. CoverOrCreate(e, f).pc # "marking"
    BY <1>0 DEF CoverOrCreate, Evaluation
  <2> QED
    BY <1>4, <2>1, SetEvalMarks
<1>5. ASSUME NEW c, NEW f,
             SetEval(p, a, [e EXCEPT !.pc = "comparing", !.candidates = c, !.target = f])
      PROVE  MarksCreated'
  <2>1. [e EXCEPT !.pc = "comparing", !.candidates = c, !.target = f].pc # "marking"
    BY <1>0 DEF Evaluation
  <2> QED
    BY <1>5, <2>1, SetEvalMarks
<1>6. ASSUME NEW i, SetEval(p, a, [e EXCEPT !.pc = "covered", !.candidates = {}, !.target = i])
      PROVE  MarksCreated'
  <2>1. [e EXCEPT !.pc = "covered", !.candidates = {}, !.target = i].pc # "marking"
    BY <1>0 DEF Evaluation
  <2> QED
    BY <1>6, <2>1, SetEvalMarks
<1>7. ASSUME NEW pc, SetEval(p, a, [e EXCEPT !.pc = pc, !.target = <<a, e.at>>])
      PROVE  MarksCreated'
  <2> DEFINE f == [e EXCEPT !.pc = pc, !.target = <<a, e.at>>]
  <2>1. f.target = <<a, f.at>>
    BY <1>0 DEF Evaluation
  <2> QED
    BY <1>7, <2>1, SetEvalMarks
<1> HIDE DEF e
<1>8. CASE List(p, a)
  BY <1>2, <1>4, <1>5, <1>8 DEF List, e
<1>9. CASE Compare(p, a)
  BY <1>2, <1>4, <1>6, <1>9 DEF Compare, e
<1>10. CASE Create(p, a)
  BY <1>2, <1>7, <1>10 DEF Create, e
<1> QED
  BY <1>1, <1>2, <1>3, <1>8, <1>9, <1>10 DEF Fire, Evaluates, Covered, Mark

LEMMA NextMarksCreated == TypeInv /\ [Next]_vars => MarksCreated'
<1> SUFFICES ASSUME TypeInv, [Next]_vars PROVE MarksCreated'
  OBVIOUS
<1>0. TypeOK /\ MarksCreated
  BY DEF TypeInv
<1>1. CASE eval' = eval
  BY <1>0, <1>1 DEF MarksCreated
<1>2. ASSUME NEW p \in Procs, Crash(p) PROVE MarksCreated'
  BY <1>0, <1>2 DEF Crash, TypeOK, MarksCreated, Idle
<1>3. ASSUME NEW p \in Procs, NEW a \in Alerts, Fire(p, a) \/ Evaluates(p, a)
      PROVE  MarksCreated'
  BY <1>0, <1>3, EvaluatesMarks
<1>4. ASSUME NEW p \in Procs, NEW i \in Ids, Analyses(p, i) PROVE eval' = eval
  BY <1>4 DEF Analyses, AcquireSlot, Analyze, FinishRead, FinishWrite
<1>5. ASSUME NEW p \in Procs, Recovers(p) PROVE eval' = eval
  BY <1>5 DEF Recovers, Start, RecoverList, RecoverPatch, Serve
<1>6. ASSUME Others \/ Touch \/ Tick PROVE eval' = eval
  BY <1>6 DEF Others, Close, Verify, Reopen, Resolve, Moves, Touch, Tick, volatile
<1> QED
  BY <1>1, <1>2, <1>3, <1>4, <1>5, <1>6 DEF Next, vars

\* No step deletes an incident.
LEMMA WriteKeeps ==
    ASSUME TypeOK, NEW i \in Ids, NEW inc, Write(i, inc),
           inc.state # "Absent" \/ inc.state = incidents[i].state,
           NEW j \in Ids, incidents[j].state # "Absent"
    PROVE  incidents'[j].state # "Absent"
BY DEF TypeOK, Write

LEMMA NextKeepsIncidents ==
    ASSUME TypeInv, [Next]_vars, NEW j \in Ids, incidents[j].state # "Absent"
    PROVE  incidents'[j].state # "Absent"
<1>0. TypeOK /\ \A i \in Ids : incidents[i] \in Incident
  BY DEF TypeInv, TypeOK
<1>1. CASE incidents' = incidents
  BY <1>1
<1>2. ASSUME NEW p \in Procs, RecoverPatch(p) PROVE incidents'[j].state # "Absent"
  <2>1. incidents' = incidents \/ \E i \in sweep[p] : Write(i, Interrupted(i))
    BY <1>2 DEF RecoverPatch, cluster
  <2>2. ASSUME NEW i \in sweep[p], Write(i, Interrupted(i)) PROVE incidents'[j].state # "Absent"
    <3>1. i \in Ids
      BY <1>0 DEF TypeOK
    <3>2. Interrupted(i).state = "Open"
      BY <1>0, <3>1 DEF Interrupted, Incident
    <3> QED
      BY <1>0, <2>2, <3>1, <3>2, WriteKeeps
  <2> QED
    BY <1>1, <2>1, <2>2
<1>3. ASSUME NEW p \in Procs, NEW a \in Alerts, Create(p, a) PROVE incidents'[j].state # "Absent"
  <2> DEFINE i == <<a, eval[p][a].at>>
  <2>1. i \in Ids
    BY <1>0 DEF TypeOK, Evaluation, Ids
  <2>2. Created.state = "Unset"
    BY DEF Created, Absent
  <2>3. incidents' = incidents \/ Write(i, Created)
    BY <1>3 DEF Create, cluster
  <2> QED
    BY <1>0, <1>1, <2>1, <2>2, <2>3, WriteKeeps
<1>4. ASSUME NEW p \in Procs, NEW a \in Alerts, Mark(p, a) PROVE incidents'[j].state # "Absent"
  <2> DEFINE i == eval[p][a].target
             marked == [incidents[i] EXCEPT !.state = "Analyzing"]
  <2>1. i \in Ids
    <3>1. i = <<a, eval[p][a].at>>
      BY <1>4 DEF Mark, TypeInv, MarksCreated
    <3>2. eval[p][a].at \in Time
      BY <1>0 DEF TypeOK, Evaluation
    <3> QED
      BY <3>1, <3>2 DEF Ids
  <2>2. marked.state = "Analyzing"
    BY <1>0, <2>1 DEF Incident
  <2>3. incidents' = incidents \/ Write(i, marked)
    BY <1>4 DEF Mark, cluster
  <2> HIDE DEF marked
  <2> QED
    BY <1>0, <1>1, <2>1, <2>2, <2>3, WriteKeeps
<1>5. ASSUME NEW p \in Procs, NEW i \in Ids, FinishWrite(p, i)
      PROVE  incidents'[j].state # "Absent"
  <2> DEFINE inc == Analyzed(incidents[i], rca[p][i])
  <2>1. inc.state \in {"Open", incidents[i].state}
    BY <1>0 DEF Analyzed, Incident
  <2>2. incidents' = incidents \/ Write(i, inc)
    BY <1>5 DEF FinishWrite, cluster
  <2> HIDE DEF inc
  <2> QED
    BY <1>0, <1>1, <2>1, <2>2, WriteKeeps
<1>6. ASSUME NEW from, NEW to, to # "Absent", Moves(from, to)
      PROVE  incidents'[j].state # "Absent"
  <2>1. PICK i \in Ids :
          Write(i, [incidents[i] EXCEPT !.state = to,
                                        !.resolvedAt = IF to = "Resolved" THEN now ELSE @])
    BY <1>6 DEF Moves
  <2>2. [incidents[i] EXCEPT !.state = to,
                             !.resolvedAt = IF to = "Resolved" THEN now ELSE @].state = to
    BY <1>0 DEF Incident
  <2> QED
    BY <1>0, <1>6, <2>1, <2>2, WriteKeeps
<1>7. CASE Others
  BY <1>6, <1>7 DEF Others, Close, Verify, Reopen, Resolve
<1>8. CASE Touch
  BY <1>0, <1>8, WriteKeeps DEF Touch
<1>9. ASSUME NEW p \in Procs, Start(p) \/ RecoverList(p) \/ Serve(p) \/ Crash(p)
      PROVE  incidents' = incidents
  BY <1>9 DEF Start, RecoverList, Serve, Crash, cluster
<1>10. ASSUME NEW p \in Procs, NEW a \in Alerts,
              Fire(p, a) \/ List(p, a) \/ Compare(p, a) \/ Covered(p, a)
       PROVE  incidents' = incidents
  BY <1>10 DEF Fire, List, Compare, Covered, cluster
<1>11. ASSUME NEW p \in Procs, NEW i \in Ids,
              AcquireSlot(p, i) \/ Analyze(p, i) \/ FinishRead(p, i)
       PROVE  incidents' = incidents
  BY <1>11 DEF AcquireSlot, Analyze, FinishRead, cluster
<1>12. CASE Tick \/ UNCHANGED vars
  BY <1>12 DEF Tick, cluster, vars
<1> QED
  BY <1>1, <1>2, <1>3, <1>4, <1>5, <1>7, <1>8, <1>9, <1>10, <1>11, <1>12
     DEF Next, Recovers, Evaluates, Analyses

\* An analysis starts only where an evaluation marks, and elsewhere keeps or ends.
LEMMA RcaSteps ==
    ASSUME TypeInv, [Next]_vars, NEW q \in Procs, NEW j \in Ids
    PROVE  \/ rca'[q][j].pc = "none"
           \/ rca[q][j].pc # "none"
           \/ \E a \in Alerts : Mark(q, a) /\ eval[q][a].target = j
<1>0. TypeOK
  BY DEF TypeInv
<1>1. ASSUME NEW p \in Procs, NEW i \in Ids, Analyses(p, i)
      PROVE  rca'[q][j].pc = "none" \/ rca[q][j].pc # "none"
  <2>1. rca[p][i].pc # "none" /\ \E r : SetRca(p, i, r)
    BY <1>1 DEF Analyses, AcquireSlot, Analyze, FinishRead, FinishWrite
  <2> QED
    BY <1>0, <2>1 DEF SetRca, TypeOK
<1>2. ASSUME NEW p \in Procs, NEW a \in Alerts, Mark(p, a)
      PROVE  rca[q][j] = rca'[q][j] \/ (p = q /\ eval[p][a].target = j)
  <2>1. UNCHANGED rca \/ SetRca(p, eval[p][a].target, [NoAnalysis EXCEPT !.pc = "waiting"])
    BY <1>2 DEF Mark
  <2>2. rca \in [Procs -> [Ids -> Analysis]]
    BY <1>0 DEF TypeOK
  <2>3. ASSUME NEW t, NEW r, t # j \/ p # q, rca' = [rca EXCEPT ![p][t] = r]
        PROVE  rca'[q][j] = rca[q][j]
    <3>1. rca'[q] = IF p = q THEN [rca[q] EXCEPT ![t] = r] ELSE rca[q]
      BY <2>2, <2>3
    <3>2. rca[q] \in [Ids -> Analysis]
      BY <2>2
    <3> QED
      BY <2>3, <3>1, <3>2
  <2> QED
    BY <2>1, <2>3 DEF SetRca
<1>3. ASSUME NEW p \in Procs, Crash(p)
      PROVE  rca'[q][j].pc = "none" \/ rca'[q][j] = rca[q][j]
  BY <1>0, <1>3 DEF Crash, TypeOK, NoAnalysis
<1>4. ASSUME NEW p \in Procs, Recovers(p) PROVE rca' = rca
  BY <1>4 DEF Recovers, Start, RecoverList, RecoverPatch, Serve
<1>5. ASSUME NEW p \in Procs, NEW a \in Alerts,
             Fire(p, a) \/ List(p, a) \/ Compare(p, a) \/ Covered(p, a) \/ Create(p, a)
      PROVE  rca' = rca
  BY <1>5 DEF Fire, List, Compare, Covered, Create
<1>6. CASE Others \/ Touch \/ Tick
  BY <1>6 DEF Others, Close, Verify, Reopen, Resolve, Moves, Touch, Tick, volatile
<1>7. CASE UNCHANGED vars
  BY <1>7 DEF vars
<1> QED
  BY <1>1, <1>2, <1>3, <1>4, <1>5, <1>6, <1>7 DEF Next, Evaluates

LEMMA NextAnalysisExists == TypeInv /\ [Next]_vars => AnalysisExists'
<1> SUFFICES ASSUME TypeInv, [Next]_vars, NEW q \in Procs, NEW j \in Ids, rca'[q][j].pc # "none"
             PROVE  incidents'[j].state # "Absent"
  BY DEF AnalysisExists
<1>1. rca[q][j].pc # "none" \/ \E a \in Alerts : eval[q][a].pc = "marking" /\ eval[q][a].target = j
  BY RcaSteps DEF Mark
<1>2. incidents[j].state # "Absent"
  BY <1>1 DEF TypeInv, AnalysisExists, MarksOnce
<1> QED
  BY <1>2, NextKeepsIncidents

\* An evaluation that marks goes on marking, has ended, or was creating.
LEMMA EvalSteps ==
    ASSUME TypeInv, [Next]_vars, NEW q \in Procs, NEW b \in Alerts, eval'[q][b].pc = "marking"
    PROVE  \/ eval'[q][b] = eval[q][b]
           \/ Create(q, b) /\ incidents[<<b, eval[q][b].at>>].state = "Absent"
<1>0. TypeOK /\ eval[q][b] \in Evaluation
  BY DEF TypeInv, TypeOK
<1>1. ASSUME NEW p \in Procs, NEW a \in Alerts, Fire(p, a) \/ Evaluates(p, a), p # q \/ a # b
      PROVE  eval'[q][b] = eval[q][b]
  <2>1. ASSUME NEW e, SetEval(p, a, e) PROVE eval'[q][b] = eval[q][b]
    <3>1. eval \in [Procs -> [Alerts -> Evaluation]] /\ eval[q] \in [Alerts -> Evaluation]
      BY <1>0 DEF TypeOK
    <3>2. eval'[q] = IF p = q THEN [eval[q] EXCEPT ![a] = e] ELSE eval[q]
      BY <2>1, <3>1 DEF SetEval
    <3> QED
      BY <1>1, <3>1, <3>2
  <2>2. CASE Fire(p, a)
    BY <2>1, <2>2 DEF Fire
  <2>3. CASE List(p, a)
    BY <2>1, <2>3 DEF List
  <2>4. CASE Compare(p, a)
    BY <2>1, <2>4 DEF Compare
  <2>5. CASE Covered(p, a) \/ Mark(p, a)
    BY <2>1, <2>5 DEF Covered, Mark
  <2>6. CASE Create(p, a)
    BY <2>1, <2>6 DEF Create
  <2> QED
    BY <1>1, <2>2, <2>3, <2>4, <2>5, <2>6 DEF Evaluates
<1>2. ASSUME NEW e, SetEval(q, b, e) PROVE eval'[q][b] = e
  BY <1>0, <1>2 DEF SetEval, TypeOK
<1>3. CASE Fire(q, b) \/ List(q, b) \/ Compare(q, b) \/ Covered(q, b) \/ Mark(q, b)
  <2>1. ASSUME NEW f PROVE CoverOrCreate(eval[q][b], f).pc # "marking"
    BY <1>0 DEF CoverOrCreate, Evaluation
  <2>2. ASSUME NEW c, NEW f
        PROVE  [eval[q][b] EXCEPT !.pc = "comparing", !.candidates = c, !.target = f].pc # "marking"
    BY <1>0 DEF Evaluation
  <2>3. ASSUME NEW i
        PROVE  [eval[q][b] EXCEPT !.pc = "covered", !.candidates = {}, !.target = i].pc # "marking"
    BY <1>0 DEF Evaluation
  <2>4. Idle.pc # "marking" /\ [Idle EXCEPT !.pc = "listing", !.at = now].pc # "marking"
    BY DEF Idle
  <2>5. CASE Fire(q, b)
    BY <1>2, <2>4, <2>5 DEF Fire
  <2>6. CASE List(q, b)
    <3> DEFINE e == eval[q][b]
               f == Fallback(b, e.at)
    <3>1. \/ eval'[q][b] = CoverOrCreate(e, f)
          \/ eval'[q][b] = [e EXCEPT !.pc = "comparing", !.candidates = Candidates(b), !.target = f]
          \/ eval'[q][b] = Idle
      <4> HIDE DEF f
      <4>1. \/ SetEval(q, b, CoverOrCreate(e, f))
            \/ SetEval(q, b, [e EXCEPT !.pc = "comparing", !.candidates = Candidates(b), !.target = f])
            \/ SetEval(q, b, Idle)
        BY <2>6 DEF List, f
      <4> QED
        BY <1>2, <4>1
    <3> HIDE DEF f
    <3>2. CoverOrCreate(e, f).pc # "marking"
      BY <2>1
    <3>3. [e EXCEPT !.pc = "comparing", !.candidates = Candidates(b), !.target = f].pc # "marking"
      BY <2>2
    <3>4. eval'[q][b].pc # "marking"
      BY <2>4, <3>1, <3>2, <3>3, Zenon
    <3> QED
      BY <3>4
  <2>7. CASE Compare(q, b)
    BY <1>2, <2>1, <2>3, <2>4, <2>7 DEF Compare
  <2>8. CASE Covered(q, b)
    BY <1>2, <2>4, <2>8 DEF Covered
  <2>9. CASE Mark(q, b)
    <3>1. eval'[q][b] = Idle
      BY <1>2, <2>9 DEF Mark
    <3> QED
      BY <2>4, <3>1
  <2> QED
    BY <1>3, <2>5, <2>6, <2>7, <2>8, <2>9
<1>4. CASE Create(q, b)
  <2> DEFINE i == <<b, eval[q][b].at>>
  <2>1. [eval[q][b] EXCEPT !.pc = "covered", !.target = i].pc = "covered"
    BY <1>0 DEF Evaluation
  <2>2. Idle.pc # "marking"
    BY DEF Idle
  <2> QED
    BY <1>2, <1>4, <2>1, <2>2 DEF Create
<1>5. ASSUME NEW p \in Procs, Crash(p) PROVE eval'[q][b] = eval[q][b]
  BY <1>0, <1>5 DEF Crash, TypeOK, Idle
<1>6. ASSUME NEW p \in Procs, Recovers(p) PROVE eval' = eval
  BY <1>6 DEF Recovers, Start, RecoverList, RecoverPatch, Serve
<1>7. ASSUME NEW p \in Procs, NEW i \in Ids, Analyses(p, i) PROVE eval' = eval
  BY <1>7 DEF Analyses, AcquireSlot, Analyze, FinishRead, FinishWrite
<1>8. ASSUME Others \/ Touch \/ Tick \/ UNCHANGED vars PROVE eval' = eval
  BY <1>8 DEF Others, Close, Verify, Reopen, Resolve, Moves, Touch, Tick, volatile, vars
<1> QED
  BY <1>1, <1>3, <1>4, <1>5, <1>6, <1>7, <1>8 DEF Next, Evaluates

LEMMA NextMarksOnce == TypeInv /\ [Next]_vars => MarksOnce'
<1> SUFFICES ASSUME TypeInv, [Next]_vars,
                    NEW q \in Procs, NEW b \in Alerts, eval'[q][b].pc = "marking"
             PROVE  /\ incidents'[eval'[q][b].target].state # "Absent"
                    /\ rca'[q][eval'[q][b].target].pc = "none"
  BY DEF MarksOnce
<1> DEFINE i == <<b, eval'[q][b].at>>
<1>0. TypeOK /\ TypeOK'
  BY NextType DEF TypeInv
<1>1. eval'[q][b].target = i /\ i \in Ids
  <2>1. MarksCreated'
    BY NextMarksCreated
  <2>2. eval'[q][b].at \in Time
    BY <1>0 DEF TypeOK, Evaluation
  <2> QED
    BY <2>1, <2>2 DEF MarksCreated, Ids
<1>2. CASE eval'[q][b] = eval[q][b]
  <2>1. incidents[i].state # "Absent" /\ rca[q][i].pc = "none"
    BY <1>1, <1>2 DEF TypeInv, MarksOnce
  <2>2. ASSUME NEW a \in Alerts, Mark(q, a), eval[q][a].target = i PROVE FALSE
    <3>1. eval[q][a].target = <<a, eval[q][a].at>>
      BY <2>2 DEF Mark, TypeInv, MarksCreated
    <3>2. a = b
      BY <2>2, <3>1
    <3>3. eval'[q][b] = Idle
      BY <1>0, <2>2, <3>2 DEF Mark, SetEval, TypeOK
    <3> QED
      BY <3>3 DEF Idle
  <2> QED
    BY <1>1, <2>1, <2>2, NextKeepsIncidents, RcaSteps
<1>3. CASE Create(q, b) /\ incidents[<<b, eval[q][b].at>>].state = "Absent" /\ eval'[q][b] # eval[q][b]
  <2>1. eval'[q][b] = [eval[q][b] EXCEPT !.pc = "marking", !.target = <<b, eval[q][b].at>>]
    BY <1>0, <1>3 DEF Create, SetEval, TypeOK, Idle
  <2>2. i = <<b, eval[q][b].at>>
    BY <1>0, <2>1 DEF TypeOK, Evaluation
  <2>3. Write(i, Created)
    <3>1. eval'[q][b].pc = "marking"
      OBVIOUS
    <3>2. ASSUME NEW e, SetEval(q, b, e) PROVE eval'[q][b] = e
      BY <1>0, <3>2 DEF SetEval, TypeOK
    <3>3. [eval[q][b] EXCEPT !.pc = "covered", !.target = <<b, eval[q][b].at>>].pc # "marking"
      BY <1>0 DEF TypeOK, Evaluation
    <3>4. Idle.pc # "marking"
      BY DEF Idle
    <3> QED
      BY <1>3, <2>2, <3>1, <3>2, <3>3, <3>4 DEF Create
  <2>4. incidents'[i].state = "Unset"
    BY <1>0, <1>1, <2>3 DEF Write, Created, Absent, TypeOK
  <2>5. rca[q][i].pc = "none"
    BY <1>1, <1>3, <2>2 DEF TypeInv, AnalysisExists
  <2>6. rca' = rca
    BY <1>3 DEF Create
  <2> QED
    BY <1>1, <2>4, <2>5, <2>6
<1> QED
  BY <1>2, <1>3, EvalSteps

\* Replacing an analysis that does not run by one that does not keeps the running ones.
LEMMA SetRcaRunning ==
    ASSUME TypeOK, NEW p \in Procs, NEW i \in Ids, NEW r, SetRca(p, i, r), NEW q \in Procs
    PROVE  /\ p # q => Running(q)' = Running(q)
           /\ p = q /\ r.pc = "running" => Running(q)' = Running(q) \cup {i}
           /\ p = q /\ r.pc # "running" => Running(q)' = Running(q) \ {i}
<1>1. rca \in [Procs -> [Ids -> Analysis]] /\ rca[q] \in [Ids -> Analysis]
  BY DEF TypeOK
<1>2. rca'[q] = IF p = q THEN [rca[q] EXCEPT ![i] = r] ELSE rca[q]
  BY <1>1 DEF SetRca
<1>3. \A j \in Ids : rca'[q][j] = IF p = q /\ i = j THEN r ELSE rca[q][j]
  BY <1>1, <1>2
<1> QED
  BY <1>3 DEF Running

LEMMA NextSlotsCountRunning == TypeInv /\ [Next]_vars => SlotsCountRunning'
<1> SUFFICES ASSUME TypeInv, [Next]_vars, NEW q \in Procs
             PROVE  IsFiniteSet(Running(q)') /\ slots'[q] = Cardinality(Running(q)')
  BY DEF SlotsCountRunning
<1>0. /\ TypeOK /\ IsFiniteSet(Running(q)) /\ slots[q] = Cardinality(Running(q))
      /\ slots \in [Procs -> 0 .. MaxConcurrentAnalyses]
  BY DEF TypeInv, TypeOK, SlotsCountRunning
<1> DEFINE Same == Running(q)' = Running(q) /\ slots'[q] = slots[q]
<1>1. CASE rca' = rca /\ slots' = slots
  BY <1>0, <1>1 DEF Running
<1>2. ASSUME NEW p \in Procs, NEW i \in Ids, AcquireSlot(p, i)
      PROVE  IsFiniteSet(Running(q)') /\ slots'[q] = Cardinality(Running(q)')
  <2>1. rca[p][i] \in Analysis /\ rca[p][i].pc = "waiting"
    BY <1>0, <1>2 DEF AcquireSlot, TypeOK
  <2>2. [rca[p][i] EXCEPT !.pc = "running"].pc = "running"
    BY <2>1 DEF Analysis
  <2>3. SetRca(p, i, [rca[p][i] EXCEPT !.pc = "running"]) /\ slots' = [slots EXCEPT ![p] = @ + 1]
    BY <1>2 DEF AcquireSlot
  <2>4. CASE p # q
    BY <1>0, <2>3, <2>4, SetRcaRunning
  <2>5. CASE p = q
    <3>1. Running(q)' = Running(q) \cup {i}
      BY <1>0, <2>2, <2>3, <2>5, SetRcaRunning
    <3>2. i \notin Running(q)
      BY <2>1, <2>5 DEF Running
    <3>3. slots'[q] = slots[q] + 1
      BY <1>0, <2>3, <2>5
    <3> QED
      BY <1>0, <3>1, <3>2, <3>3, FS_AddElement
  <2> QED
    BY <2>4, <2>5
<1>3. ASSUME NEW p \in Procs, NEW i \in Ids, Analyze(p, i)
      PROVE  IsFiniteSet(Running(q)') /\ slots'[q] = Cardinality(Running(q)')
  <2>1. rca[p][i] \in Analysis /\ rca[p][i].pc = "running"
    BY <1>0, <1>3 DEF Analyze, TypeOK
  <2>2. PICK answer : SetRca(p, i, [rca[p][i] EXCEPT !.pc = "reading", !.answer = answer, !.at = now])
    BY <1>3 DEF Analyze
  <2>3. [rca[p][i] EXCEPT !.pc = "reading", !.answer = answer, !.at = now].pc # "running"
    BY <2>1 DEF Analysis
  <2>4. slots' = [slots EXCEPT ![p] = @ - 1]
    BY <1>3 DEF Analyze
  <2>5. CASE p # q
    BY <1>0, <2>2, <2>4, <2>5, SetRcaRunning
  <2>6. CASE p = q
    <3>1. Running(q)' = Running(q) \ {i}
      <4> DEFINE r == [rca[p][i] EXCEPT !.pc = "reading", !.answer = answer, !.at = now]
      <4>1. SetRca(p, i, r) /\ r.pc # "running"
        BY <2>2, <2>3
      <4> HIDE DEF r
      <4> QED
        BY <1>0, <2>6, <4>1, SetRcaRunning
    <3>2. i \in Running(q)
      BY <2>1, <2>6 DEF Running
    <3>3. slots'[q] = slots[q] - 1
      BY <1>0, <2>4, <2>6
    <3> QED
      BY <1>0, <3>1, <3>2, <3>3, FS_RemoveElement
  <2> QED
    BY <2>5, <2>6
<1>4. ASSUME NEW p \in Procs, NEW i \in Ids, NEW r, rca[p][i].pc # "running", r.pc # "running",
             SetRca(p, i, r), slots' = slots
      PROVE  IsFiniteSet(Running(q)') /\ slots'[q] = Cardinality(Running(q)')
  <2>2. p = q => i \notin Running(q)
    BY <1>4 DEF Running
  <2>3. Running(q)' = Running(q)
    BY <1>0, <1>4, <2>2, SetRcaRunning
  <2> QED
    BY <1>0, <1>4, <2>3
<1>5. ASSUME NEW p \in Procs, NEW i \in Ids, FinishRead(p, i)
      PROVE  IsFiniteSet(Running(q)') /\ slots'[q] = Cardinality(Running(q)')
  <2>1. rca[p][i] \in Analysis /\ rca[p][i].pc # "running" /\ slots' = slots
    BY <1>0, <1>5 DEF FinishRead, TypeOK
  <2>2. ASSUME NEW w PROVE [rca[p][i] EXCEPT !.pc = "writing", !.working = w].pc # "running"
    BY <2>1 DEF Analysis
  <2>3. NoAnalysis.pc # "running"
    BY DEF NoAnalysis
  <2>4. \/ SetRca(p, i, [rca[p][i] EXCEPT !.pc = "writing", !.working = analyzingOrUnset(incidents[i])])
        \/ SetRca(p, i, NoAnalysis)
    BY <1>5 DEF FinishRead
  <2> QED
    BY <1>4, <2>1, <2>2, <2>3, <2>4
<1>6. ASSUME NEW p \in Procs, NEW i \in Ids, FinishWrite(p, i)
      PROVE  IsFiniteSet(Running(q)') /\ slots'[q] = Cardinality(Running(q)')
  <2>1. rca[p][i] \in Analysis /\ rca[p][i].pc # "running" /\ slots' = slots
    BY <1>0, <1>6 DEF FinishWrite, TypeOK
  <2>2. [rca[p][i] EXCEPT !.pc = "reading", !.tries = @ + 1].pc # "running"
    BY <2>1 DEF Analysis
  <2>3. NoAnalysis.pc # "running"
    BY DEF NoAnalysis
  <2>4. \/ SetRca(p, i, [rca[p][i] EXCEPT !.pc = "reading", !.tries = @ + 1])
        \/ SetRca(p, i, NoAnalysis)
    BY <1>6 DEF FinishWrite
  <2> QED
    BY <1>4, <2>1, <2>2, <2>3, <2>4
<1>7. ASSUME NEW p \in Procs, NEW a \in Alerts, Mark(p, a)
      PROVE  IsFiniteSet(Running(q)') /\ slots'[q] = Cardinality(Running(q)')
  <2> DEFINE i == eval[p][a].target
  <2>1. i = <<a, eval[p][a].at>> /\ rca[p][i].pc = "none"
    BY <1>7 DEF Mark, TypeInv, MarksCreated, MarksOnce
  <2>2. i \in Ids
    <3>1. eval[p][a].at \in Time
      BY <1>0 DEF TypeOK, Evaluation
    <3> QED
      BY <2>1, <3>1 DEF Ids
  <2>3. [NoAnalysis EXCEPT !.pc = "waiting"].pc = "waiting"
    BY DEF NoAnalysis
  <2>4. slots' = slots /\ (rca' = rca \/ SetRca(p, i, [NoAnalysis EXCEPT !.pc = "waiting"]))
    BY <1>7 DEF Mark
  <2> QED
    BY <1>1, <1>4, <2>1, <2>2, <2>3, <2>4
<1>8. ASSUME NEW p \in Procs, Crash(p)
      PROVE  IsFiniteSet(Running(q)') /\ slots'[q] = Cardinality(Running(q)')
  <2>1. CASE p # q
    <3>1. rca'[q] = rca[q] /\ slots'[q] = slots[q]
      BY <1>0, <1>8, <2>1 DEF Crash, TypeOK
    <3> QED
      BY <1>0, <3>1 DEF Running
  <2>2. CASE p = q
    <3>1. slots'[q] = 0 /\ rca'[q] = [i \in Ids |-> NoAnalysis]
      BY <1>0, <1>8, <2>2 DEF Crash, TypeOK
    <3>2. Running(q)' = {}
      BY <3>1 DEF Running, NoAnalysis
    <3> QED
      BY <3>1, <3>2, FS_EmptySet
  <2> QED
    BY <2>1, <2>2
<1>9. ASSUME NEW p \in Procs, Recovers(p) PROVE rca' = rca /\ slots' = slots
  BY <1>9 DEF Recovers, Start, RecoverList, RecoverPatch, Serve
<1>10. ASSUME NEW p \in Procs, NEW a \in Alerts,
              Fire(p, a) \/ List(p, a) \/ Compare(p, a) \/ Covered(p, a) \/ Create(p, a)
       PROVE  rca' = rca /\ slots' = slots
  BY <1>10 DEF Fire, List, Compare, Covered, Create
<1>11. ASSUME Others \/ Touch \/ Tick \/ UNCHANGED vars PROVE rca' = rca /\ slots' = slots
  BY <1>11 DEF Others, Close, Verify, Reopen, Resolve, Moves, Touch, Tick, volatile, vars
<1> QED
  BY <1>1, <1>2, <1>3, <1>5, <1>6, <1>7, <1>8, <1>9, <1>10, <1>11 DEF Next, Evaluates, Analyses

LEMMA InitTypeInv == Init => TypeInv
<1> SUFFICES ASSUME Init PROVE TypeInv
  OBVIOUS
<1>1. \A p \in Procs : Running(p) = {} /\ slots[p] = 0
  BY DEF Init, Running, NoAnalysis
<1>2. SlotsCountRunning
  BY <1>1, FS_EmptySet DEF SlotsCountRunning
<1>3. MarksCreated /\ MarksOnce /\ AnalysisExists
  BY DEF Init, MarksCreated, MarksOnce, AnalysisExists, Idle, NoAnalysis
<1> QED
  BY <1>2, <1>3, InitType DEF TypeInv

LEMMA TypeInvariant == Spec => []TypeInv
<1>1. TypeInv /\ [Next]_vars => TypeInv'
  BY NextType, NextMarksCreated, NextAnalysisExists, NextMarksOnce, NextSlotsCountRunning DEF TypeInv
<1> QED
  BY InitTypeInv, <1>1, PTL DEF Spec

\* Every variable of the writer keeps its type, the retry counter and the slot count included.
THEOREM TypeCorrect == Spec => []TypeOK
<1>1. TypeInv => TypeOK
  BY DEF TypeInv
<1> QED
  BY TypeInvariant, <1>1, PTL

\* No process ever runs more than MaxConcurrentAnalyses RCAs at once, however its RCAs end and
\* however often it restarts.
THEOREM SlotLimit == Spec => []RunningWithinLimit
<1>1. TypeInv => RunningWithinLimit
  BY ConstantsAssumption DEF TypeInv, TypeOK, SlotsCountRunning, RunningWithinLimit
<1> QED
  BY TypeInvariant, <1>1, PTL

=============================================================================
