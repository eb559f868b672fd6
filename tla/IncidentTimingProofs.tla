------------------------- MODULE IncidentTimingProofs -------------------------
(***************************************************************************)
(* Theorems about when one process opens an incident, for every value of   *)
(* the constants: never within the grace of the one resolved before it,    *)
(* nor while one without an analysis still holds the alert's firings.      *)
(* Both compare a firing's evaluation, which began some time ago, with     *)
(* incidents as they are when the new one exists: they rest on what has    *)
(* not changed since the list, and on the order of the timestamps.         *)
(***************************************************************************)
EXTENDS IncidentLifecycleProofs

\* An incident is created after the firing it is named for, completed and resolved after that.
Dated ==
    \A i \in Ids : incidents[i].state # "Absent" =>
        /\ i[2] <= incidents[i].created /\ incidents[i].created <= now
        /\ incidents[i].completedAt # Unset => incidents[i].created <= incidents[i].completedAt
        /\ incidents[i].state = "Resolved" => incidents[i].resolvedAt # Unset

\* An answer comes after the incident it is about.
AnsweredLater ==
    \A p \in Procs, i \in Ids :
        rca[p][i].pc \in {"reading", "writing"} => incidents[i].created <= rca[p][i].at

\* What a comparison reads comes with the outcome, so an incident that is comparable stays so.
NothingBeforeOutcome ==
    \A i \in Ids : incidents[i].completedAt = Unset => ~incidents[i].cause /\ ~incidents[i].report

\* The alert's incidents are older than its evaluation, but for the one the evaluation created.
EvalLater ==
    \A p \in Procs, a \in Alerts : eval[p][a].pc # "idle" =>
        /\ eval[p][a].at <= now
        /\ \A i \in alertIncidents(a) :
             \/ incidents[i].created <= eval[p][a].at
             \/ eval[p][a].pc = "marking" /\ eval[p][a].target = i

\* Whom the evaluation found vacant has no open incident that still holds firings,
HeldLongAgo ==
    \A p \in Procs, a \in Alerts : Vacant(p, a) =>
        \A i \in Open(a) :
            Comparable(incidents[i]) \/ eval[p][a].at - incidents[i].created >= FailedAnalysisHold

\* and none whose grace is not over, unless it was resolved during the evaluation.
GraceOver ==
    \A p \in Procs, a \in Alerts : Vacant(p, a) =>
        \A i \in alertIncidents(a) :
            /\ \A k \in alertIncidents(a) : ~Newer(k, i)
            /\ incidents[i].state = "Resolved" /\ incidents[i].resolvedAt < eval[p][a].at
            => eval[p][a].at - incidents[i].resolvedAt >= Grace

TimeInv ==
    /\ PromiseInv /\ Dated /\ AnsweredLater /\ NothingBeforeOutcome /\ EvalLater
    /\ HeldLongAgo /\ GraceOver /\ GraceRespected /\ HoldRespected

-----------------------------------------------------------------------------
(* What one step does to the timestamps. *)

\* The clock does not go back.
LEMMA ClockSteps ==
    ASSUME TypeInv, [Next]_vars
    PROVE  now \in Time /\ now' \in Time /\ now <= now' /\ Time \subseteq Nat
<1>0. now \in Time /\ now' \in Time /\ Time \subseteq Nat
  BY NextType, ConstantsAssumption DEF TypeInv, TypeOK, Time
<1>1. ASSUME NEW p \in Procs, Recovers(p) \/ Crash(p) PROVE now' = now
  BY <1>1 DEF Recovers, Start, RecoverList, RecoverPatch, Serve, Crash
<1>2. ASSUME NEW p \in Procs, NEW a \in Alerts, Fire(p, a) \/ Evaluates(p, a) PROVE now' = now
  BY <1>2 DEF Fire, Evaluates, List, Compare, Covered, Create, Mark
<1>3. ASSUME NEW p \in Procs, NEW i \in Ids, Analyses(p, i) PROVE now' = now
  BY <1>3 DEF Analyses, AcquireSlot, Analyze, FinishRead, FinishWrite
<1>4. ASSUME Others \/ Touch \/ UNCHANGED vars PROVE now' = now
  BY <1>4 DEF Others, Close, Verify, Reopen, Resolve, Moves, Touch, vars
<1>5. now' = now \/ now' = now + 1
  BY <1>1, <1>2, <1>3, <1>4 DEF Next, Tick
<1> QED
  BY <1>0, <1>5

\* The incident controller and humans change a state, and with it resolvedAt.
LEMMA OthersWrite ==
    ASSUME TypeOK, Others, NEW j \in Ids
    PROVE  \/ incidents'[j] = incidents[j]
           \/ /\ incidents[j].state # "Absent"
              /\ \E to \in {"Closed", "Verifying", "Open", "Resolved"} :
                   /\ incidents'[j] = [incidents[j] EXCEPT !.state = to,
                                         !.resolvedAt = IF to = "Resolved" THEN now ELSE @]
                   /\ to # "Closed" => ~ended(incidents[j])
<1>1. ASSUME NEW from, NEW to \in {"Closed", "Verifying", "Open", "Resolved"}, Moves(from, to),
             "Absent" \notin from,
             to = "Closed" \/ (from \cap {"Resolved", "Closed"} = {})
      PROVE  \/ incidents'[j] = incidents[j]
             \/ /\ incidents[j].state # "Absent"
                /\ incidents'[j] = [incidents[j] EXCEPT !.state = to,
                                      !.resolvedAt = IF to = "Resolved" THEN now ELSE @]
                /\ to # "Closed" => ~ended(incidents[j])
  <2>1. PICK i \in Ids : /\ incidents[i].state \in from
                         /\ Write(i, [incidents[i] EXCEPT !.state = to,
                                        !.resolvedAt = IF to = "Resolved" THEN now ELSE @])
    BY <1>1 DEF Moves
  <2>2. incidents'[j] = IF i = j THEN [incidents[i] EXCEPT !.state = to,
                                         !.resolvedAt = IF to = "Resolved" THEN now ELSE @]
                        ELSE incidents[j]
    BY <2>1 DEF TypeOK, Write
  <2> QED
    BY <1>1, <2>1, <2>2 DEF ended
<1>2. CASE Close
  BY <1>1, <1>2 DEF Close
<1>3. CASE Verify
  BY <1>1, <1>3 DEF Verify
<1>4. CASE Reopen
  BY <1>1, <1>4 DEF Reopen
<1>5. CASE Resolve
  BY <1>1, <1>5 DEF Resolve
<1> QED
  BY <1>2, <1>3, <1>4, <1>5 DEF Others

\* What no step takes from an incident: its creation, its end, its analysis; a resolution is
\* dated when it happens.
LEMMA IncidentKeeps ==
    ASSUME OneProcess, PromiseInv, NothingBeforeOutcome, [Next]_vars,
           NEW j \in Ids, incidents[j].state # "Absent"
    PROVE  /\ incidents'[j].state # "Absent"
           /\ incidents'[j].created = incidents[j].created
           /\ ended(incidents[j]) => ended(incidents'[j])
           /\ Comparable(incidents[j]) => Comparable(incidents'[j])
           /\ incidents'[j].state = "Resolved" =>
                \/ /\ incidents[j].state = "Resolved"
                   /\ incidents'[j].resolvedAt = incidents[j].resolvedAt
                \/ incidents'[j].resolvedAt = now
           /\ \/ incidents'[j].completedAt = incidents[j].completedAt
              \/ incidents'[j].completedAt = now
              \/ \E p \in Procs : /\ rca[p][j].pc = "writing"
                                  /\ incidents'[j].completedAt = rca[p][j].at
<1>0. /\ TypeInv /\ TypeOK /\ FreshIsCurrent /\ NotYet /\ MarksUnset /\ UnsetHasNothing
      /\ incidents[j] \in Incident
  BY DEF PromiseInv, PickInv, BaseInv, TypeInv, TypeOK
<1>1. incidents'[j].state # "Absent"
  BY <1>0, NextKeepsIncidents
<1>2. CASE incidents'[j] = incidents[j]
  BY <1>1, <1>2
<1>3. CASE ByOthers(j)
  <2>1. CASE incidents'[j] = incidents[j]
    BY <1>2, <2>1
  <2>2. CASE \E to \in {"Closed", "Verifying", "Open", "Resolved"} :
               /\ incidents'[j] = [incidents[j] EXCEPT !.state = to,
                                     !.resolvedAt = IF to = "Resolved" THEN now ELSE @]
               /\ to # "Closed" => ~ended(incidents[j])
    BY <1>0, <1>1, <2>2 DEF Incident, ended, Comparable
  <2> QED
    BY <1>0, <1>3, <2>1, <2>2, OthersWrite DEF ByOthers
<1>4. CASE BySweep(j)
  <2>1. incidents'[j] = Interrupted(j) /\ analyzingOrUnset(incidents[j])
    BY <1>0, <1>4 DEF BySweep, FreshIsCurrent
  <2>2. ~Comparable(incidents[j]) /\ ~ended(incidents[j])
    BY <1>0, <2>1 DEF NotYet, NothingBeforeOutcome, Comparable, ended, analyzingOrUnset
  <2>3. /\ incidents'[j].created = incidents[j].created /\ incidents'[j].completedAt = now
        /\ incidents'[j].state = "Open"
    BY <1>0, <2>1 DEF Interrupted, Incident
  <2> QED
    BY <1>1, <2>2, <2>3
<1>5. CASE ByCreate(j)
  BY <1>5 DEF ByCreate
<1>6. CASE ByMark(j)
  <2>1. incidents[j].state = "Unset"
    BY <1>0, <1>6 DEF ByMark, MarksUnset, ended
  <2>2. ~Comparable(incidents[j]) /\ ~ended(incidents[j])
    BY <1>0, <2>1 DEF UnsetHasNothing, Comparable, ended
  <2>3. /\ incidents'[j].created = incidents[j].created
        /\ incidents'[j].completedAt = incidents[j].completedAt
        /\ incidents'[j].state = "Analyzing"
    BY <1>0, <1>6 DEF ByMark, Incident
  <2> QED
    BY <1>1, <2>2, <2>3
<1>7. CASE ByAnalysis(j)
  <2>1. PICK p \in Procs : /\ rca[p][j].pc = "writing" /\ j \in fresh[p]
                           /\ incidents'[j] = Analyzed(incidents[j], rca[p][j])
    BY <1>7 DEF ByAnalysis
  <2>2. ~Comparable(incidents[j])
    BY <1>0, <2>1 DEF NotYet, Handles, NothingBeforeOutcome, Comparable
  <2>3. /\ incidents'[j].created = incidents[j].created
        /\ incidents'[j].completedAt = rca[p][j].at
        /\ incidents'[j].resolvedAt = incidents[j].resolvedAt
        /\ incidents'[j].state = IF rca[p][j].working THEN "Open" ELSE incidents[j].state
    BY <1>0, <2>1 DEF Analyzed, Incident
  <2>4. rca[p][j].working <=> analyzingOrUnset(incidents[j])
    BY <1>0, <2>1 DEF FreshIsCurrent
  <2> QED
    BY <1>1, <2>1, <2>2, <2>3, <2>4 DEF analyzingOrUnset, ended
<1> QED
  BY <1>0, <1>2, <1>3, <1>4, <1>5, <1>6, <1>7, IncidentSteps

\* An incident appears by a create.
LEMMA Appears ==
    ASSUME PromiseInv, [Next]_vars, NEW j \in Ids,
           incidents[j].state = "Absent", incidents'[j].state # "Absent"
    PROVE  ByCreate(j) /\ UNCHANGED now
<1>0. TypeInv /\ TypeOK /\ FreshIsCurrent
  BY DEF PromiseInv, PickInv, BaseInv, TypeInv
<1>1. ~ByOthers(j)
  BY <1>0, OthersWrite DEF ByOthers
<1>2. ~BySweep(j)
  BY <1>0 DEF BySweep, FreshIsCurrent, analyzingOrUnset
<1>3. ~ByMark(j)
  BY <1>0 DEF ByMark, TypeInv, MarksOnce
<1>4. ~ByAnalysis(j)
  BY <1>0 DEF ByAnalysis, TypeInv, AnalysisExists
<1>5. ByCreate(j)
  BY <1>0, <1>1, <1>2, <1>3, <1>4, IncidentSteps
<1> QED
  BY <1>5 DEF ByCreate, Create

\* An evaluation is dated when it starts.
LEMMA EvalDates ==
    ASSUME TypeInv, [Next]_vars, NEW q \in Procs, NEW b \in Alerts, eval'[q][b].pc # "idle"
    PROVE  \/ eval'[q][b].pc = "listing" /\ eval'[q][b].at = now /\ UNCHANGED incidents
           \/ /\ eval[q][b].pc # "idle"
              /\ eval'[q][b].at = eval[q][b].at
              /\ eval[q][b].pc = "marking" => eval'[q][b] = eval[q][b]
<1> DEFINE e == eval[q][b]
           Keeps(x) == x.pc = "idle" \/ (e.pc # "idle" /\ e.pc # "marking" /\ x.at = e.at)
<1>0. TypeOK /\ e \in Evaluation
  BY DEF TypeInv, TypeOK
<1>1. CASE eval'[q][b] = e
  BY <1>1
<1>2. ASSUME NEW x, SetEval(q, b, x), Keeps(x)
      PROVE  e.pc # "idle" /\ eval'[q][b].at = e.at /\ e.pc # "marking"
  BY <1>0, <1>2, SetEvalAt
<1>3. Idle.pc = "idle"
  BY DEF Idle
<1>4. ASSUME NEW p \in Procs, NEW a \in Alerts, Fire(p, a) \/ Evaluates(p, a), p # q \/ a # b
      PROVE  eval'[q][b] = e
  <2>1. UNCHANGED eval \/ \E x : SetEval(p, a, x)
    <3>1. CASE Fire(p, a)
      BY <3>1 DEF Fire
    <3>2. CASE List(p, a)
      BY <3>2 DEF List
    <3>3. CASE Compare(p, a)
      BY <3>3 DEF Compare
    <3>4. CASE Covered(p, a) \/ Mark(p, a)
      BY <3>4 DEF Covered, Mark
    <3>5. CASE Create(p, a)
      BY <3>5 DEF Create
    <3> QED
      BY <1>4, <3>1, <3>2, <3>3, <3>4, <3>5 DEF Evaluates
  <2> QED
    BY <1>0, <1>4, <2>1, SetEvalAt
<1>5. CASE Fire(q, b)
  <2> DEFINE lists == [Idle EXCEPT !.pc = "listing", !.at = now]
  <2>1. UNCHANGED eval \/ SetEval(q, b, lists)
    BY <1>5 DEF Fire
  <2>2. lists.pc = "listing" /\ lists.at = now
    BY DEF Idle
  <2>3. UNCHANGED incidents
    BY <1>5 DEF Fire, cluster
  <2> HIDE DEF lists
  <2> QED
    BY <1>0, <1>1, <2>1, <2>2, <2>3, SetEvalAt
<1>6. CASE List(q, b)
  <2> DEFINE f == Fallback(b, e.at)
             compares == [e EXCEPT !.pc = "comparing", !.candidates = Candidates(b), !.target = f]
  <2>1. e.pc = "listing"
    BY <1>6 DEF List
  <2>2. Keeps(CoverOrCreate(e, f)) /\ Keeps(compares)
    <3> HIDE DEF f
    <3> QED
      BY <1>0, <2>1 DEF CoverOrCreate, Evaluation
  <2>3. \/ SetEval(q, b, CoverOrCreate(e, f))
        \/ SetEval(q, b, compares)
        \/ SetEval(q, b, Idle)
    BY <1>6 DEF List
  <2> HIDE DEF f, compares, Keeps
  <2>4. Keeps(Idle)
    BY <1>3 DEF Keeps
  <2> QED
    BY <1>2, <2>2, <2>3, <2>4
<1>7. CASE Compare(q, b)
  <2>1. \/ \E i \in e.candidates :
             SetEval(q, b, [e EXCEPT !.pc = "covered", !.candidates = {}, !.target = i])
        \/ SetEval(q, b, CoverOrCreate(e, e.target))
        \/ SetEval(q, b, Idle)
    BY <1>7 DEF Compare
  <2>2. e.pc = "comparing"
    BY <1>7 DEF Compare
  <2>3. ASSUME NEW i PROVE Keeps([e EXCEPT !.pc = "covered", !.candidates = {}, !.target = i])
    BY <1>0, <2>2 DEF Evaluation
  <2>4. Keeps(CoverOrCreate(e, e.target)) /\ Keeps(Idle)
    BY <1>0, <1>3, <2>2 DEF Evaluation, CoverOrCreate
  <2> HIDE DEF Keeps
  <2> QED
    BY <1>2, <2>1, <2>3, <2>4
<1>8. CASE Covered(q, b) \/ Mark(q, b)
  BY <1>0, <1>3, <1>8, SetEvalAt DEF Covered, Mark
<1>9. CASE Create(q, b)
  <2> DEFINE i == <<b, e.at>>
             marks == [e EXCEPT !.pc = "marking", !.target = i]
             covers == [e EXCEPT !.pc = "covered", !.target = i]
  <2>1. SetEval(q, b, marks) \/ SetEval(q, b, covers) \/ SetEval(q, b, Idle)
    BY <1>9 DEF Create
  <2>2. e.pc = "creating"
    BY <1>9 DEF Create
  <2>3. Keeps(marks) /\ Keeps(covers) /\ Keeps(Idle)
    BY <1>0, <1>3, <2>2 DEF Evaluation
  <2> HIDE DEF marks, covers, Keeps
  <2> QED
    BY <1>2, <2>1, <2>3
<1>10. ASSUME NEW p \in Procs, Crash(p) PROVE eval'[q][b] = e
  BY <1>0, <1>3, <1>10 DEF Crash, TypeOK
<1>11. ASSUME NEW p \in Procs, Recovers(p) PROVE eval' = eval
  BY <1>11 DEF Recovers, Start, RecoverList, RecoverPatch, Serve
<1>12. ASSUME NEW p \in Procs, NEW i \in Ids, Analyses(p, i) PROVE eval' = eval
  BY <1>12 DEF Analyses, AcquireSlot, Analyze, FinishRead, FinishWrite
<1>13. ASSUME Others \/ Touch \/ Tick \/ UNCHANGED vars PROVE eval' = eval
  BY <1>13 DEF Others, Close, Verify, Reopen, Resolve, Moves, Touch, Tick, volatile, vars
<1> QED
  BY <1>1, <1>4, <1>5, <1>6, <1>7, <1>8, <1>9, <1>10, <1>11, <1>12, <1>13 DEF Next, Evaluates

\* An answer is dated when it comes.
LEMMA AnswerDates ==
    ASSUME TypeInv, [Next]_vars, NEW q \in Procs, NEW j \in Ids,
           rca'[q][j].pc \in {"reading", "writing"}
    PROVE  /\ rca[q][j].pc # "none"
           /\ \/ rca'[q][j].at = now
              \/ rca[q][j].pc \in {"reading", "writing"} /\ rca'[q][j].at = rca[q][j].at
<1> DEFINE r == rca[q][j]
<1>0. TypeOK /\ r \in Analysis
  BY DEF TypeInv, TypeOK
<1>1. CASE rca'[q][j] = r
  BY <1>1
<1>2. ASSUME NEW p \in Procs, NEW i \in Ids, Analyses(p, i), p # q \/ i # j
      PROVE  rca'[q][j] = r
  <2>1. \E x : SetRca(p, i, x)
    BY <1>2 DEF Analyses, AcquireSlot, Analyze, FinishRead, FinishWrite
  <2> QED
    BY <1>0, <1>2, <2>1, SetRcaAt
<1>3. CASE AcquireSlot(q, j)
  <2> DEFINE runs == [r EXCEPT !.pc = "running"]
  <2>1. SetRca(q, j, runs) /\ runs.pc = "running"
    BY <1>0, <1>3 DEF AcquireSlot, Analysis
  <2> HIDE DEF runs
  <2> QED
    BY <1>0, <2>1, SetRcaAt
<1>4. CASE Analyze(q, j)
  <2>1. PICK x : SetRca(q, j, [r EXCEPT !.pc = "reading", !.answer = x, !.at = now])
    BY <1>4 DEF Analyze
  <2>2. [r EXCEPT !.pc = "reading", !.answer = x, !.at = now].at = now
    BY <1>0 DEF Analysis
  <2>3. rca'[q][j].at = now
    <3> DEFINE y == [r EXCEPT !.pc = "reading", !.answer = x, !.at = now]
    <3>1. SetRca(q, j, y) /\ y.at = now
      BY <2>1, <2>2
    <3> HIDE DEF y
    <3> QED
      BY <1>0, <3>1, SetRcaAt
  <2> QED
    BY <1>4, <2>3 DEF Analyze
<1>5. CASE FinishRead(q, j)
  <2> DEFINE writes == [r EXCEPT !.pc = "writing", !.working = analyzingOrUnset(incidents[j])]
  <2>1. SetRca(q, j, writes) \/ SetRca(q, j, NoAnalysis)
    BY <1>5 DEF FinishRead
  <2>2. writes.at = r.at /\ NoAnalysis.pc = "none"
    BY <1>0 DEF Analysis, NoAnalysis
  <2> HIDE DEF writes
  <2> QED
    BY <1>0, <1>5, <2>1, <2>2, SetRcaAt DEF FinishRead
<1>6. CASE FinishWrite(q, j)
  <2> DEFINE again == [r EXCEPT !.pc = "reading", !.tries = @ + 1]
  <2>1. SetRca(q, j, again) \/ SetRca(q, j, NoAnalysis)
    BY <1>6 DEF FinishWrite
  <2>2. again.at = r.at /\ NoAnalysis.pc = "none"
    BY <1>0 DEF Analysis, NoAnalysis
  <2> HIDE DEF again
  <2> QED
    BY <1>0, <1>6, <2>1, <2>2, SetRcaAt DEF FinishWrite
<1>7. ASSUME NEW p \in Procs, NEW a \in Alerts, Mark(p, a) PROVE rca'[q][j] = r
  <2> DEFINE i == eval[p][a].target
             waits == [NoAnalysis EXCEPT !.pc = "waiting"]
  <2>1. i \in Ids
    <3>1. i = <<a, eval[p][a].at>> /\ eval[p][a].at \in Time
      BY <1>0, <1>7 DEF Mark, TypeInv, MarksCreated, TypeOK, Evaluation
    <3> QED
      BY <3>1 DEF Ids
  <2>2. UNCHANGED rca \/ SetRca(p, i, waits)
    BY <1>7 DEF Mark
  <2>3. waits.pc = "waiting"
    BY DEF NoAnalysis
  <2> HIDE DEF i, waits
  <2> QED
    BY <1>0, <2>1, <2>2, <2>3, SetRcaAt
<1>8. ASSUME NEW p \in Procs, Crash(p) PROVE rca'[q][j] = r
  BY <1>0, <1>8 DEF Crash, TypeOK, NoAnalysis
<1>9. ASSUME NEW p \in Procs, Recovers(p) PROVE rca' = rca
  BY <1>9 DEF Recovers, Start, RecoverList, RecoverPatch, Serve
<1>10. ASSUME NEW p \in Procs, NEW a \in Alerts,
              Fire(p, a) \/ List(p, a) \/ Compare(p, a) \/ Covered(p, a) \/ Create(p, a)
       PROVE  rca' = rca
  BY <1>10 DEF Fire, List, Compare, Covered, Create
<1>11. ASSUME Others \/ Touch \/ Tick \/ UNCHANGED vars PROVE rca' = rca
  BY <1>11 DEF Others, Close, Verify, Reopen, Resolve, Moves, Touch, Tick, volatile, vars
<1> QED
  BY <1>1, <1>2, <1>3, <1>4, <1>5, <1>6, <1>7, <1>8, <1>9, <1>10, <1>11
     DEF Next, Evaluates, Analyses

-----------------------------------------------------------------------------
(* Each part of TimeInv is kept. *)

LEMMA TimeTypes ==
    ASSUME TypeOK, NEW j \in Ids
    PROVE  /\ incidents[j] \in Incident
           /\ incidents[j].created \in Int /\ j[2] \in Int /\ incidents[j].completedAt \in Int
           /\ incidents[j].resolvedAt \in Int /\ now \in Int
           /\ now # Unset /\ \A t \in Time : t \in Int /\ t # Unset
           /\ j[1] \in Alerts /\ j = <<j[1], j[2]>>
BY ConstantsAssumption DEF TypeOK, Incident, Ids, Time, Unset

\* A new incident is the newest of its alert.
LEMMA NewIsNewest ==
    ASSUME OneProcess, PromiseInv, NothingBeforeOutcome, Dated, EvalLater, [Next]_vars,
           NEW j \in Ids, incidents[j].state = "Absent", incidents'[j].state # "Absent",
           NEW i \in Ids, i[1] = j[1], i # j, incidents'[i].state # "Absent"
    PROVE  incidents[i].state # "Absent" /\ Newer(j, i)' /\ ~Newer(i, j)'
<1>0. TypeInv /\ TypeOK /\ TypeOK'
  BY NextType DEF PromiseInv, PickInv, BaseInv, TypeInv
<1>1. /\ UNCHANGED now /\ incidents'[j] = Created
      /\ \E p \in Procs, a \in Alerts : Create(p, a) /\ j = <<a, eval[p][a].at>>
  BY Appears DEF ByCreate
<1>2. PICK p \in Procs, a \in Alerts : Create(p, a) /\ j = <<a, eval[p][a].at>>
  BY <1>1
<1>3. eval[p][a].pc = "creating" /\ j[1] = a /\ j[2] = eval[p][a].at
  BY <1>2 DEF Create
<1>4. incidents'[i] = incidents[i]
  BY <1>0, <1>1, WritesOne DEF Write, TypeOK
<1>5. incidents[i].created <= j[2] /\ i[2] <= incidents[i].created /\ j[2] <= now
  BY <1>3, <1>4 DEF EvalLater, alertIncidents, Dated
<1>6. incidents'[j].created = now
  BY <1>1 DEF Created, Absent
<1>7. i[2] # j[2]
  BY <1>0, TimeTypes
<1>8. /\ incidents[i].created \in Int /\ i[2] \in Int /\ j[2] \in Int /\ now \in Int
  BY <1>0, TimeTypes
<1> QED
  BY <1>4, <1>5, <1>6, <1>7, <1>8 DEF Newer

LEMMA NextDated == ASSUME OneProcess, TimeInv, [Next]_vars PROVE Dated'
<1> SUFFICES ASSUME NEW j \in Ids, incidents'[j].state # "Absent"
             PROVE  /\ j[2] <= incidents'[j].created /\ incidents'[j].created <= now'
                    /\ incidents'[j].completedAt # Unset =>
                         incidents'[j].created <= incidents'[j].completedAt
                    /\ incidents'[j].state = "Resolved" => incidents'[j].resolvedAt # Unset
  BY DEF Dated
<1>0. TypeInv /\ TypeOK /\ PromiseInv /\ Dated /\ EvalLater /\ AnsweredLater /\ NothingBeforeOutcome
  BY DEF TimeInv, PromiseInv, PickInv, BaseInv, TypeInv
<1>1. now <= now' /\ now \in Int /\ now' \in Int
  BY <1>0, ClockSteps
<1>2. CASE incidents[j].state = "Absent"
  <2>1. /\ incidents'[j] = Created
        /\ \E p \in Procs, a \in Alerts : Create(p, a) /\ j = <<a, eval[p][a].at>>
    BY <1>0, <1>2, Appears DEF ByCreate
  <2>2. j[2] <= now
    BY <1>0, <2>1 DEF Create, EvalLater
  <2>3. /\ incidents'[j].created = now /\ incidents'[j].completedAt = Unset
        /\ incidents'[j].state = "Unset"
    BY <2>1 DEF Created, Absent
  <2> QED
    BY <1>1, <2>2, <2>3
<1>3. CASE incidents[j].state # "Absent"
  <2>1. /\ j[2] <= incidents[j].created /\ incidents[j].created <= now
        /\ incidents[j].completedAt # Unset => incidents[j].created <= incidents[j].completedAt
        /\ incidents[j].state = "Resolved" => incidents[j].resolvedAt # Unset
        /\ \A p \in Procs : rca[p][j].pc = "writing" => incidents[j].created <= rca[p][j].at
    BY <1>0, <1>3 DEF Dated, AnsweredLater
  <2>2. now # Unset /\ incidents[j].created \in Int
    BY <1>0, TimeTypes
  <2> QED
    BY <1>0, <1>1, <1>3, <2>1, <2>2, IncidentKeeps
<1> QED
  BY <1>2, <1>3

LEMMA NextAnsweredLater == ASSUME OneProcess, TimeInv, [Next]_vars PROVE AnsweredLater'
<1> SUFFICES ASSUME NEW q \in Procs, NEW j \in Ids, rca'[q][j].pc \in {"reading", "writing"}
             PROVE  incidents'[j].created <= rca'[q][j].at
  BY DEF AnsweredLater
<1>0. TypeInv /\ PromiseInv /\ Dated /\ AnsweredLater /\ NothingBeforeOutcome
  BY DEF TimeInv, PromiseInv, PickInv, BaseInv
<1>1. incidents[j].state # "Absent"
  BY <1>0, AnswerDates DEF TypeInv, AnalysisExists
<1>2. incidents'[j].created = incidents[j].created /\ incidents[j].created <= now
  BY <1>0, <1>1, IncidentKeeps DEF Dated
<1> QED
  BY <1>0, <1>2, AnswerDates DEF AnsweredLater

LEMMA NextNothingBeforeOutcome ==
    ASSUME TypeInv, NothingBeforeOutcome, [Next]_vars
    PROVE  NothingBeforeOutcome'
<1> SUFFICES ASSUME NEW j \in Ids, incidents'[j].completedAt = Unset
             PROVE  ~incidents'[j].cause /\ ~incidents'[j].report
  BY DEF NothingBeforeOutcome
<1>0. TypeOK /\ incidents[j] \in Incident /\ now # Unset /\ \A t \in Time : t # Unset
  BY TimeTypes DEF TypeInv
<1>1. CASE incidents'[j] = incidents[j]
  BY <1>1 DEF NothingBeforeOutcome
<1>2. CASE ByOthers(j)
  <2>1. CASE \E to : incidents'[j] = [incidents[j] EXCEPT !.state = to,
                       !.resolvedAt = IF to = "Resolved" THEN now ELSE @]
    BY <1>0, <2>1 DEF Incident, NothingBeforeOutcome
  <2> QED
    BY <1>0, <1>1, <1>2, <2>1, OthersWrite DEF ByOthers
<1>3. CASE BySweep(j)
  BY <1>0, <1>3 DEF BySweep, Interrupted, Incident
<1>4. CASE ByCreate(j)
  BY <1>4 DEF ByCreate, Created, Absent
<1>5. CASE ByMark(j)
  BY <1>0, <1>5 DEF ByMark, Incident, NothingBeforeOutcome
<1>6. CASE ByAnalysis(j)
  <2>1. PICK p \in Procs : incidents'[j] = Analyzed(incidents[j], rca[p][j])
    BY <1>6 DEF ByAnalysis
  <2>2. incidents'[j].completedAt = rca[p][j].at /\ rca[p][j].at \in Time
    BY <1>0, <2>1 DEF Analyzed, Incident, TypeOK, Analysis
  <2> QED
    BY <1>0, <2>2
<1> QED
  BY <1>1, <1>2, <1>3, <1>4, <1>5, <1>6, IncidentSteps

LEMMA NextEvalLater == ASSUME OneProcess, TimeInv, [Next]_vars PROVE EvalLater'
<1> SUFFICES ASSUME NEW q \in Procs, NEW b \in Alerts, eval'[q][b].pc # "idle"
             PROVE  /\ eval'[q][b].at <= now'
                    /\ \A j \in Ids : j[1] = b /\ incidents'[j].state # "Absent" =>
                         \/ incidents'[j].created <= eval'[q][b].at
                         \/ eval'[q][b].pc = "marking" /\ eval'[q][b].target = j
  BY DEF EvalLater, alertIncidents
<1>0. TypeInv /\ TypeOK /\ PromiseInv /\ Dated /\ EvalLater /\ NothingBeforeOutcome
  BY DEF TimeInv, PromiseInv, PickInv, BaseInv, TypeInv
<1>1. now <= now' /\ now \in Int /\ now' \in Int
  BY <1>0, ClockSteps
<1>2. eval[q][b] \in Evaluation /\ eval[q][b].at \in Int
  BY <1>0, TimeTypes, ConstantsAssumption DEF TypeOK, Evaluation, Time
<1>3. eval'[q][b].at <= now'
  <2>1. eval[q][b].pc # "idle" => eval[q][b].at <= now
    BY <1>0 DEF EvalLater
  <2> QED
    BY <1>0, <1>1, <1>2, <2>1, EvalDates
<1>4. ASSUME NEW j \in Ids, j[1] = b, incidents'[j].state # "Absent"
      PROVE  \/ incidents'[j].created <= eval'[q][b].at
             \/ eval'[q][b].pc = "marking" /\ eval'[q][b].target = j
  <2>1. CASE incidents[j].state # "Absent"
    <3>1. incidents'[j].created = incidents[j].created /\ incidents[j].created <= now
      BY <1>0, <2>1, IncidentKeeps DEF Dated
    <3>2. \/ eval[q][b].pc = "idle"
          \/ incidents[j].created <= eval[q][b].at
          \/ eval[q][b].pc = "marking" /\ eval[q][b].target = j
      BY <1>0, <1>4, <2>1 DEF EvalLater, alertIncidents
    <3>3. CASE eval'[q][b].at = now
      BY <3>1, <3>3
    <3>4. CASE /\ eval[q][b].pc # "idle" /\ eval'[q][b].at = eval[q][b].at
               /\ eval[q][b].pc = "marking" => eval'[q][b] = eval[q][b]
      BY <3>1, <3>2, <3>4
    <3> QED
      BY <1>0, <3>3, <3>4, EvalDates
  <2>2. CASE incidents[j].state = "Absent"
    <3>1. \E p \in Procs, a \in Alerts : Create(p, a) /\ j = <<a, eval[p][a].at>>
      BY <1>0, <1>4, <2>2, Appears DEF ByCreate
    <3>2. Create(q, b) /\ j = <<b, eval[q][b].at>>
      BY <1>4, <3>1 DEF OneProcess
    <3> DEFINE marks == [eval[q][b] EXCEPT !.pc = "marking", !.target = j]
    <3>3. SetEval(q, b, marks) \/ SetEval(q, b, Idle)
      BY <2>2, <3>2 DEF Create
    <3>4. marks.pc = "marking" /\ marks.target = j /\ Idle.pc = "idle"
      BY <1>2 DEF Evaluation, Idle
    <3> HIDE DEF marks
    <3> QED
      BY <1>0, <3>3, <3>4, SetEvalAt
  <2> QED
    BY <2>1, <2>2
<1> QED
  BY <1>3, <1>4

\* A fallback of none leaves no newest incident within its grace.
LEMMA FallbackGrace ==
    ASSUME TypeOK, NEW a, NEW at, Fallback(a, at) = NoId,
           NEW i \in alertIncidents(a), \A k \in alertIncidents(a) : ~Newer(k, i)
    PROVE  ~resolvedWithin(incidents[i], at)
<1> DEFINE all == alertIncidents(a)
           holding == {k \in Open(a) : ~Comparable(incidents[k]) /\ holdsFirings(incidents[k], at)}
<1>0. incidents \in [Ids -> Incident] /\ all \subseteq Ids /\ all # {} /\ holding \subseteq Ids
  BY DEF TypeOK, alertIncidents, Open
<1>1. newest(all) \in all /\ ~Newer(i, newest(all)) /\ ~Newer(newest(all), i)
  BY <1>0, NewestMember
<1>2. newest(all) = i
  <2>1. /\ newest(all) \in Ids /\ i \in Ids /\ newest(all)[1] = a /\ i[1] = a
    BY <1>1 DEF alertIncidents
  <2> DEFINE m == newest(all)
  <2>2. m \in Ids /\ i \in Ids /\ m[1] = i[1] /\ ~Newer(i, m) /\ ~Newer(m, i)
    BY <1>1, <2>1
  <2> HIDE DEF m
  <2>3. /\ incidents[m].created \in Int /\ incidents[i].created \in Int
        /\ m[2] \in Int /\ i[2] \in Int /\ m = <<m[1], m[2]>> /\ i = <<i[1], i[2]>>
    BY <2>2, TimeTypes
  <2>4. m[2] = i[2]
    BY <2>2, <2>3 DEF Newer
  <2>5. m = i
    BY <2>2, <2>3, <2>4
  <2> QED
    BY <2>5 DEF m
<1>3. holding = {}
  <2>1. SUFFICES ASSUME holding # {} PROVE FALSE
    OBVIOUS
  <2>2. Fallback(a, at) = newest(holding)
    BY <2>1 DEF Fallback
  <2>3. newest(holding) \in Ids
    BY <1>0, <2>1, NewestMember
  <2> QED
    BY <2>2, <2>3, ConstantsAssumption
<1>4. SUFFICES ASSUME resolvedWithin(incidents[i], at) PROVE FALSE
  OBVIOUS
<1>5. Fallback(a, at) = newest(all)
  BY <1>0, <1>2, <1>3, <1>4 DEF Fallback
<1> QED
  BY <1>0, <1>2, <1>5, ConstantsAssumption

\* While an evaluation stays vacant nothing of its alert is created.
LEMMA VacantKeeps ==
    ASSUME OneProcess, TimeInv, [Next]_vars, NEW q \in Procs, NEW b \in Alerts, Vacant(q, b)',
           NEW j \in Ids, j[1] = b, incidents'[j].state # "Absent"
    PROVE  /\ incidents[j].state # "Absent"
           /\ incidents'[j].created = incidents[j].created
           /\ eval'[q][b].at = eval[q][b].at /\ eval[q][b].at <= now
<1>0. TypeInv /\ TypeOK /\ PromiseInv /\ NothingBeforeOutcome /\ EvalLater
  BY DEF TimeInv, PromiseInv, PickInv, BaseInv, TypeInv
<1>1. incidents[j].state # "Absent"
  <2>1. SUFFICES ASSUME incidents[j].state = "Absent" PROVE FALSE
    OBVIOUS
  <2>2. \E p \in Procs, a \in Alerts : Create(p, a) /\ j = <<a, eval[p][a].at>>
    BY <1>0, <2>1, Appears DEF ByCreate
  <2>3. Create(q, b)
    BY <2>2 DEF OneProcess
  <2>4. ~UNCHANGED incidents
    BY <2>1
  <2> QED
    BY <1>0, <2>3, <2>4, VacantSteps
<1>2. eval'[q][b].pc # "idle" /\ eval'[q][b].pc # "listing"
  BY DEF Vacant
<1>3. eval[q][b].pc # "idle" /\ eval'[q][b].at = eval[q][b].at
  BY <1>0, <1>2, EvalDates
<1> QED
  BY <1>0, <1>1, <1>3, IncidentKeeps DEF EvalLater

LEMMA NextHeldLongAgo == ASSUME OneProcess, TimeInv, [Next]_vars PROVE HeldLongAgo'
<1> SUFFICES ASSUME NEW q \in Procs, NEW b \in Alerts, Vacant(q, b)',
                    NEW j \in Ids, j[1] = b, incidents'[j].state # "Absent",
                    ~ended(incidents'[j]), ~Comparable(incidents'[j])
             PROVE  eval'[q][b].at - incidents'[j].created >= FailedAnalysisHold
  BY DEF HeldLongAgo, Open, alertIncidents, Vacant
<1>0. TypeInv /\ TypeOK /\ PromiseInv /\ NothingBeforeOutcome /\ HeldLongAgo /\ Dated
  BY DEF TimeInv, PromiseInv, PickInv, BaseInv, TypeInv
<1>1. /\ incidents[j].state # "Absent" /\ incidents'[j].created = incidents[j].created
      /\ eval'[q][b].at = eval[q][b].at
  BY VacantKeeps
<1>2. ~ended(incidents[j]) /\ ~Comparable(incidents[j])
  BY <1>0, <1>1, IncidentKeeps
<1>3. j \in Open(b)
  BY <1>1, <1>2 DEF Open, alertIncidents
<1>4. CASE Vacant(q, b)
  BY <1>0, <1>1, <1>2, <1>3, <1>4 DEF HeldLongAgo
<1>5. CASE Fallback(b, eval[q][b].at) = NoId
  <2>1. ~holdsFirings(incidents[j], eval[q][b].at)
    BY <1>0, <1>2, <1>3, <1>5, FallbackChoice DEF TypeOK
  <2>2. /\ incidents[j].created \in Int /\ incidents[j].completedAt \in Int
        /\ eval[q][b].at \in Int /\ FailedAnalysisHold \in Int
    BY <1>0, TimeTypes, ConstantsAssumption DEF TypeOK, Evaluation
  <2>3. incidents[j].completedAt # Unset => incidents[j].created <= incidents[j].completedAt
    BY <1>0, <1>1 DEF Dated
  <2> QED
    BY <1>1, <2>1, <2>2, <2>3 DEF holdsFirings
<1> QED
  BY <1>0, <1>4, <1>5, VacantSteps

LEMMA NextGraceOver == ASSUME OneProcess, TimeInv, [Next]_vars PROVE GraceOver'
<1> SUFFICES ASSUME NEW q \in Procs, NEW b \in Alerts, Vacant(q, b)',
                    NEW j \in Ids, j[1] = b, incidents'[j].state = "Resolved",
                    \A k \in Ids : k[1] = b /\ incidents'[k].state # "Absent" => ~Newer(k, j)',
                    incidents'[j].resolvedAt < eval'[q][b].at
             PROVE  eval'[q][b].at - incidents'[j].resolvedAt >= Grace
  BY DEF GraceOver, alertIncidents, Vacant, Newer
<1>0. TypeInv /\ TypeOK /\ PromiseInv /\ NothingBeforeOutcome /\ GraceOver /\ Dated
  BY DEF TimeInv, PromiseInv, PickInv, BaseInv, TypeInv
<1>1. /\ incidents[j].state # "Absent" /\ incidents'[j].created = incidents[j].created
      /\ eval'[q][b].at = eval[q][b].at /\ eval[q][b].at <= now
  BY VacantKeeps
<1>2. ASSUME NEW k \in Ids, k[1] = b, incidents[k].state # "Absent" PROVE ~Newer(k, j)
  BY <1>0, <1>1, <1>2, IncidentKeeps DEF Newer
<1>3. incidents[j].state = "Resolved" /\ incidents'[j].resolvedAt = incidents[j].resolvedAt
  <2>1. eval[q][b].at \in Int /\ now \in Int
    BY <1>0, TimeTypes DEF TypeOK, Evaluation
  <2>2. incidents'[j].resolvedAt # now
    BY <1>1, <2>1
  <2> QED
    BY <1>0, <1>1, <2>2, IncidentKeeps
<1>4. j \in alertIncidents(b) /\ \A k \in alertIncidents(b) : ~Newer(k, j)
  BY <1>1, <1>2 DEF alertIncidents
<1>5. CASE Vacant(q, b)
  BY <1>0, <1>1, <1>3, <1>4, <1>5 DEF GraceOver
<1>6. CASE Fallback(b, eval[q][b].at) = NoId
  <2>1. ~resolvedWithin(incidents[j], eval[q][b].at)
    BY <1>0, <1>4, <1>6, FallbackGrace
  <2>2. incidents[j].resolvedAt # Unset
    BY <1>0, <1>3 DEF Dated
  <2>3. /\ incidents[j].resolvedAt \in Int /\ eval[q][b].at \in Int /\ Grace \in Int
    BY <1>0, TimeTypes, ConstantsAssumption DEF TypeOK, Evaluation
  <2> QED
    BY <1>1, <1>3, <2>1, <2>2, <2>3 DEF resolvedWithin
<1> QED
  BY <1>0, <1>5, <1>6, VacantSteps

\* The evaluation that creates an incident was vacant.
LEMMA CreatorVacant ==
    ASSUME PromiseInv, [Next]_vars, NEW j \in Ids,
           incidents[j].state = "Absent", incidents'[j].state # "Absent"
    PROVE  \E p \in Procs : Vacant(p, j[1]) /\ j[2] = eval[p][j[1]].at
<1>1. PICK p \in Procs, a \in Alerts : Create(p, a) /\ j = <<a, eval[p][a].at>>
  BY Appears DEF ByCreate
<1> QED
  BY <1>1 DEF Create, Vacant

LEMMA NextHoldRespected == ASSUME OneProcess, TimeInv, [Next]_vars PROVE HoldRespected'
<1> SUFFICES ASSUME NEW i \in Ids, NEW j \in Ids, i[1] = j[1],
                    incidents'[i].state # "Absent", incidents'[j].state # "Absent",
                    ~ended(incidents'[i]), ~Comparable(incidents'[i]), Newer(j, i)'
             PROVE  j[2] - incidents'[i].created >= FailedAnalysisHold
  BY DEF HoldRespected, Newer
<1>0. /\ TypeInv /\ TypeOK /\ TypeOK' /\ PromiseInv /\ NothingBeforeOutcome /\ HeldLongAgo
      /\ Dated /\ EvalLater /\ HoldRespected
  BY NextType DEF TimeInv, PromiseInv, PickInv, BaseInv, TypeInv
<1>1. i # j
  BY <1>0, TimeTypes DEF Newer, TypeOK, Incident, Ids, Time
<1>2. incidents[i].state # "Absent"
  BY <1>0, <1>1, NewIsNewest
<1>3. /\ incidents'[i].created = incidents[i].created
      /\ ~ended(incidents[i]) /\ ~Comparable(incidents[i])
  BY <1>0, <1>2, IncidentKeeps
<1>4. CASE incidents[j].state # "Absent"
  <2>1. incidents'[j].created = incidents[j].created
    BY <1>0, <1>4, IncidentKeeps
  <2>2. Newer(j, i)
    BY <1>3, <2>1 DEF Newer
  <2> QED
    BY <1>0, <1>2, <1>3, <1>4, <2>2 DEF HoldRespected
<1>5. CASE incidents[j].state = "Absent"
  <2>1. PICK p \in Procs : Vacant(p, j[1]) /\ j[2] = eval[p][j[1]].at
    BY <1>0, <1>5, CreatorVacant
  <2>2. i \in Open(j[1]) /\ j[1] \in Alerts
    BY <1>0, <1>2, <1>3, TimeTypes DEF Open, alertIncidents
  <2> QED
    BY <1>0, <1>3, <2>1, <2>2 DEF HeldLongAgo
<1> QED
  BY <1>4, <1>5

LEMMA NextGraceRespected == ASSUME OneProcess, TimeInv, [Next]_vars PROVE GraceRespected'
<1> SUFFICES ASSUME NEW i \in Ids, NEW j \in Ids, i[1] = j[1],
                    incidents'[i].state = "Resolved", incidents'[j].state # "Absent",
                    Newer(j, i)',
                    ~\E k \in Ids : /\ k[1] = i[1] /\ incidents'[k].state # "Absent"
                                    /\ Newer(k, i)' /\ Newer(j, k)',
                    incidents'[i].resolvedAt < j[2]
             PROVE  j[2] - incidents'[i].resolvedAt >= Grace
  BY DEF GraceRespected, Newer, alertIncidents
<1>0. /\ TypeInv /\ TypeOK /\ TypeOK' /\ PromiseInv /\ NothingBeforeOutcome /\ GraceOver
      /\ Dated /\ EvalLater /\ GraceRespected
  BY NextType DEF TimeInv, PromiseInv, PickInv, BaseInv, TypeInv
<1>1. i # j
  BY <1>0, TimeTypes DEF Newer, TypeOK, Incident, Ids, Time
<1>2. incidents[i].state # "Absent"
  BY <1>0, <1>1, NewIsNewest
<1>3. ASSUME NEW k \in Ids, incidents[k].state # "Absent"
      PROVE  incidents'[k].created = incidents[k].created /\ incidents'[k].state # "Absent"
  BY <1>0, <1>3, IncidentKeeps
<1>4. j[2] <= now
  <2>1. CASE incidents[j].state # "Absent"
    <3>1. /\ j[2] <= incidents[j].created /\ incidents[j].created <= now
      BY <1>0, <2>1 DEF Dated
    <3> QED
      BY <1>0, <3>1, TimeTypes
  <2>2. CASE incidents[j].state = "Absent"
    <3>1. \E p \in Procs : Vacant(p, j[1]) /\ j[2] = eval[p][j[1]].at
      BY <1>0, <2>2, CreatorVacant
    <3> QED
      BY <1>0, <3>1, TimeTypes DEF EvalLater, Vacant
  <2> QED
    BY <2>1, <2>2
<1>5. incidents[i].state = "Resolved" /\ incidents'[i].resolvedAt = incidents[i].resolvedAt
  <2>1. incidents'[i].resolvedAt # now
    BY <1>0, <1>4, TimeTypes
  <2> QED
    BY <1>0, <1>2, <2>1, IncidentKeeps
<1>6. CASE incidents[j].state # "Absent"
  <2>1. Newer(j, i)
    BY <1>2, <1>3, <1>6 DEF Newer
  <2>2. ~\E k \in alertIncidents(i[1]) : Newer(k, i) /\ Newer(j, k)
    BY <1>2, <1>3, <1>6 DEF Newer, alertIncidents
  <2> QED
    BY <1>0, <1>5, <1>6, <2>1, <2>2 DEF GraceRespected
<1>7. CASE incidents[j].state = "Absent"
  <2>1. PICK p \in Procs : Vacant(p, j[1]) /\ j[2] = eval[p][j[1]].at
    BY <1>0, <1>7, CreatorVacant
  <2>2. ASSUME NEW k \in alertIncidents(i[1]) PROVE ~Newer(k, i)
    <3>1. k \in Ids /\ k[1] = j[1] /\ k # j /\ incidents[k].state # "Absent"
      BY <1>7 DEF alertIncidents
    <3>2. incidents'[k].state # "Absent" /\ Newer(j, k)'
      BY <1>0, <1>3, <1>7, <3>1, NewIsNewest
    <3>3. ~Newer(k, i)'
      BY <3>1, <3>2
    <3> QED
      BY <1>2, <1>3, <3>1, <3>3 DEF Newer
  <2>3. i \in alertIncidents(j[1]) /\ j[1] \in Alerts
    BY <1>0, <1>2, TimeTypes DEF alertIncidents
  <2> QED
    BY <1>0, <1>5, <2>1, <2>2, <2>3 DEF GraceOver
<1> QED
  BY <1>6, <1>7

LEMMA InitTimeInv == Init => TimeInv
<1> SUFFICES ASSUME Init PROVE TimeInv
  OBVIOUS
<1>1. /\ \A i \in Ids : incidents[i] = Absent
      /\ \A p \in Procs, a \in Alerts : eval[p][a] = Idle
      /\ \A p \in Procs, i \in Ids : rca[p][i] = NoAnalysis
  BY DEF Init
<1>2. Dated /\ NothingBeforeOutcome /\ AnsweredLater /\ GraceRespected /\ HoldRespected
  BY <1>1 DEF Dated, NothingBeforeOutcome, AnsweredLater, GraceRespected, HoldRespected,
              Absent, NoAnalysis
<1>3. EvalLater /\ HeldLongAgo /\ GraceOver
  BY <1>1 DEF EvalLater, HeldLongAgo, GraceOver, Vacant, Idle
<1> QED
  BY <1>2, <1>3, InitPromiseInv DEF TimeInv

LEMMA NextTimeInv == ASSUME OneProcess, TimeInv, [Next]_vars PROVE TimeInv'
<1>1. TypeInv /\ PromiseInv /\ NothingBeforeOutcome
  BY DEF TimeInv, PromiseInv, PickInv, BaseInv
<1> QED
  BY <1>1, NextPromiseInv, NextDated, NextAnsweredLater, NextNothingBeforeOutcome, NextEvalLater,
     NextHeldLongAgo, NextGraceOver, NextGraceRespected, NextHoldRespected DEF TimeInv

LEMMA TimeInvariant == ASSUME OneProcess PROVE Spec => []TimeInv
<1>1. TimeInv /\ [Next]_vars => TimeInv'
  BY NextTimeInv
<1> QED
  BY InitTimeInv, <1>1, PTL DEF Spec

\* In one process: an incident whose latest predecessor was resolved before its firing opens only
\* when the grace (spec.interval) is over, however long its evaluation takes.
THEOREM GraceKept ==
    ASSUME OneProcess
    PROVE  Spec => []GraceRespected
<1>1. TimeInv => GraceRespected
  BY DEF TimeInv
<1> QED
  BY TimeInvariant, <1>1, PTL

\* In one process: an open incident without an analysis keeps its alert's firings for
\* FailedAnalysisHold, whatever fails, restarts or moves it meanwhile.
THEOREM HoldKept ==
    ASSUME OneProcess
    PROVE  Spec => []HoldRespected
<1>1. TimeInv => HoldRespected
  BY DEF TimeInv
<1> QED
  BY TimeInvariant, <1>1, PTL

=============================================================================
