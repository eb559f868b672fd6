--------------------------- MODULE IncidentWriter ---------------------------
(***************************************************************************)
(* The incident writer (internal/incident/writer.go): how the firings of   *)
(* an alert become Incidents, each with one root-cause analysis (RCA).     *)
(*                                                                         *)
(* A process (a replica of the provider) first sweeps the incidents its    *)
(* predecessor left without an analysis (RecoverInterrupted), then serves  *)
(* firings.  An evaluation holds the alert's firing lock while it lists    *)
(* the alert's incidents, picks the one that covers the firing or creates  *)
(* one, and marks it Analyzing.  The RCA runs after the lock is released,  *)
(* in one of MaxConcurrentAnalyses slots, and ends with one conditioned    *)
(* status write.                                                           *)
(*                                                                         *)
(* Every call of the API server, the HyperDX reader, the comparison model  *)
(* and the RCA agent is a step of its own; between two of them anyone else *)
(* moves: another process, the clock, the incident controller, a human.    *)
(***************************************************************************)
EXTENDS Integers, FiniteSets

CONSTANTS
    Alerts,                 \* the Alert names, each at most 63 characters
    Procs,                  \* the provider processes: one, or two in a rollout
    NoId,                   \* the pick that chose no incident
    Answers,                \* the RCA answers to tell apart
    MaxConcurrentAnalyses,  \* Config.MaxConcurrentAnalyses
    MaxCandidates,          \* Config.MaxCandidates
    FailedAnalysisHold,     \* Config.FailedAnalysisHold, in clock units
    FiringInterval,         \* the reconcile interval, in clock units
    Grace,                  \* spec.interval, in clock units
    WriteAttempts,          \* writeAttempts
    MaxTime,                \* bound of the clock
    MaxFaults,              \* bound of failed API calls
    MaxTouches,             \* bound of foreign writes that leave the state alone
    MaxCrashes              \* bound of process ends

\* An incident is named <alert>-<second of the firing's evaluation>.
Time == 0 .. MaxTime
Ids  == Alerts \X Time
Unset == -1                 \* a timestamp the status does not have

\* What an RCA's answer leaves in the status: cause (rootCause.statement),
\* report (its prose), fix (howToFix).  A failed RCA leaves none of them.
AllAnswers == {a \in [failed : BOOLEAN, cause : BOOLEAN, report : BOOLEAN, fix : BOOLEAN] :
                 a.failed => ~(a.cause \/ a.report \/ a.fix)}
NoAnswer == [failed |-> FALSE, cause |-> FALSE, report |-> FALSE, fix |-> FALSE]

ASSUME ConstantsAssumption ==
    /\ NoId \notin Ids
    /\ Answers \subseteq AllAnswers
    /\ Answers # {}
    /\ MaxConcurrentAnalyses \in Nat \ {0}
    /\ MaxCandidates \in Nat \ {0}
    /\ FailedAnalysisHold \in Nat
    /\ FiringInterval \in Nat \ {0}
    /\ Grace \in Nat
    /\ WriteAttempts \in Nat \ {0}
    /\ MaxTime \in Nat
    /\ MaxFaults \in Nat
    /\ MaxTouches \in Nat
    /\ MaxCrashes \in Nat

VARIABLES
    now,        \* the clock
    incidents,  \* the Incident of each name, as the API server holds it
    fresh,      \* per process: the incidents whose copy it holds at the current resourceVersion
    phase,      \* per process: down, starting, sweeping, serving
    sweep,      \* per process: the incidents RecoverInterrupted still has to patch
    lastFired,  \* per process and alert: when the reconcile last started a firing (firings.last)
    eval,       \* per process and alert: the evaluation that holds the firing lock
    rca,        \* per process and incident: the RunAnalysis call
    slots,      \* per process: the tokens in Writer.slots
    lost,       \* the incidents of which an error line says a write was lost
    faults, touches, crashes    \* what was spent of each bound

cluster == <<incidents, fresh>>
volatile == <<phase, sweep, lastFired, eval, rca, slots>>
budget == <<faults, touches, crashes>>
vars == <<now, incidents, fresh, phase, sweep, lastFired, eval, rca, slots, lost,
          faults, touches, crashes>>

States == {"Absent", "Unset", "Analyzing", "Open", "Verifying", "Resolved", "Closed"}
Incident == [state : States, created : Time, cause : BOOLEAN, report : BOOLEAN, fix : BOOLEAN,
             error : {"none", "interrupted", "analysis"},
             completedAt : Time \cup {Unset}, resolvedAt : Time \cup {Unset}]
Absent == [state |-> "Absent", created |-> 0, cause |-> FALSE, report |-> FALSE, fix |-> FALSE,
           error |-> "none", completedAt |-> Unset, resolvedAt |-> Unset]
Evaluation == [pc : {"idle", "listing", "comparing", "covered", "creating", "marking"},
               at : Time, candidates : SUBSET Ids, target : Ids \cup {NoId}]
Idle == [pc |-> "idle", at |-> 0, candidates |-> {}, target |-> NoId]
Analysis == [pc : {"none", "waiting", "running", "reading", "writing"}, answer : AllAnswers,
             at : Time, tries : 0 .. WriteAttempts - 1, working : BOOLEAN]
NoAnalysis == [pc |-> "none", answer |-> NoAnswer, at |-> 0, tries |-> 0, working |-> FALSE]

-----------------------------------------------------------------------------
(* What the writer reads off an Incident. *)

analyzingOrUnset(inc) == inc.state \in {"Unset", "Analyzing"}
ended(inc) == inc.state \in {"Resolved", "Closed"}

\* There is an analysis to compare a firing with.
Comparable(inc) ==
    /\ inc.state # "Analyzing"
    /\ inc.cause \/ (inc.error = "none" /\ inc.report)

\* Fault: an incident in progress holds firings only as long as a failed one.
holdsFirings_Expires(inc, at) ==
    at - (IF inc.completedAt # Unset THEN inc.completedAt ELSE inc.created) < FailedAnalysisHold

\* Fault: a failed incident holds nothing.
holdsFirings_RunningOnly(inc, at) == analyzingOrUnset(inc)

holdsFirings(inc, at) ==
    \/ analyzingOrUnset(inc)
    \/ at - (IF inc.completedAt # Unset THEN inc.completedAt ELSE inc.created) < FailedAnalysisHold

\* Fault: the grace counts from the analysis.
resolvedWithin_Completed(inc, at) ==
    inc.state = "Resolved" /\ inc.completedAt # Unset /\ at - inc.completedAt < Grace

resolvedWithin(inc, at) ==
    /\ inc.state = "Resolved"
    /\ inc.resolvedAt # Unset
    /\ at - inc.resolvedAt < Grace

\* The order by (creationTimestamp, name): names of one alert sort by their second.
Newer(i, j) ==
    \/ incidents[i].created > incidents[j].created
    \/ incidents[i].created = incidents[j].created /\ i[2] > j[2]
newest(S) == CHOOSE i \in S : \A j \in S \ {i} : ~Newer(j, i)

alertIncidents(a) == {i \in Ids : i[1] = a /\ incidents[i].state # "Absent"}
Open(a) == {i \in alertIncidents(a) : ~ended(incidents[i])}

\* The incidents one comparison weighs: the newest MaxCandidates with an analysis.
Candidates(a) ==
    LET analyzed == {i \in Open(a) : Comparable(incidents[i])}
    IN  {i \in analyzed : Cardinality({j \in analyzed : Newer(j, i)}) < MaxCandidates}

\* What covers the firing when no candidate does: the newest open incident without an analysis
\* that holds firings, else the alert's latest one when it was resolved within the grace.
Fallback(a, at) ==
    LET holding == {i \in Open(a) : ~Comparable(incidents[i]) /\ holdsFirings(incidents[i], at)}
        all == alertIncidents(a)
    IN  CASE holding # {} -> newest(holding)
          [] holding = {} /\ all # {} /\ resolvedWithin(incidents[newest(all)], at) -> newest(all)
          [] OTHER -> NoId

-----------------------------------------------------------------------------
(* Writes of the API server.  A write bumps the resourceVersion: no copy read before it is
   fresh any more. *)

Write(i, inc) ==
    /\ incidents' = [incidents EXCEPT ![i] = inc]
    /\ fresh' = [p \in Procs |-> fresh[p] \ {i}]

\* Fault: a status write is not conditioned on the resourceVersion.
Current_Unconditioned(p, i) == TRUE

\* A conditioned status write of i by p is accepted; else it is a 409.
Current(p, i) == i \in fresh[p]

\* A call fails: the request was lost before the server applied it, or its response after.
Fails == faults < MaxFaults /\ faults' = faults + 1

SetEval(p, a, e) == eval' = [eval EXCEPT ![p][a] = e]
SetRca(p, i, r) == rca' = [rca EXCEPT ![p][i] = r]

Init ==
    /\ now = 0
    /\ incidents = [i \in Ids |-> Absent]
    /\ fresh = [p \in Procs |-> {}]
    /\ phase = [p \in Procs |-> "down"]
    /\ sweep = [p \in Procs |-> {}]
    /\ lastFired = [p \in Procs |-> [a \in Alerts |-> Unset]]
    /\ eval = [p \in Procs |-> [a \in Alerts |-> Idle]]
    /\ rca = [p \in Procs |-> [i \in Ids |-> NoAnalysis]]
    /\ slots = [p \in Procs |-> 0]
    /\ lost = {}
    /\ faults = 0 /\ touches = 0 /\ crashes = 0

-----------------------------------------------------------------------------
(* A process starts, sweeps, serves, and ends. *)

Start(p) ==
    /\ phase[p] = "down"
    /\ phase' = [phase EXCEPT ![p] = "starting"]
    /\ UNCHANGED <<now, cluster, sweep, lastFired, eval, rca, slots, lost, budget>>

\* Fault: the sweep forgets an incident whose first status write never came.
LeftBehind_Marked == {i \in Ids : incidents[i].state = "Analyzing"}

LeftBehind == {i \in Ids : analyzingOrUnset(incidents[i])}

\* RecoverInterrupted lists the incidents; those without an analysis are to be patched.
RecoverList(p) ==
    /\ phase[p] = "starting"
    /\ LET left == LeftBehind
       IN  \/ /\ sweep' = [sweep EXCEPT ![p] = left]
              /\ fresh' = [fresh EXCEPT ![p] = left]
              /\ phase' = [phase EXCEPT ![p] = "sweeping"]
              /\ UNCHANGED <<lost, faults>>
           \/ /\ Fails
              /\ phase' = [phase EXCEPT ![p] = "serving"]
              /\ lost' = lost \cup left
              /\ UNCHANGED <<sweep, fresh>>
    /\ UNCHANGED <<now, incidents, lastFired, eval, rca, slots, touches, crashes>>

Interrupted(i) == [incidents[i] EXCEPT !.state = "Open", !.error = "interrupted", !.completedAt = now]

\* One conditioned patch; an incident whose patch fails, or meets a 409, is skipped.
RecoverPatch(p) ==
    /\ phase[p] = "sweeping"
    /\ \E i \in sweep[p] :
         /\ sweep' = [sweep EXCEPT ![p] = @ \ {i}]
         /\ \/ /\ Current(p, i)
               /\ Write(i, Interrupted(i))
               /\ UNCHANGED <<lost, faults>>
            \/ /\ ~Current(p, i)
               /\ lost' = lost \cup {i}
               /\ UNCHANGED <<cluster, faults>>
            \/ /\ Fails
               /\ lost' = lost \cup {i}
               /\ \/ Current(p, i) /\ Write(i, Interrupted(i))
                  \/ UNCHANGED cluster
    /\ UNCHANGED <<now, phase, lastFired, eval, rca, slots, touches, crashes>>

Serve(p) ==
    /\ phase[p] = "sweeping"
    /\ sweep[p] = {}
    /\ phase' = [phase EXCEPT ![p] = "serving"]
    /\ UNCHANGED <<now, cluster, sweep, lastFired, eval, rca, slots, lost, budget>>

\* The process ends: a crash, or SIGTERM, whose cancelled context fails every later call.
Crash(p) ==
    /\ phase[p] # "down"
    /\ crashes < MaxCrashes
    /\ crashes' = crashes + 1
    /\ phase' = [phase EXCEPT ![p] = "down"]
    /\ sweep' = [sweep EXCEPT ![p] = {}]
    /\ fresh' = [fresh EXCEPT ![p] = {}]
    /\ lastFired' = [lastFired EXCEPT ![p] = [a \in Alerts |-> Unset]]
    /\ eval' = [eval EXCEPT ![p] = [a \in Alerts |-> Idle]]
    /\ rca' = [rca EXCEPT ![p] = [i \in Ids |-> NoAnalysis]]
    /\ slots' = [slots EXCEPT ![p] = 0]
    /\ UNCHANGED <<now, incidents, lost, faults, touches>>

-----------------------------------------------------------------------------
(* One evaluation of a firing: Fire and openOrCover. *)

\* The reconcile starts a firing at most once per interval.  A paused alert, or one whose firing
\* lock is held, uses the interval up all the same; else Fire takes the lock.
Due(p, a) == lastFired[p][a] = Unset \/ now - lastFired[p][a] >= FiringInterval

Fire(p, a) ==
    /\ phase[p] = "serving"
    /\ Due(p, a)
    /\ lastFired' = [lastFired EXCEPT ![p][a] = now]
    /\ \/ /\ eval[p][a].pc = "idle"
          /\ SetEval(p, a, [Idle EXCEPT !.pc = "listing", !.at = now])
       \/ UNCHANGED eval
    /\ UNCHANGED <<now, cluster, phase, sweep, rca, slots, lost, budget>>

\* Nothing named by the comparison: the fallback covers the firing, or a new incident opens.
CoverOrCreate(e, fallback) ==
    [e EXCEPT !.pc = IF fallback # NoId THEN "covered" ELSE "creating",
              !.candidates = {}, !.target = fallback]

\* The list, and what pick derives from it before it calls anyone.
List(p, a) ==
    /\ eval[p][a].pc = "listing"
    /\ LET e == eval[p][a]
           fallback == Fallback(a, e.at)
       IN  \/ /\ SetEval(p, a, IF Candidates(a) = {}
                               THEN CoverOrCreate(e, fallback)
                               ELSE [e EXCEPT !.pc = "comparing", !.candidates = Candidates(a),
                                              !.target = fallback])
              /\ UNCHANGED faults
           \/ Fails /\ SetEval(p, a, Idle)
    /\ UNCHANGED <<now, cluster, phase, sweep, lastFired, rca, slots, lost, touches, crashes>>

\* The comparison names a candidate, or none of them, or gives no verdict (unreadable or no
\* records, a failed call, an unusable answer): without a fallback nothing then opens.
Compare(p, a) ==
    /\ eval[p][a].pc = "comparing"
    /\ LET e == eval[p][a]
       IN  \/ \E i \in e.candidates :
                SetEval(p, a, [e EXCEPT !.pc = "covered", !.candidates = {}, !.target = i])
           \/ SetEval(p, a, CoverOrCreate(e, e.target))
           \/ e.target = NoId /\ SetEval(p, a, Idle)
    /\ UNCHANGED <<now, cluster, phase, sweep, lastFired, rca, slots, lost, budget>>

\* A covered firing writes nothing; the lock is released.
Covered(p, a) ==
    /\ eval[p][a].pc = "covered"
    /\ SetEval(p, a, Idle)
    /\ UNCHANGED <<now, cluster, phase, sweep, lastFired, rca, slots, lost, budget>>

Created == [Absent EXCEPT !.state = "Unset", !.created = now]

\* The create; a 409 means a concurrent firing created the incident this second.
Create(p, a) ==
    /\ eval[p][a].pc = "creating"
    /\ LET e == eval[p][a]
           i == <<a, e.at>>
           exists == incidents[i].state # "Absent"
       IN  \/ /\ ~exists
              /\ Write(i, Created)
              /\ SetEval(p, a, [e EXCEPT !.pc = "marking", !.target = i])
              /\ UNCHANGED <<lost, faults>>
           \/ /\ exists
              /\ SetEval(p, a, [e EXCEPT !.pc = "covered", !.target = i])
              /\ UNCHANGED <<cluster, lost, faults>>
           \/ /\ Fails
              /\ SetEval(p, a, Idle)
              /\ lost' = lost \cup {i}
              /\ \/ ~exists /\ Write(i, Created)
                 \/ UNCHANGED cluster
    /\ UNCHANGED <<now, phase, sweep, lastFired, rca, slots, touches, crashes>>

\* The unconditioned patch to Analyzing, which the server refuses on an ended incident (422).
\* Whatever its outcome the lock is released, and only a new incident marked goes on to its RCA.
Mark(p, a) ==
    /\ eval[p][a].pc = "marking"
    /\ SetEval(p, a, Idle)
    /\ LET i == eval[p][a].target
           marked == [incidents[i] EXCEPT !.state = "Analyzing"]
       IN  \/ /\ ~ended(incidents[i])
              /\ Write(i, marked)
              /\ SetRca(p, i, [NoAnalysis EXCEPT !.pc = "waiting"])
              /\ UNCHANGED <<lost, faults>>
           \/ /\ ended(incidents[i])
              /\ lost' = lost \cup {i}
              /\ UNCHANGED <<cluster, rca, faults>>
           \/ /\ Fails
              /\ lost' = lost \cup {i}
              /\ \/ ~ended(incidents[i]) /\ Write(i, marked)
                 \/ UNCHANGED cluster
              /\ UNCHANGED rca
    /\ UNCHANGED <<now, phase, sweep, lastFired, slots, touches, crashes>>

-----------------------------------------------------------------------------
(* The RCA of a new incident: RunAnalysis and finish. *)

\* Fault: one slot more than the channel has.
AcquireSlot_OneMore(p, i) ==
    /\ rca[p][i].pc = "waiting"
    /\ slots[p] <= MaxConcurrentAnalyses
    /\ slots' = [slots EXCEPT ![p] = @ + 1]
    /\ SetRca(p, i, [rca[p][i] EXCEPT !.pc = "running"])
    /\ UNCHANGED <<now, cluster, phase, sweep, lastFired, eval, lost, budget>>

AcquireSlot(p, i) ==
    /\ rca[p][i].pc = "waiting"
    /\ slots[p] < MaxConcurrentAnalyses
    /\ slots' = [slots EXCEPT ![p] = @ + 1]
    /\ SetRca(p, i, [rca[p][i] EXCEPT !.pc = "running"])
    /\ UNCHANGED <<now, cluster, phase, sweep, lastFired, eval, lost, budget>>

\* Fault: a failed call keeps its slot.
Analyze_KeepsSlot(p, i) ==
    /\ rca[p][i].pc = "running"
    /\ \E answer \in Answers :
         /\ SetRca(p, i, [rca[p][i] EXCEPT !.pc = "reading", !.answer = answer, !.at = now])
         /\ slots' = [slots EXCEPT ![p] = IF answer.failed THEN @ ELSE @ - 1]
    /\ UNCHANGED <<now, cluster, phase, sweep, lastFired, eval, lost, budget>>

\* The agent answers, or its call fails; the slot is free before the write starts.
Analyze(p, i) ==
    /\ rca[p][i].pc = "running"
    /\ slots' = [slots EXCEPT ![p] = @ - 1]
    /\ \E answer \in Answers :
         SetRca(p, i, [rca[p][i] EXCEPT !.pc = "reading", !.answer = answer, !.at = now])
    /\ UNCHANGED <<now, cluster, phase, sweep, lastFired, eval, lost, budget>>

\* finish reads the incident; a failed read loses the analysis.
FinishRead(p, i) ==
    /\ rca[p][i].pc = "reading"
    /\ \/ /\ SetRca(p, i, [rca[p][i] EXCEPT !.pc = "writing", !.working = analyzingOrUnset(incidents[i])])
          /\ fresh' = [fresh EXCEPT ![p] = @ \cup {i}]
          /\ UNCHANGED <<lost, faults>>
       \/ /\ Fails
          /\ SetRca(p, i, NoAnalysis)
          /\ lost' = lost \cup {i}
          /\ UNCHANGED fresh
    /\ UNCHANGED <<now, incidents, phase, sweep, lastFired, eval, slots, touches, crashes>>

\* Fault: the analysis opens whatever state it finds.
Analyzed_Opens(inc, r) ==
    [inc EXCEPT !.state = "Open", !.cause = @ \/ r.answer.cause, !.report = @ \/ r.answer.report,
                !.fix = @ \/ r.answer.fix, !.error = IF r.answer.fix THEN "none" ELSE "analysis",
                !.completedAt = r.at]

\* Fault: howToFix leaves an earlier error in place.
Analyzed_KeepsError(inc, r) ==
    [inc EXCEPT !.state = IF r.working THEN "Open" ELSE @, !.cause = @ \/ r.answer.cause,
                !.report = @ \/ r.answer.report, !.fix = @ \/ r.answer.fix,
                !.error = IF r.answer.fix THEN @ ELSE "analysis", !.completedAt = r.at]

\* The merge patch of an analysis: only an incident read before its analysis becomes Open, and
\* error is cleared exactly when the answer has a howToFix.
Analyzed(inc, r) ==
    [inc EXCEPT !.state = IF r.working THEN "Open" ELSE @,
                !.cause = @ \/ r.answer.cause,
                !.report = @ \/ r.answer.report,
                !.fix = @ \/ r.answer.fix,
                !.error = IF r.answer.fix THEN "none" ELSE "analysis",
                !.completedAt = r.at]

\* Fault: one attempt too many.
AttemptsLeft_OneMore(r) == r.tries < WriteAttempts

AttemptsLeft(r) == r.tries + 1 < WriteAttempts

\* The patch, conditioned on the resourceVersion read; a 409 reads again, WriteAttempts times.
FinishWrite(p, i) ==
    /\ rca[p][i].pc = "writing"
    /\ LET r == rca[p][i]
       IN  \/ /\ Current(p, i)
              /\ Write(i, Analyzed(incidents[i], r))
              /\ SetRca(p, i, NoAnalysis)
              /\ UNCHANGED <<lost, faults>>
           \/ /\ ~Current(p, i)
              /\ AttemptsLeft(r)
              /\ SetRca(p, i, [r EXCEPT !.pc = "reading", !.tries = @ + 1])
              /\ UNCHANGED <<cluster, lost, faults>>
           \/ /\ ~Current(p, i)
              /\ ~AttemptsLeft(r)
              /\ SetRca(p, i, NoAnalysis)
              /\ lost' = lost \cup {i}
              /\ UNCHANGED <<cluster, faults>>
           \/ /\ Fails
              /\ SetRca(p, i, NoAnalysis)
              /\ lost' = lost \cup {i}
              /\ \/ Current(p, i) /\ Write(i, Analyzed(incidents[i], r))
                 \/ UNCHANGED cluster
    /\ UNCHANGED <<now, phase, sweep, lastFired, eval, slots, touches, crashes>>

-----------------------------------------------------------------------------
(* Everyone else. *)

Tick ==
    /\ now < MaxTime
    /\ now' = now + 1
    /\ UNCHANGED <<cluster, volatile, lost, budget>>

\* A state written by the incident controller or a human.
Moves(from, to) ==
    \E i \in Ids :
        /\ incidents[i].state \in from
        /\ Write(i, [incidents[i] EXCEPT !.state = to, !.resolvedAt = IF to = "Resolved" THEN now ELSE @])
        /\ UNCHANGED <<now, volatile, lost, budget>>

Close == Moves(States \ {"Absent", "Closed"}, "Closed")
Verify == Moves({"Analyzing", "Open"}, "Verifying")
Reopen == Moves({"Verifying"}, "Open")
Resolve == Moves({"Verifying"}, "Resolved")
Others == Close \/ Verify \/ Reopen \/ Resolve

\* A foreign write that bumps the resourceVersion and leaves the state alone.
Touch ==
    /\ touches < MaxTouches
    /\ touches' = touches + 1
    /\ \E i \in Ids : incidents[i].state # "Absent" /\ Write(i, incidents[i])
    /\ UNCHANGED <<now, volatile, lost, faults, crashes>>

Evaluates(p, a) == List(p, a) \/ Compare(p, a) \/ Covered(p, a) \/ Create(p, a) \/ Mark(p, a)
Analyses(p, i) == AcquireSlot(p, i) \/ Analyze(p, i) \/ FinishRead(p, i) \/ FinishWrite(p, i)
Recovers(p) == Start(p) \/ RecoverList(p) \/ RecoverPatch(p) \/ Serve(p)

Next ==
    \/ \E p \in Procs : Recovers(p) \/ Crash(p)
    \/ \E p \in Procs, a \in Alerts : Fire(p, a) \/ Evaluates(p, a)
    \/ \E p \in Procs, i \in Ids : Analyses(p, i)
    \/ Others \/ Touch \/ Tick

Spec == Init /\ [][Next]_vars

\* Every call of the writer returns or fails, an RCA's stream included, and the kubelet restarts
\* the process.  Nothing forces a firing, a crash, a foreign write or the clock.
Fairness ==
    /\ \A p \in Procs : WF_vars(Recovers(p))
    /\ \A p \in Procs, a \in Alerts : WF_vars(Evaluates(p, a))
    /\ \A p \in Procs, i \in Ids : WF_vars(Analyses(p, i))
FairSpec == Spec /\ Fairness

-----------------------------------------------------------------------------
(* Properties. *)

TypeOK ==
    /\ now \in Time
    /\ incidents \in [Ids -> Incident]
    /\ fresh \in [Procs -> SUBSET Ids]
    /\ phase \in [Procs -> {"down", "starting", "sweeping", "serving"}]
    /\ sweep \in [Procs -> SUBSET Ids]
    /\ lastFired \in [Procs -> [Alerts -> Time \cup {Unset}]]
    /\ eval \in [Procs -> [Alerts -> Evaluation]]
    /\ rca \in [Procs -> [Ids -> Analysis]]
    /\ slots \in [Procs -> 0 .. MaxConcurrentAnalyses]
    /\ lost \subseteq Ids
    /\ faults \in 0 .. MaxFaults
    /\ touches \in 0 .. MaxTouches
    /\ crashes \in 0 .. MaxCrashes

Running(p) == {i \in Ids : rca[p][i].pc = "running"}

\* At most MaxConcurrentAnalyses RCAs run at once in a process, whatever way they ended before.
RunningWithinLimit ==
    \A p \in Procs : Cardinality(Running(p)) <= MaxConcurrentAnalyses

InProgress(i) == incidents[i].state # "Absent" /\ analyzingOrUnset(incidents[i])

\* One problem, one RCA at a time: an alert never has two incidents in progress (pick's second
\* rule under the firing lock).
OneInProgressPerAlert ==
    \A i, j \in Ids : InProgress(i) /\ InProgress(j) /\ i[1] = j[1] => i = j

\* Someone will still write the incident: its RCA, the evaluation about to mark it, or a sweep.
Attended(i) ==
    \E p \in Procs :
        \/ rca[p][i].pc # "none"
        \/ eval[p][i[1]].pc = "marking" /\ eval[p][i[1]].target = i
        \/ phase[p] = "starting"
        \/ phase[p] = "sweeping" /\ i \in sweep[p]

Orphan(i) == InProgress(i) /\ ~Attended(i) /\ \E p \in Procs : phase[p] \in {"sweeping", "serving"}

\* An incident stays in progress with no RCA, once a process serves, only when an error line
\* said a write or the sweep of it was lost (Fire, RunAnalysis, RecoverInterrupted).
OrphansAreLogged == \A i \in Ids : Orphan(i) => i \in lost

\* The sweep at startup opens every incident a restart left Analyzing.
NoOrphans == \A i \in Ids : ~Orphan(i)

\* An incident in progress takes firings only while its RCA runs (holdsFirings): a failed write
\* loses its own firing, not the next one.
HoldsOnlyWhileRCARuns ==
    \A p \in Procs, a \in Alerts :
        eval[p][a].pc = "covered" => ~Orphan(eval[p][a].target)

\* error says why an incident has no howToFix, and is cleared when howToFix is written, whatever
\* sweeps and RCAs of several processes wrote it in whatever order.
ErrorIffNoScripts ==
    \A i \in Ids : incidents[i].completedAt # Unset => (incidents[i].fix <=> incidents[i].error = "none")

\* The latest incident before j, resolved before j's firing, was resolved at least Grace earlier:
\* rows from before the fix never open a new incident.
GraceRespected ==
    \A i, j \in Ids :
        /\ i[1] = j[1]
        /\ incidents[i].state = "Resolved" /\ incidents[j].state # "Absent"
        /\ Newer(j, i)
        /\ ~\E k \in alertIncidents(i[1]) : Newer(k, i) /\ Newer(j, k)
        /\ incidents[i].resolvedAt < j[2]
        => j[2] - incidents[i].resolvedAt >= Grace

\* An open incident without an analysis keeps its alert's firings for FailedAnalysisHold: no
\* other incident of the alert opens before.  (Counted from its creation: one moved to Verifying
\* during its RCA is held from there until completedAt is written.)
HoldRespected ==
    \A i, j \in Ids :
        /\ i[1] = j[1]
        /\ ~ended(incidents[i]) /\ incidents[i].state # "Absent" /\ ~Comparable(incidents[i])
        /\ incidents[j].state # "Absent" /\ Newer(j, i)
        => j[2] - incidents[i].created >= FailedAnalysisHold

MovesPastOpen ==
    \E i \in Ids : /\ incidents[i].state \in {"Open", "Verifying", "Resolved", "Closed"}
                   /\ incidents'[i].state # incidents[i].state
\* Once an incident is past Analyzing, only the controller and humans move its state.
OnlyOthersMovePastOpen == [][MovesPastOpen => Others]_vars

\* What the one status write that ends an incident's RCA left in it.
Outcome(inc) ==
    IF inc.completedAt = Unset THEN "none"
    ELSE IF inc.error = "interrupted" THEN "interrupted"
    ELSE IF inc.fix THEN "scripts" ELSE "noScripts"

\* The writer keeps the promise IncidentLifecycle states.
Lifecycle == INSTANCE IncidentLifecycle WITH
    AlertOf <- [i \in Ids |-> i[1]],
    state <- [i \in Ids |-> incidents[i].state],
    outcome <- [i \in Ids |-> Outcome(incidents[i])]
KeepsPromise == Lifecycle!Spec

\* Every incident gets its analysis, or the error a restart leaves: none stays in progress, unless
\* an error line said a write of it was lost.
LeavesAnalyzing == \A i \in Ids : InProgress(i) ~> ~InProgress(i) \/ i \in lost

=============================================================================
