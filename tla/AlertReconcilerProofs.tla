------------------------ MODULE AlertReconcilerProofs ------------------------
(***************************************************************************)
(* Proofs about the Alert controller, for any Alerts, any values of their  *)
(* specs and any number of moves, faults and crashes.  The inductive       *)
(* invariant IInv, below, ties what a pass holds to what HyperDX has:      *)
(* ids are never used again (Numbered), so an id of another Alert's is     *)
(* one of its name, the inherited one, or gone (RefsNamed); the tile a     *)
(* pass is about to make or use is nobody's (TileFree), because its list   *)
(* of tiles taken is of the alerts it has not since deleted; and what a    *)
(* deletion has gone past is gone (GoneSoFar).  OwnInv adds the same of    *)
(* dashboards as RefsNamed says of alerts (DashesNamed).                   *)
(***************************************************************************)
EXTENDS AlertReconciler, FiniteSetTheorems, WellFoundedInduction, TLAPS

\* The steps of a pass in which it knows the webhook's id.
Hooked == {"resetting", "clearing", "listing", "reading", "finalizing", "deletingShared",
           "ensuringTile", "ensuringAlert", "pushingWhere", "pushingFields"}
\* Those before Observe has a plan, and those of a deletion.
Early == {"idle", "connecting", "resetting", "clearing", "listing",
          "deletingAlert", "deletingDashboard", "removingFinalizer"}

\* The steps a deletion goes through.
Deletion == {"deletingAlert", "deletingDashboard", "removingFinalizer", "writing"}

\* What a pass may hold at each of its steps.
KnowsItsTargets(p) ==
    /\ p.pc \in Hooked => p.hook # None
    /\ p.drift \/ p.pc = "ensuringAlert" => p.dash # None
    /\ p.pc = "pushingFields" => p.drift
    /\ p.pc \in {"ensuringTile", "ensuringAlert"} => p.create
    /\ p.pc = "reading" => ~p.create
    /\ p.create => p.target = None
NoPlanYet(p) ==
    p.pc \in Early => /\ ~p.create /\ ~p.drift
                      /\ p.target = None /\ p.shared = None /\ p.dash = None /\ p.owned = {}
SparesTheOwned(p) == p.target \notin p.owned /\ p.shared \notin p.owned
DeletesWhatItRead(p) ==
    /\ p.base.deleting => p.pc \in Deletion
    /\ p.pc \in {"deletingAlert", "deletingDashboard"} => p.copy = p.base
    /\ p.pc = "deletingDashboard" => p.base.dash # None
    /\ p.pc = "removingFinalizer" => p.base.id = None /\ p.base.dash = None
PlanOK(p) == p \in Pass /\ KnowsItsTargets(p) /\ NoPlanYet(p) /\ SparesTheOwned(p) /\ DeletesWhatItRead(p)

\* Ids are numbered in the order they were made.
Numbered ==
    /\ made.alerts >= Legacy
    /\ \A i \in DOMAIN live : i <= made.alerts /\ live[i].dash <= made.dashboards
    /\ \A d \in DOMAIN dashboards : d <= made.dashboards

\* An id that an Alert n has, had or will have: an alert of its own name, the inherited one, or one gone.
Ref(id, n) == id <= made.alerts /\ (id \in DOMAIN live \ {Legacy} => live[id].name = n)
RefsNamed ==
    /\ \A n \in DOMAIN alerts : Ref(alerts[n].id, n)
    /\ \A n \in DOMAIN cache : Ref(cache[n].id, n)
    /\ Ref(pass.copy.id, pass.name) /\ Ref(pass.base.id, pass.name) /\ Ref(pass.target, pass.name)

\* The tile a pass is about to make or use is no other alert's.
TileFree ==
    /\ pass.create /\ pass.pc \in {"finalizing", "deletingShared", "ensuringTile"} =>
         \A i \in DOMAIN live : live[i].dash \in pass.taken \/ (i = pass.shared /\ ~At("ensuringTile"))
    /\ At("ensuringAlert") => \A i \in DOMAIN live : live[i].dash # pass.dash
    /\ pass.target \in DOMAIN live => live[pass.target].dash = pass.dash
    /\ pass.dash <= made.dashboards

\* What a deletion has gone past is gone, if no call failed.
GoneSoFar ==
    pass.base.deleting /\ faults = 0 =>
      /\ At("deletingDashboard") => pass.base.id \notin DOMAIN live
      /\ At("writing") =>
           /\ pass.copy.id = pass.base.id \/ pass.base.id \notin DOMAIN live
           /\ pass.copy.dash = pass.base.dash \/ pass.base.dash \notin DOMAIN dashboards

IInv ==
    /\ TypeOK /\ PlanOK(pass) /\ Numbered /\ RefsNamed /\ TileFree /\ GoneSoFar
    /\ OwnTile /\ OneAlertPerName

-----------------------------------------------------------------------------
(* What Observe and Update do to a pass. *)

\* Only its step and the phase it is to write.
Kept(q, p) ==
    /\ q \in Pass
    /\ q.name = p.name /\ q.base = p.base /\ q.hook = p.hook
    /\ q.create = p.create /\ q.target = p.target /\ q.drift = p.drift
    /\ q.shared = p.shared /\ q.taken = p.taken /\ q.dash = p.dash /\ q.owned = p.owned
    /\ q.copy.id = p.copy.id /\ q.copy.dash = p.copy.dash

LEMMA PhasedKept ==
    ASSUME NEW p \in Pass, NEW phase \in Phases
    PROVE  /\ Kept(Phased(p, phase), p) /\ Phased(p, phase).pc = p.pc
           /\ Phased(p, phase).copy.finalizer = p.copy.finalizer
           /\ Phased(p, phase).invalid = p.invalid /\ Phased(p, phase).where = p.where
  <1> DEFINE c == [p.copy EXCEPT !.phase = phase]
             q == [p EXCEPT !.copy = c]
  <1>1. p.copy \in Alert
    BY DEF Pass
  <1>2. c \in Alert /\ c.id = p.copy.id /\ c.dash = p.copy.dash /\ c.finalizer = p.copy.finalizer
    BY <1>1 DEF Alert
  <1> HIDE DEF c
  <1>3. /\ Kept(q, p) /\ q.pc = p.pc /\ q.copy.finalizer = p.copy.finalizer
        /\ q.invalid = p.invalid /\ q.where = p.where
    BY <1>2 DEF Pass, Kept
  <1> QED
    BY <1>3 DEF Phased, c

LEMMA AtKept ==
    ASSUME NEW p \in Pass, NEW pc \in PCs
    PROVE  LET q == [p EXCEPT !.pc = pc]
           IN  /\ Kept(q, p) /\ q.pc = pc
               /\ q.copy = p.copy /\ q.invalid = p.invalid /\ q.where = p.where
  BY DEF Pass, Kept

LEMMA WritingKept ==
    ASSUME NEW p \in Pass
    PROVE  Kept(Writing(p), p) /\ Writing(p).pc = "writing" /\ Writing(p).copy = p.copy
  BY AtKept DEF Writing, PCs

LEMMA KeptTwice ==
    ASSUME NEW p, NEW q, NEW r, Kept(q, p), Kept(r, q)
    PROVE  Kept(r, p)
  BY DEF Kept

\* Update pushes where before the alert fields, creates what Observe did not find, and deletes a
\* shared alert before either.
LEMMA PushKept ==
    ASSUME NEW p \in Pass
    PROVE  /\ Kept(Push(p), p)
           /\ Push(p).pc \in {"pushingWhere", "pushingFields", "writing"}
           /\ Push(p).pc = "pushingFields" => p.drift
  <1>1. CASE p.where
    BY <1>1, AtKept DEF Push, PCs
  <1>2. CASE ~p.where /\ p.drift
    BY <1>2, AtKept DEF Push, PCs
  <1>3. CASE ~p.where /\ ~p.drift
    <2> DEFINE q == Phased(p, "Synced")
    <2>1. Kept(q, p)
      BY PhasedKept DEF Phases
    <2>2. Kept(Writing(q), q) /\ Writing(q).pc = "writing"
      BY <2>1, WritingKept DEF Kept
    <2>3. Push(p) = Writing(q)
      BY <1>3 DEF Push
    <2> QED
      BY <2>1, <2>2, <2>3, KeptTwice
  <1> QED
    BY <1>1, <1>2, <1>3 DEF Pass

LEMMA CreateOrPushKept ==
    ASSUME NEW p \in Pass
    PROVE  /\ Kept(CreateOrPush(p), p)
           /\ CreateOrPush(p).pc \in {"ensuringTile", "pushingWhere", "pushingFields", "writing"}
           /\ CreateOrPush(p).pc = "pushingFields" => p.drift
           /\ CreateOrPush(p).pc = "ensuringTile" => p.create
  BY PushKept, AtKept DEF CreateOrPush, PCs

LEMMA UpdateKept ==
    ASSUME NEW p \in Pass
    PROVE  /\ Kept(Update(p), p)
           /\ Update(p).pc \in {"deletingShared", "ensuringTile", "pushingWhere", "pushingFields", "writing"}
           /\ Update(p).pc = "pushingFields" => p.drift
           /\ Update(p).pc = "ensuringTile" => p.create /\ p.shared = None
           /\ Update(p).pc = "deletingShared" => p.shared # None
  <1>1. CASE p.invalid
    <2> DEFINE q == Phased(p, "Invalid")
    <2>1. Kept(q, p)
      BY PhasedKept DEF Phases
    <2>2. Kept(Writing(q), q) /\ Writing(q).pc = "writing"
      BY <2>1, WritingKept DEF Kept
    <2>3. Update(p) = Writing(q)
      BY <1>1 DEF Update
    <2> QED
      BY <2>1, <2>2, <2>3, KeptTwice
  <1>2. CASE ~p.invalid /\ p.shared # None
    BY <1>2, AtKept DEF Update, PCs
  <1>3. CASE ~p.invalid /\ p.shared = None
    <2>1. Update(p) = CreateOrPush(p)
      BY <1>3 DEF Update
    <2> QED
      BY <1>3, <2>1, CreateOrPushKept
  <1> QED
    BY <1>1, <1>2, <1>3 DEF Pass

LEMMA ObservedKept ==
    ASSUME NEW p \in Pass
    PROVE  /\ Kept(Observed(p), p)
           /\ Observed(p).pc \in {"finalizing", "deletingShared", "ensuringTile", "pushingWhere",
                                  "pushingFields", "writing"}
           /\ Observed(p).pc = "pushingFields" => p.drift
           /\ Observed(p).pc = "ensuringTile" => p.create /\ p.shared = None
           /\ Observed(p).pc = "deletingShared" => p.shared # None
  <1> DEFINE q == IF Planned(p) THEN p ELSE Phased(p, "Synced")
  <1>1. Kept(q, p)
    <2>1. Kept(p, p)
      BY DEF Kept
    <2> QED
      BY <2>1, PhasedKept DEF Phases
  <1>2. q \in Pass /\ q.drift = p.drift /\ q.create = p.create /\ q.shared = p.shared
    BY <1>1 DEF Kept
  <1>3. Observed(p) \in {[q EXCEPT !.pc = "finalizing"], Update(q), Writing(q)}
    <2>1. q.copy.finalizer \in BOOLEAN
      BY <1>2 DEF Pass, Alert
    <2> HIDE DEF q
    <2>2. Observed(p) = CASE ~q.copy.finalizer -> [q EXCEPT !.pc = "finalizing"]
                          [] q.copy.finalizer /\ Planned(q) -> Update(q)
                          [] OTHER -> Writing(q)
      BY DEF Observed, q
    <2> QED
      BY <2>1, <2>2
  <1> HIDE DEF q
  <1>4. CASE Observed(p) = [q EXCEPT !.pc = "finalizing"]
    <2>1. Kept([q EXCEPT !.pc = "finalizing"], q) /\ [q EXCEPT !.pc = "finalizing"].pc = "finalizing"
      BY <1>2, AtKept DEF PCs
    <2> QED
      BY <1>1, <1>4, <2>1, KeptTwice
  <1>5. CASE Observed(p) = Update(q)
    BY <1>1, <1>2, <1>5, UpdateKept, KeptTwice
  <1>6. CASE Observed(p) = Writing(q)
    BY <1>1, <1>2, <1>6, WritingKept, KeptTwice
  <1> QED
    BY <1>3, <1>4, <1>5, <1>6

-----------------------------------------------------------------------------
(* What each call does to what HyperDX holds. *)

StoreInv == HyperDXTypeOK /\ Numbered /\ OwnTile /\ OneAlertPerName

Bounded == MaxAlerts \in Nat \ {0} /\ MaxDashboards \in Nat \ {0} /\ MaxHooks \in Nat \ {0}

LEMMA BoundsAreBounds == Bounded
  BY ReconcilerAssumption DEF ReconcilerAssumption, Bounded

\* Calls by which nothing changes hands: alerts and dashboards only go.
Shrinks ==
    /\ DOMAIN live' \subseteq DOMAIN live /\ \A i \in DOMAIN live' : live'[i] = live[i]
    /\ DOMAIN dashboards' \subseteq DOMAIN dashboards
    /\ \A d \in DOMAIN dashboards' : dashboards'[d] = dashboards[d]
    /\ made'.alerts = made.alerts /\ made'.dashboards = made.dashboards

LEMMA NothingShrinks ==
    ASSUME UNCHANGED hdx
    PROVE  Shrinks
  BY DEF hdx, Shrinks

LEMMA DeleteAlertShrinks ==
    ASSUME NEW i, DeleteAlert(i)
    PROVE  Shrinks /\ i \notin DOMAIN live' /\ DOMAIN live' = DOMAIN live \ {i} /\ hook' = hook /\ made' = made
  BY DEF DeleteAlert, Without, Shrinks

LEMMA DeleteDashboardShrinks ==
    ASSUME NEW d, DeleteDashboard(d)
    PROVE  Shrinks /\ d \notin DOMAIN dashboards' /\ hook' = hook /\ made' = made
  BY DEF DeleteDashboard, Without, Shrinks

LEMMA PostHookShrinks ==
    ASSUME HyperDXTypeOK, PostHook
    PROVE  /\ Shrinks /\ hook' \in HookIds
           /\ made' \in [alerts : 0 .. MaxAlerts, dashboards : 0 .. MaxDashboards, hooks : 0 .. MaxHooks]
  BY BoundsAreBounds DEF PostHook, Shrinks, HyperDXTypeOK, Bounded, HookIds

LEMMA StoreShrinks ==
    ASSUME StoreInv, Shrinks, hook' \in HookIds \cup {None},
           made' \in [alerts : 0 .. MaxAlerts, dashboards : 0 .. MaxDashboards, hooks : 0 .. MaxHooks]
    PROVE  StoreInv'
  <1>1. HyperDXTypeOK'
    BY DEF StoreInv, HyperDXTypeOK, Shrinks
  <1>2. Numbered'
    BY DEF StoreInv, Numbered, Shrinks
  <1>3. OwnTile'
    BY DEF StoreInv, OwnTile, Shrinks
  <1>4. OneAlertPerName'
    BY DEF StoreInv, OneAlertPerName, Shrinks
  <1> QED
    BY <1>1, <1>2, <1>3, <1>4 DEF StoreInv

\* A new alert of a name no other has, on a tile no other evaluates.
LEMMA StorePostAlert ==
    ASSUME StoreInv, NEW a \in LiveAlert, PostAlert(a), a.dash <= made.dashboards,
           \A i \in DOMAIN live : live[i].dash # a.dash, Named(a.name) = {}
    PROVE  /\ StoreInv'
           /\ made'.alerts = made.alerts + 1 /\ made'.dashboards = made.dashboards
           /\ made'.alerts \notin DOMAIN live /\ DOMAIN live' = DOMAIN live \cup {made'.alerts}
           /\ live'[made'.alerts] = a /\ \A i \in DOMAIN live : live'[i] = live[i]
  <1>1. /\ made \in [alerts : 0 .. MaxAlerts, dashboards : 0 .. MaxDashboards, hooks : 0 .. MaxHooks]
        /\ made.alerts < MaxAlerts /\ made' = [made EXCEPT !.alerts = @ + 1]
        /\ dashboards' = dashboards /\ hook' = hook
    BY DEF StoreInv, HyperDXTypeOK, PostAlert
  <1>2. /\ made' \in [alerts : 0 .. MaxAlerts, dashboards : 0 .. MaxDashboards, hooks : 0 .. MaxHooks]
        /\ made'.alerts = made.alerts + 1 /\ made'.dashboards = made.dashboards
        /\ made'.alerts \in AlertIds /\ made'.alerts \in Int /\ made.alerts \in Nat
    BY <1>1, BoundsAreBounds DEF Bounded, AlertIds
  <1>3. DOMAIN live \subseteq AlertIds /\ AlertIds \subseteq Nat
    BY DEF StoreInv, HyperDXTypeOK, AlertIds
  <1>4. made'.alerts \notin DOMAIN live
    BY <1>2, <1>3 DEF StoreInv, Numbered
  <1>5. /\ DOMAIN live' = DOMAIN live \cup {made'.alerts}
        /\ live'[made'.alerts] = a /\ \A i \in DOMAIN live : live'[i] = live[i]
    BY <1>4 DEF PostAlert, With
  <1>6. HyperDXTypeOK'
    BY <1>1, <1>2, <1>5 DEF StoreInv, HyperDXTypeOK
  <1>7. Numbered'
    <2>1. made'.alerts >= Legacy
      BY <1>2 DEF StoreInv, Numbered, Legacy
    <2>2. ASSUME NEW i \in DOMAIN live' PROVE i <= made'.alerts /\ live'[i].dash <= made'.dashboards
      <3>1. CASE i \in DOMAIN live
        <4>1. i \in Nat /\ i <= made.alerts /\ live[i].dash <= made.dashboards
          BY <1>3, <3>1 DEF StoreInv, Numbered
        <4> QED
          BY <1>2, <1>5, <3>1, <4>1
      <3>2. CASE i = made'.alerts
        BY <1>2, <1>5, <3>2
      <3> QED
        BY <1>5, <3>1, <3>2
    <2>3. \A d \in DOMAIN dashboards' : d <= made'.dashboards
      BY <1>1, <1>2 DEF StoreInv, Numbered
    <2> QED
      BY <2>1, <2>2, <2>3 DEF Numbered
  <1>8. OwnTile'
    BY <1>5 DEF StoreInv, OwnTile
  <1>9. OneAlertPerName'
    <2>1. \A i \in DOMAIN live : live[i].name # a.name
      BY DEF Named
    <2> QED
      BY <1>5, <2>1 DEF StoreInv, OneAlertPerName
  <1> QED
    BY <1>2, <1>4, <1>5, <1>6, <1>7, <1>8, <1>9 DEF StoreInv

\* An alert put on a tile no other evaluates, under the name it had unless it is the inherited one.
LEMMA StorePutAlert ==
    ASSUME StoreInv, NEW i \in DOMAIN live, NEW a \in LiveAlert, PutAlert(i, a),
           a.dash <= made.dashboards, \A j \in DOMAIN live \ {i} : live[j].dash # a.dash,
           i # Legacy => a.name = live[i].name
    PROVE  /\ StoreInv' /\ made' = made /\ DOMAIN live' = DOMAIN live
           /\ live'[i] = a /\ \A j \in DOMAIN live \ {i} : live'[j] = live[j]
  <1>1. /\ DOMAIN live' = DOMAIN live /\ live'[i] = a /\ \A j \in DOMAIN live \ {i} : live'[j] = live[j]
        /\ dashboards' = dashboards /\ hook' = hook /\ made' = made
    BY DEF PutAlert
  <1>2. HyperDXTypeOK'
    BY <1>1 DEF StoreInv, HyperDXTypeOK
  <1>3. Numbered'
    BY <1>1 DEF StoreInv, Numbered
  <1>4. OwnTile'
    BY <1>1 DEF StoreInv, OwnTile
  <1>5. OneAlertPerName'
    BY <1>1 DEF StoreInv, OneAlertPerName
  <1> QED
    BY <1>1, <1>2, <1>3, <1>4, <1>5 DEF StoreInv

LEMMA StorePostDashboard ==
    ASSUME StoreInv, NEW d \in Dashboard, PostDashboard(d)
    PROVE  /\ StoreInv' /\ live' = live /\ made'.alerts = made.alerts
           /\ made'.dashboards = made.dashboards + 1 /\ made'.dashboards \in DashboardIds
           /\ made'.dashboards \in DOMAIN dashboards' /\ dashboards'[made'.dashboards] = d
           /\ \A e \in DOMAIN dashboards' \ {made'.dashboards} :
                e \in DOMAIN dashboards /\ dashboards'[e] = dashboards[e]
  <1>1. /\ made \in [alerts : 0 .. MaxAlerts, dashboards : 0 .. MaxDashboards, hooks : 0 .. MaxHooks]
        /\ made.dashboards < MaxDashboards /\ made' = [made EXCEPT !.dashboards = @ + 1]
        /\ live' = live /\ hook' = hook
    BY DEF StoreInv, HyperDXTypeOK, PostDashboard
  <1>2. /\ made' \in [alerts : 0 .. MaxAlerts, dashboards : 0 .. MaxDashboards, hooks : 0 .. MaxHooks]
        /\ made'.dashboards = made.dashboards + 1 /\ made'.alerts = made.alerts
        /\ made'.dashboards \in DashboardIds /\ made'.dashboards \in Int /\ made.dashboards \in Nat
    BY <1>1, BoundsAreBounds DEF Bounded, DashboardIds
  <1>3. /\ DOMAIN dashboards' = DOMAIN dashboards \cup {made'.dashboards}
        /\ dashboards'[made'.dashboards] = d
        /\ \A e \in DOMAIN dashboards \ {made'.dashboards} : dashboards'[e] = dashboards[e]
    BY DEF PostDashboard, With
  <1>4. HyperDXTypeOK'
    BY <1>1, <1>2, <1>3 DEF StoreInv, HyperDXTypeOK
  <1>5. Numbered'
    <2>1. /\ \A i \in DOMAIN live : live[i].dash \in Int
          /\ \A e \in DOMAIN dashboards : e \in Int
      BY DEF StoreInv, HyperDXTypeOK, LiveAlert, DashboardIds
    <2> QED
      BY <1>1, <1>2, <1>3, <2>1 DEF StoreInv, Numbered
  <1>6. OwnTile' /\ OneAlertPerName'
    BY <1>1 DEF StoreInv, OwnTile, OneAlertPerName
  <1> QED
    BY <1>1, <1>2, <1>3, <1>4, <1>5, <1>6 DEF StoreInv

LEMMA StorePutDashboard ==
    ASSUME StoreInv, NEW i \in DOMAIN dashboards, NEW d \in Dashboard, PutDashboard(i, d)
    PROVE  StoreInv' /\ live' = live /\ made' = made
  <1>1. /\ DOMAIN dashboards' = DOMAIN dashboards /\ dashboards'[i] = d
        /\ \A e \in DOMAIN dashboards \ {i} : dashboards'[e] = dashboards[e]
        /\ live' = live /\ hook' = hook /\ made' = made
    BY DEF PutDashboard
  <1>2. HyperDXTypeOK'
    BY <1>1 DEF StoreInv, HyperDXTypeOK
  <1>3. Numbered' /\ OwnTile' /\ OneAlertPerName'
    BY <1>1 DEF StoreInv, Numbered, OwnTile, OneAlertPerName
  <1> QED
    BY <1>1, <1>2, <1>3 DEF StoreInv

\* The first of some ids is one of them.
LEMMA FirstIsOne ==
    ASSUME NEW S, S \subseteq Nat, S # {}
    PROVE  First(S) \in S
  <1> DEFINE R == {ss \in Nat \X Nat : ss[1] < ss[2]}
  <1>1. IsWellFoundedOn(R, Nat)
    BY NatLessThanWellFounded DEF OpToRel
  <1> HIDE DEF R
  <1>2. PICK i \in S : \A j \in S : <<j, i>> \notin R
    BY <1>1, WFMin
  <1>3. ASSUME NEW j \in S PROVE i <= j
    <2>1. i \in Nat /\ j \in Nat /\ <<j, i>> \notin R
      BY <1>2
    <2>2. <<j, i>> \in R <=> j < i
      BY <2>1 DEF R
    <2> QED
      BY <2>1, <2>2
  <1> QED
    BY <1>3 DEF First

-----------------------------------------------------------------------------
(* What a step leaves a pass with. *)

LEMMA IdlePlan == PlanOK(Idle) /\ Idle.copy.id = None /\ Idle.base.id = None
  <1>1. Nobody \in Alert /\ ~Nobody.deleting /\ Nobody.id = None
    BY ReconcilerAssumption DEF ReconcilerAssumption, Nobody, New, Alert, Phases
  <1> HIDE DEF Nobody
  <1>2. Idle \in Pass
    BY <1>1 DEF Idle, Pass, PCs
  <1>3. None \notin {}
    OBVIOUS
  <1> QED
    BY <1>1, <1>2 DEF Idle, PlanOK, KnowsItsTargets, NoPlanYet, SparesTheOwned, DeletesWhatItRead,
                      Hooked, Early, Deletion

\* The steps after Observe.
Later == {"finalizing", "deletingShared", "ensuringTile", "pushingWhere", "pushingFields", "writing"}

LEMMA PlanLater ==
    ASSUME NEW p, NEW q, Kept(q, p), p.hook # None, p.drift => p.dash # None,
           p.create => p.target = None, SparesTheOwned(p), ~p.base.deleting,
           q.pc \in Later, q.pc = "pushingFields" => p.drift, q.pc = "ensuringTile" => p.create
    PROVE  PlanOK(q)
  BY DEF Kept, PlanOK, KnowsItsTargets, NoPlanYet, SparesTheOwned, DeletesWhatItRead,
         Hooked, Early, Deletion, Later

\* A pass that ends keeps its plan.
Ended == Kept(pass', pass) /\ pass'.pc = "writing"

LEMMA PlanEnded ==
    ASSUME PlanOK(pass), Ended
    PROVE  PlanOK(pass')
  BY DEF Ended, Kept, PlanOK, KnowsItsTargets, NoPlanYet, SparesTheOwned, DeletesWhatItRead,
         Hooked, Early, Deletion

LEMMA WritingEnded ==
    ASSUME pass \in Pass, Step(Writing(pass))
    PROVE  Ended
  BY WritingKept DEF Step, Ended

LEMMA PhasedEnded ==
    ASSUME pass \in Pass, NEW phase \in Phases, Step(Writing(Phased(pass, phase)))
    PROVE  Ended
  <1> DEFINE q == Phased(pass, phase)
  <1>1. Kept(q, pass)
    BY PhasedKept
  <1>2. Kept(Writing(q), q) /\ Writing(q).pc = "writing"
    BY <1>1, WritingKept DEF Kept
  <1> QED
    BY <1>1, <1>2, KeptTwice DEF Ended, Step

LEMMA FailedEnds ==
    ASSUME pass \in Pass, FailedPass \/ DriftedPass
    PROVE  Ended
  <1>1. pass.copy.phase \in Phases /\ "Error" \in Phases /\ "SpecDrift" \in Phases
    BY DEF Pass, Alert, Phases
  <1> QED
    BY <1>1, PhasedEnded DEF FailedPass, DriftedPass

\* A pass in one of the steps that know the webhook is of an Alert that is not being deleted.
LEMMA PlanFacts ==
    ASSUME PlanOK(pass)
    PROVE  /\ pass \in Pass
           /\ pass.pc \in Hooked => pass.hook # None /\ ~pass.base.deleting
           /\ pass.drift => pass.dash # None
           /\ pass.create => pass.target = None
           /\ SparesTheOwned(pass)
  BY DEF PlanOK, KnowsItsTargets, DeletesWhatItRead, Hooked, Deletion

-----------------------------------------------------------------------------
(* release and find. *)

\* The types of what the API server and the informer hold.
ClusterOK ==
    /\ DOMAIN alerts \subseteq Names /\ \A n \in DOMAIN alerts : alerts[n] \in Alert
    /\ DOMAIN cache \subseteq Names /\ \A n \in DOMAIN cache : cache[n] \in Alert
    /\ hookCache \in HookIds \cup {None}
    /\ moves \in 0 .. MaxMoves /\ faults \in 0 .. MaxFaults /\ crashes \in 0 .. MaxCrashes

\* An Alert other than the pass's that claims an alert makes it shared.
LEMMA TwoClaimants ==
    ASSUME ClusterOK, NEW n, NEW id, NEW o \in Claimants(n, id), o # n
    PROVE  ~(Cardinality(Claimants(n, id)) < 2)
  <1> DEFINE C == Claimants(n, id)
  <1>1. IsFiniteSet(Names \cup {n})
    BY ReconcilerAssumption, FS_AddElement DEF ReconcilerAssumption
  <1>2. C \in SUBSET (Names \cup {n})
    BY DEF Claimants, ClusterOK
  <1>3. IsFiniteSet(C) /\ Cardinality(C) \in Nat
    BY <1>1, <1>2, FS_Subset, FS_CardinalityType
  <1>4. IsFiniteSet({o}) /\ Cardinality({o}) = 1
    BY FS_Singleton
  <1>5. Cardinality({o} \cup {n}) = 2
    BY <1>4, FS_AddElement
  <1>6. {o} \cup {n} \in SUBSET C
    BY DEF Claimants
  <1>7. Cardinality({o} \cup {n}) <= Cardinality(C)
    <2> HIDE DEF C
    <2> QED
      BY <1>3, <1>6, FS_Subset
  <1> QED
    BY <1>3, <1>5, <1>7

LEMMA ResetAlert ==
    ASSUME NEW a \in Alert
    PROVE  Reset(a) \in Alert /\ Reset(a).id = None /\ Reset(a).dash = a.dash
  BY DEF Alert, Reset, Phases, None

\* A pass that has released, or need not, spares the alerts it saw to be another's.
LEMMA ReleaseSpares ==
    ASSUME ClusterOK, HyperDXTypeOK, NEW p \in Pass,
           p.name = pass.name, p.owned = Owned, p.shared = None
    PROVE  LET r == Release(p)
           IN  /\ r \in Pass
               /\ r.pc = p.pc /\ r.name = p.name /\ r.base = p.base /\ r.hook = p.hook /\ r.dash = p.dash
               /\ r.create = p.create /\ r.target = p.target /\ r.drift = p.drift /\ r.owned = p.owned
               /\ r.copy.id \in {p.copy.id, None} /\ r.copy.id \notin r.owned /\ r.shared \notin r.owned
               /\ r.copy.dash = p.copy.dash
               /\ r.shared = None \/ (r.shared = p.copy.id /\ live[r.shared].name # p.name)
  <1> DEFINE id == p.copy.id
             claimants == Claimants(p.name, id)
             named == IF id \in DOMAIN live THEN live[id].name ELSE Display
             c == Reset(p.copy)
             s == IF id \in DOMAIN live /\ named \notin claimants THEN id ELSE None
             q == [p EXCEPT !.copy = c, !.shared = s]
  <1>1. Owned \subseteq DOMAIN live /\ None \notin DOMAIN live /\ DOMAIN live \subseteq AlertIds
    BY DEF Owned, HyperDXTypeOK, AlertIds, None
  <1>2. id \in Owned => /\ named # p.name /\ named \in claimants /\ id \in DOMAIN live
    BY DEF Owned, Claimants
  <1>3. CASE id = None \/ Cardinality(claimants) < 2 \/ named = p.name
    <2>1. Release(p) = p
      BY <1>3 DEF Release
    <2>2. id \notin Owned
      <3>1. CASE id = None
        BY <1>1, <3>1
      <3>2. CASE Cardinality(claimants) < 2
        BY <1>2, <3>2, TwoClaimants
      <3>3. CASE named = p.name
        BY <1>2, <3>3
      <3> QED
        BY <1>3, <3>1, <3>2, <3>3
    <2> QED
      BY <1>1, <2>1, <2>2
  <1>4. CASE ~(id = None \/ Cardinality(claimants) < 2 \/ named = p.name)
    <2>1. Release(p) = q
      BY <1>4 DEF Release
    <2>2. c \in Alert /\ c.id = None /\ c.dash = p.copy.dash
      BY ResetAlert DEF Pass
    <2>3. /\ s \in AlertIds \cup {None} /\ s \notin Owned
          /\ s = None \/ (s = id /\ live[s].name # p.name)
      BY <1>1, <1>2, <1>4
    <2> HIDE DEF c, s
    <2>4. /\ q \in Pass /\ q.copy = c /\ q.shared = s
          /\ q.pc = p.pc /\ q.name = p.name /\ q.base = p.base /\ q.hook = p.hook /\ q.dash = p.dash
          /\ q.create = p.create /\ q.target = p.target /\ q.drift = p.drift /\ q.owned = p.owned
      BY <2>2, <2>3 DEF Pass
    <2> QED
      BY <1>1, <2>1, <2>2, <2>3, <2>4
  <1> QED
    BY <1>3, <1>4

\* What a plan is about: an alert to update and its tile, or none and a tile of its own.
Found(q) ==
    /\ q.pc # "ensuringAlert"
    /\ q.pc = "ensuringTile" => q.shared = None
    /\ q.copy.id \in {pass.copy.id, q.target, None} /\ q.copy.dash \in {pass.copy.dash, q.dash}
    /\ q.shared \in {pass.copy.id, None}
    /\ q.target # None =>
         /\ q.target \in DOMAIN live /\ live[q.target].dash = q.dash
         /\ q.target = pass.copy.id \/ live[q.target].name = pass.name
    /\ q.dash \in DashboardIds \cup {None}
    /\ q.target = None => q.dash = None
    /\ q.create => /\ \A i \in DOMAIN live : i = q.shared \/ live[i].dash \in q.taken
                   /\ Named(pass.name) = {}

LEMMA FindFacts ==
    ASSUME HyperDXTypeOK, NEW r \in Pass, r.pc = "listing", r.name = pass.name, r.hook # None,
           ~r.base.deleting, ~r.create, ~r.drift, r.target = None, r.dash = None,
           r.owned = Owned, r.copy.id \in {pass.copy.id, None},
           r.copy.id \notin r.owned, r.shared \notin r.owned, r.copy.dash = pass.copy.dash,
           r.shared = None \/ (r.shared = pass.copy.id /\ live[r.shared].name # r.name)
    PROVE  LET q == Find(r)
           IN  PlanOK(q) /\ Found(q) /\ q.name = r.name /\ q.base = r.base
  <1> DEFINE others == DOMAIN live \ {r.shared}
             named == Named(r.name) \ {r.shared}
             found == IF r.copy.id \in others THEN {r.copy.id} ELSE named
  <1>1. /\ DOMAIN live \subseteq AlertIds /\ AlertIds \subseteq Nat /\ None \notin AlertIds
        /\ \A i \in DOMAIN live : live[i] \in LiveAlert
        /\ None \notin DashboardIds
    BY DEF HyperDXTypeOK, AlertIds, DashboardIds, None
  <1>2. CASE found = {}
    <2> DEFINE taken == {live[i].dash : i \in others}
               p == [r EXCEPT !.create = TRUE, !.taken = taken]
    <2>1. Find(r) = Observed(p)
      BY <1>2 DEF Find, Lookup
    <2>2. taken \in SUBSET DashboardIds /\ \A i \in DOMAIN live : i = r.shared \/ live[i].dash \in taken
      BY <1>1 DEF LiveAlert
    <2>8. Named(pass.name) = {}
      BY <1>1, <1>2 DEF Named
    <2> HIDE DEF taken
    <2>3. /\ p \in Pass /\ p.create /\ p.taken = taken /\ p.name = r.name /\ p.base = r.base
          /\ p.hook = r.hook /\ p.drift = r.drift /\ p.target = None /\ p.dash = None
          /\ p.shared = r.shared /\ p.owned = r.owned /\ p.copy = r.copy
      BY <2>2 DEF Pass
    <2> HIDE DEF p
    <2>4. Kept(Observed(p), p) /\ Observed(p).pc \in Later
          /\ (Observed(p).pc = "pushingFields" => p.drift)
          /\ (Observed(p).pc = "ensuringTile" => p.create /\ p.shared = None)
      BY <2>3, ObservedKept DEF Later
    <2>5. SparesTheOwned(p)
      BY <1>1, <2>3 DEF SparesTheOwned, Owned
    <2>6. PlanOK(Observed(p))
      BY <2>3, <2>4, <2>5, PlanLater
    <2>7. Found(Observed(p))
      <3> DEFINE q == Observed(p)
      <3>1. q.pc # "ensuringAlert"
        BY <2>4 DEF Later
      <3>3. q.pc = "ensuringTile" => q.shared = None
        <4>1. q.shared = p.shared
          BY <2>4 DEF Kept
        <4> QED
          BY <2>4, <4>1
      <3>2. /\ q.copy.id = r.copy.id /\ q.target = None /\ q.dash = None
            /\ q.shared = r.shared /\ q.taken = taken /\ q.copy.dash = r.copy.dash
        BY <2>3, <2>4 DEF Kept
      <3> HIDE DEF q
      <3>5. /\ q.copy.id \in {pass.copy.id, q.target, None} /\ q.copy.dash \in {pass.copy.dash, q.dash}
            /\ q.shared \in {pass.copy.id, None}
        BY <3>2
      <3>6. q.create => /\ \A i \in DOMAIN live : i = q.shared \/ live[i].dash \in q.taken
                        /\ Named(pass.name) = {}
        BY <2>2, <2>8, <3>2
      <3>4. Found(q)
        BY <3>1, <3>2, <3>3, <3>5, <3>6 DEF Found
      <3> QED
        BY <3>4 DEF q
    <2> QED
      BY <2>1, <2>3, <2>4, <2>6, <2>7 DEF Kept
  <1>3. CASE found # {}
    <2> DEFINE i == First(found)
               c == [r.copy EXCEPT !.id = i, !.dash = live[i].dash]
               d == live[i].bound # r.copy.bound \/ live[i].name # r.name
               q == [r EXCEPT !.pc = "reading", !.target = i, !.dash = live[i].dash, !.copy = c, !.drift = d]
    <2>1. Find(r) = Mirror(r, i)
      BY <1>3 DEF Find, Lookup
    <2>2. found \subseteq DOMAIN live
      BY DEF Named
    <2>3. i \in found
      BY <1>1, <1>3, <2>2, FirstIsOne
    <2> HIDE DEF i
    <2>4. i \in DOMAIN live /\ (i = r.copy.id \/ live[i].name = r.name)
      BY <2>2, <2>3 DEF Named
    <2>5. i \notin Owned
      BY <2>4 DEF Owned
    <2>6. i \in AlertIds /\ live[i].dash \in DashboardIds /\ live[i].dash # None /\ i # None
      BY <1>1, <2>4 DEF LiveAlert
    <2>7. Mirror(r, i) = q
      BY DEF Mirror, Pass
    <2>8. c \in Alert /\ c.id = i /\ c.dash = live[i].dash /\ d \in BOOLEAN
      BY <2>6 DEF Pass, Alert
    <2> HIDE DEF c, d
    <2>9. /\ q \in Pass /\ q.pc = "reading" /\ q.target = i /\ q.dash = live[i].dash /\ q.copy = c
          /\ q.name = r.name /\ q.base = r.base /\ q.hook = r.hook /\ q.create = r.create
          /\ q.owned = r.owned /\ q.shared = r.shared
      BY <2>6, <2>8 DEF Pass, PCs
    <2> HIDE DEF q
    <2>10. PlanOK(q)
      BY <2>5, <2>6, <2>9 DEF PlanOK, KnowsItsTargets, NoPlanYet, SparesTheOwned, DeletesWhatItRead,
                              Hooked, Early, Deletion
    <2>11. Found(q)
      BY <2>4, <2>6, <2>8, <2>9 DEF Found
    <2> QED
      BY <2>1, <2>7, <2>9, <2>10, <2>11
  <1> QED
    BY <1>2, <1>3

LEMMA ListFacts ==
    ASSUME ClusterOK, HyperDXTypeOK, PlanOK(pass), At("listing")
    PROVE  LET q == Find(Release([pass EXCEPT !.owned = Owned]))
           IN  PlanOK(q) /\ Found(q) /\ q.name = pass.name /\ q.base = pass.base
  <1> DEFINE p == [pass EXCEPT !.owned = Owned]
             r == Release(p)
  <1>1. /\ pass \in Pass /\ pass.pc = "listing" /\ pass.hook # None /\ ~pass.base.deleting
        /\ ~pass.create /\ ~pass.drift /\ pass.target = None /\ pass.shared = None /\ pass.dash = None
    BY PlanFacts DEF At, Hooked, PlanOK, NoPlanYet, Early
  <1>2. Owned \in SUBSET AlertIds
    BY DEF Owned, HyperDXTypeOK
  <1>3. /\ p \in Pass /\ p.owned = Owned /\ p.pc = "listing" /\ p.name = pass.name /\ p.base = pass.base
        /\ p.hook = pass.hook /\ p.create = pass.create /\ p.drift = pass.drift /\ p.target = pass.target
        /\ p.shared = pass.shared /\ p.dash = pass.dash /\ p.copy = pass.copy
    BY <1>1, <1>2 DEF Pass
  <1> HIDE DEF p
  <1>4. /\ r \in Pass
        /\ r.pc = p.pc /\ r.name = p.name /\ r.base = p.base /\ r.hook = p.hook /\ r.dash = p.dash
        /\ r.create = p.create /\ r.target = p.target /\ r.drift = p.drift /\ r.owned = p.owned
        /\ r.copy.id \in {p.copy.id, None} /\ r.copy.id \notin r.owned /\ r.shared \notin r.owned
        /\ r.copy.dash = p.copy.dash
        /\ r.shared = None \/ (r.shared = p.copy.id /\ live[r.shared].name # p.name)
    BY <1>1, <1>3, ReleaseSpares
  <1> HIDE DEF r
  <1>5. PlanOK(Find(r)) /\ Found(Find(r)) /\ Find(r).name = r.name /\ Find(r).base = r.base
    BY <1>1, <1>3, <1>4, FindFacts
  <1> QED
    BY <1>3, <1>4, <1>5 DEF p, r

-----------------------------------------------------------------------------
(* Every step leaves a pass with what it needs: the plan is sound. *)

LEMMA BeginPlan ==
    ASSUME ClusterOK, NEW n \in Names, Begin(n)
    PROVE  /\ PlanOK(pass') /\ n \in DOMAIN cache
           /\ pass'.name = n /\ pass'.copy = cache[n] /\ pass'.base = cache[n]
           /\ pass'.pc \in Early /\ (pass'.pc = "deletingDashboard" => pass'.base.id = None)
  <1> DEFINE c == cache[n]
             pc == CASE c.deleting /\ ~Exists(c) -> "removingFinalizer"
                     [] c.deleting /\ Exists(c) /\ c.id # None -> "deletingAlert"
                     [] c.deleting /\ Exists(c) /\ c.id = None -> "deletingDashboard"
                     [] ~c.deleting /\ hookCache = None -> "connecting"
                     [] OTHER -> "listing"
             q == [Idle EXCEPT !.name = n, !.copy = c, !.base = c, !.hook = hookCache, !.pc = pc]
  <1>1. c \in Alert /\ c.deleting \in BOOLEAN /\ hookCache \in HookIds \cup {None} /\ n \in DOMAIN cache
    BY DEF Begin, ClusterOK, Alert
  <1>2. /\ pc \in {"removingFinalizer", "deletingAlert", "deletingDashboard", "connecting", "listing"}
        /\ c.deleting => pc \in {"removingFinalizer", "deletingAlert", "deletingDashboard"}
        /\ pc = "removingFinalizer" => c.id = None /\ c.dash = None
        /\ pc = "deletingDashboard" => c.id = None /\ c.dash # None
        /\ pc = "listing" => hookCache # None
    BY <1>1 DEF Exists
  <1>3. pass' = q
    BY DEF Begin, Step
  <1> HIDE DEF c, pc
  <1>4. Idle \in Pass
    BY IdlePlan DEF PlanOK
  <1>5. /\ q \in Pass /\ q.name = n /\ q.copy = c /\ q.base = c /\ q.hook = hookCache /\ q.pc = pc
        /\ ~q.create /\ ~q.drift /\ q.target = None /\ q.shared = None /\ q.dash = None /\ q.owned = {}
    <2>3. pc \in PCs /\ n \in Names \cup {Display}
      BY <1>2 DEF PCs
    <2>1. q \in Pass /\ q.name = n /\ q.copy = c /\ q.base = c /\ q.hook = hookCache /\ q.pc = pc
      BY <1>1, <1>4, <2>3 DEF Pass
    <2>2. ~q.create /\ ~q.drift /\ q.target = None /\ q.shared = None /\ q.dash = None /\ q.owned = {}
      BY DEF Idle
    <2> QED
      BY <2>1, <2>2
  <1> HIDE DEF q
  <1>6. PlanOK(q)
    BY <1>2, <1>5 DEF PlanOK, KnowsItsTargets, NoPlanYet, SparesTheOwned, DeletesWhatItRead,
                      Hooked, Early, Deletion
  <1> QED
    BY <1>1, <1>2, <1>3, <1>5, <1>6 DEF c, Early

\* A reset changes the webhook and the copy of a pass, not its plan.
Resets(q) ==
    /\ q \in Pass
    /\ q.pc \in {"resetting", "clearing", "listing"} /\ q.hook # None
    /\ q.name = pass.name /\ q.base = pass.base /\ q.create = pass.create /\ q.target = pass.target
    /\ q.drift = pass.drift /\ q.shared = pass.shared /\ q.dash = pass.dash /\ q.owned = pass.owned
    /\ q.copy.id \in {pass.copy.id, None} /\ q.copy.dash = pass.copy.dash

LEMMA ResetsPlan ==
    ASSUME PlanOK(pass), NEW q, Resets(q), pass.pc \in {"connecting", "resetting", "clearing"}
    PROVE  PlanOK(q)
  BY DEF Resets, PlanOK, KnowsItsTargets, NoPlanYet, SparesTheOwned, DeletesWhatItRead,
         Hooked, Early, Deletion

LEMMA ResetSteps ==
    ASSUME HyperDXTypeOK, ClusterOK, PlanOK(pass),
           Connect \/ ResetList \/ ResetDelete \/ ResetPatch \/ ResetDone
    PROVE  pass' = Idle \/ Resets(pass')
  <1>1. pass \in Pass /\ pass.copy \in Alert
    BY DEF PlanOK, Pass
  <1>2. CASE Connect
    <2>1. CASE Step(Idle)
      BY <2>1 DEF Step
    <2>2. ASSUME NEW h \in HookIds, NEW pc \in {"listing", "resetting"},
                 Step([pass EXCEPT !.pc = pc, !.hook = h])
          PROVE  Resets(pass')
      <3>1. h # None
        BY DEF HookIds, None
      <3> QED
        BY <1>1, <2>2, <3>1 DEF Step, Resets, Pass, PCs
    <2>3. hook \in HookIds \cup {None} /\ (PostHook => hook' \in HookIds)
      BY PostHookShrinks DEF HyperDXTypeOK
    <2> QED
      BY <1>2, <2>1, <2>2, <2>3 DEF Connect
  <1>3. CASE ResetList
    <2> DEFINE known == [cache EXCEPT ![pass.name] = pass.copy]
               active == {o \in DOMAIN known : ~known[o].deleting}
               managed == {known[o].id : o \in active} \cap DOMAIN live
    <2>1. active \in SUBSET Names /\ managed \in SUBSET AlertIds
      BY DEF ClusterOK, HyperDXTypeOK
    <2>2. pass' = [pass EXCEPT !.pc = "clearing", !.active = active, !.managed = managed] \/ pass' = Idle
      BY <1>3 DEF ResetList, Step
    <2>3. pass.hook # None
      BY <1>3, PlanFacts DEF ResetList, At, Hooked
    <2> HIDE DEF active, managed
    <2> DEFINE q == [pass EXCEPT !.pc = "clearing", !.active = active, !.managed = managed]
    <2>4. "clearing" \in PCs
      BY DEF PCs
    <2>5. Resets(q)
      BY <1>1, <2>1, <2>3, <2>4 DEF Resets, Pass
    <2> QED
      BY <2>2, <2>5
  <1>4. CASE ResetDelete
    <2>1. PICK i \in pass.managed : pass' = [pass EXCEPT !.managed = @ \ {i}]
      BY <1>4 DEF ResetDelete, Step
    <2>2. pass.hook # None /\ pass.pc = "clearing"
      BY <1>4, PlanFacts DEF ResetDelete, At, Hooked
    <2> QED
      BY <1>1, <2>1, <2>2 DEF Resets, Pass, PCs
  <1>5. CASE ResetPatch
    <2>1. PICK o \in pass.active :
            \/ pass' = [[pass EXCEPT !.active = @ \ {o}] EXCEPT !.copy = Reset(@)]
            \/ pass' = [pass EXCEPT !.active = @ \ {o}]
            \/ pass' = Idle
      BY <1>5 DEF ResetPatch, Step
    <2>2. pass.hook # None /\ pass.pc = "clearing"
      BY <1>5, PlanFacts DEF ResetPatch, At, Hooked
    <2>3. Reset(pass.copy) \in Alert /\ Reset(pass.copy).id = None /\ Reset(pass.copy).dash = pass.copy.dash
      BY <1>1, ResetAlert
    <2>4. CASE pass' = [[pass EXCEPT !.active = @ \ {o}] EXCEPT !.copy = Reset(@)]
      <3> DEFINE c == Reset(pass.copy)
      <3>1. pass' = [pass EXCEPT !.active = @ \ {o}, !.copy = c]
        BY <1>1, <2>4 DEF Pass
      <3> HIDE DEF c
      <3>2. c \in Alert /\ c.id = None /\ c.dash = pass.copy.dash
        BY <2>3 DEF c
      <3> DEFINE s == pass.active \ {o}
      <3>3. pass' = [pass EXCEPT !.active = s, !.copy = c] /\ s \in SUBSET Names
        BY <1>1, <3>1 DEF Pass
      <3> HIDE DEF s
      <3> QED
        BY <1>1, <2>2, <3>2, <3>3 DEF Resets, Pass
    <2>5. CASE pass' = [pass EXCEPT !.active = @ \ {o}]
      BY <1>1, <2>2, <2>5 DEF Resets, Pass, PCs
    <2> QED
      BY <2>1, <2>4, <2>5
  <1>6. CASE ResetDone
    <2>1. pass.hook # None /\ pass' = [pass EXCEPT !.pc = "listing"]
      BY <1>6, PlanFacts DEF ResetDone, Step, At, Hooked
    <2> QED
      BY <1>1, <2>1 DEF Resets, Pass, PCs
  <1> QED
    BY <1>2, <1>3, <1>4, <1>5, <1>6

\* A step of Observe or Update that makes nothing keeps the plan it has.
Proceeds(q) ==
    /\ q \in Pass
    /\ q.name = pass.name /\ q.hook = pass.hook /\ q.create = pass.create /\ q.target = pass.target
    /\ q.shared = pass.shared /\ q.taken = pass.taken /\ q.dash = pass.dash /\ q.owned = pass.owned
    /\ q.base.deleting = pass.base.deleting /\ q.base.id = pass.base.id /\ q.base.dash = pass.base.dash
    /\ q.copy.id \in {pass.copy.id, pass.base.id} /\ q.copy.dash \in {pass.copy.dash, pass.base.dash}
    /\ q.drift => pass.drift
    /\ q.pc \in Later /\ (q.pc = "pushingFields" => q.drift)
    /\ q.pc = "ensuringTile" => q.create /\ (q.shared = None \/ q.shared \notin DOMAIN live')
    /\ q.pc = "finalizing" => pass.pc \in {"listing", "reading"}
    /\ q.pc \in {"deletingShared", "ensuringTile"} =>
         pass.pc \in {"listing", "reading", "finalizing", "deletingShared"}

LEMMA ProceedsPlan ==
    ASSUME PlanOK(pass), NEW q, Proceeds(q), pass.pc \in Hooked
    PROVE  PlanOK(q)
  BY DEF Proceeds, PlanOK, KnowsItsTargets, NoPlanYet, SparesTheOwned, DeletesWhatItRead,
         Hooked, Early, Deletion, Later

LEMMA EndedProceeds ==
    ASSUME Ended
    PROVE  Proceeds(pass')
  BY DEF Ended, Kept, Proceeds, Later

\* What Observe and Update make of a pass whose fields but those kept have changed.
LEMMA ObservedProceeds ==
    ASSUME NEW p \in Pass, Kept(p, pass), pass.pc \in {"listing", "reading"}
    PROVE  Proceeds(Observed(p))
  <1> DEFINE q == Observed(p)
  <1>1. /\ Kept(q, p) /\ q.pc \in Later /\ (q.pc = "pushingFields" => p.drift)
        /\ (q.pc = "ensuringTile" => p.create /\ p.shared = None)
    BY ObservedKept DEF Later
  <1>2. Kept(q, pass)
    BY <1>1, KeptTwice
  <1> HIDE DEF q
  <1>3. Proceeds(q)
    BY <1>1, <1>2 DEF Kept, Proceeds
  <1> QED
    BY <1>3 DEF q

LEMMA RefuseProceeds ==
    ASSUME PlanOK(pass), Refuse
    PROVE  Proceeds(pass')
  <1> DEFINE p == [pass EXCEPT !.invalid = TRUE]
  <1>1. pass \in Pass /\ pass.pc = "listing"
    BY DEF PlanOK, Refuse, At
  <1>2. pass' = Writing(pass) \/ pass' = Observed(p)
    BY DEF Refuse, Step
  <1>3. p \in Pass /\ Kept(p, pass)
    BY <1>1 DEF Pass, Kept
  <1> HIDE DEF p
  <1> QED
    BY <1>1, <1>2, <1>3, WritingEnded, EndedProceeds, ObservedProceeds DEF Step

LEMMA ReadTileProceeds ==
    ASSUME PlanOK(pass), ReadTile
    PROVE  Proceeds(pass')
  <1> DEFINE w == /\ pass.dash \in DOMAIN dashboards
                  /\ dashboards[pass.dash].where # pass.copy.where
             p == [pass EXCEPT !.where = w]
  <1>1. pass \in Pass /\ pass.pc = "reading" /\ w \in BOOLEAN
    BY DEF PlanOK, ReadTile, At
  <1>2. pass' = Observed(p) \/ DriftedPass
    BY DEF ReadTile, Step
  <1> HIDE DEF w
  <1>3. p \in Pass /\ Kept(p, pass)
    BY <1>1 DEF Pass, Kept
  <1> HIDE DEF p
  <1> QED
    BY <1>1, <1>2, <1>3, FailedEnds, EndedProceeds, ObservedProceeds

LEMMA AddFinalizerProceeds ==
    ASSUME PlanOK(pass), AddFinalizer
    PROVE  pass' = Idle \/ Proceeds(pass')
  <1> DEFINE g == [pass.base EXCEPT !.finalizer = TRUE]
             q == [pass EXCEPT !.copy = g, !.base = g]
  <1>1. pass \in Pass /\ pass.base \in Alert /\ pass.pc = "finalizing"
    BY DEF PlanOK, AddFinalizer, At, Pass
  <1>2. g \in Alert /\ g.id = pass.base.id /\ g.dash = pass.base.dash /\ g.deleting = pass.base.deleting
    BY <1>1 DEF Alert
  <1>3. pass' \in {Update(q), Writing(q), Idle}
    BY DEF AddFinalizer, Step
  <1> HIDE DEF g
  <1>4. /\ q \in Pass /\ q.copy = g /\ q.base = g
        /\ q.name = pass.name /\ q.hook = pass.hook /\ q.create = pass.create /\ q.target = pass.target
        /\ q.shared = pass.shared /\ q.taken = pass.taken /\ q.dash = pass.dash /\ q.owned = pass.owned
        /\ q.drift = pass.drift
    BY <1>1, <1>2 DEF Pass
  <1> HIDE DEF q
  <1>5. CASE pass' = Update(q)
    <2>1. /\ Kept(pass', q) /\ pass'.pc \in Later \ {"finalizing"}
          /\ (pass'.pc = "pushingFields" => q.drift)
          /\ (pass'.pc = "ensuringTile" => q.create /\ q.shared = None)
      BY <1>4, <1>5, UpdateKept DEF Later
    <2> QED
      BY <1>1, <1>2, <1>4, <2>1 DEF Kept, Proceeds
  <1>6. CASE pass' = Writing(q)
    <2>1. Kept(pass', q) /\ pass'.pc = "writing"
      BY <1>4, <1>6, WritingKept
    <2> QED
      BY <1>1, <1>2, <1>4, <2>1 DEF Kept, Proceeds, Later
  <1> QED
    BY <1>3, <1>5, <1>6

LEMMA DeleteSharedProceeds ==
    ASSUME PlanOK(pass), DeleteShared
    PROVE  Proceeds(pass')
  <1>1. pass \in Pass /\ pass.pc = "deletingShared"
    BY DEF PlanOK, DeleteShared, At
  <1>2. (pass' = CreateOrPush(pass) /\ DeleteAlert(pass.shared)) \/ Step(Writing(pass))
    BY DEF DeleteShared, Step
  <1>3. CASE pass' = CreateOrPush(pass) /\ DeleteAlert(pass.shared)
    <2>1. /\ Kept(pass', pass) /\ pass'.pc \in Later \ {"finalizing"}
          /\ (pass'.pc = "pushingFields" => pass.drift) /\ (pass'.pc = "ensuringTile" => pass.create)
      BY <1>1, <1>3, CreateOrPushKept DEF Later
    <2>2. pass.shared \notin DOMAIN live'
      BY <1>3, DeleteAlertShrinks
    <2> QED
      BY <1>1, <2>1, <2>2 DEF Kept, Proceeds
  <1> QED
    BY <1>1, <1>2, <1>3, WritingEnded, EndedProceeds

\* A push goes on to the next push, or ends.
LEMMA PushProceeds ==
    ASSUME NEW p \in Pass, p.name = pass.name, p.hook = pass.hook, p.create = pass.create,
           p.target = pass.target, p.shared = pass.shared, p.taken = pass.taken, p.dash = pass.dash,
           p.owned = pass.owned, p.base = pass.base, p.copy = pass.copy, p.drift => pass.drift
    PROVE  Proceeds(Push(p))
  <1> DEFINE q == Push(p)
  <1>1. /\ Kept(q, p) /\ (q.pc = "pushingFields" => p.drift)
        /\ q.pc \in {"pushingWhere", "pushingFields", "writing"}
    BY PushKept
  <1> HIDE DEF q
  <1>2. Proceeds(q)
    BY <1>1 DEF Kept, Proceeds, Later
  <1> QED
    BY <1>2 DEF q

LEMMA PushWhereProceeds ==
    ASSUME PlanOK(pass), PushWhere
    PROVE  Proceeds(pass')
  <1> DEFINE p == [pass EXCEPT !.where = FALSE]
  <1>1. pass \in Pass
    BY DEF PlanOK
  <1>2. pass' = Push(p) \/ DriftedPass
    BY DEF PushWhere, Step
  <1>3. /\ p \in Pass /\ p.name = pass.name /\ p.hook = pass.hook /\ p.create = pass.create
        /\ p.target = pass.target /\ p.shared = pass.shared /\ p.taken = pass.taken
        /\ p.dash = pass.dash /\ p.owned = pass.owned /\ p.base = pass.base
        /\ p.copy = pass.copy /\ p.drift = pass.drift
    BY <1>1 DEF Pass
  <1> HIDE DEF p
  <1> QED
    BY <1>1, <1>2, <1>3, FailedEnds, EndedProceeds, PushProceeds

LEMMA PushFieldsProceeds ==
    ASSUME PlanOK(pass), PushFields
    PROVE  Proceeds(pass')
  <1> DEFINE p == [pass EXCEPT !.drift = FALSE]
  <1>1. pass \in Pass
    BY DEF PlanOK
  <1>2. pass' = Push(p) \/ DriftedPass
    BY DEF PushFields, Step
  <1>3. /\ p \in Pass /\ p.name = pass.name /\ p.hook = pass.hook /\ p.create = pass.create
        /\ p.target = pass.target /\ p.shared = pass.shared /\ p.taken = pass.taken
        /\ p.dash = pass.dash /\ p.owned = pass.owned /\ p.base = pass.base
        /\ p.copy = pass.copy /\ ~p.drift
    BY <1>1 DEF Pass
  <1> HIDE DEF p
  <1> QED
    BY <1>1, <1>2, <1>3, FailedEnds, EndedProceeds, PushProceeds

\* A pass that closes writes a status of its own.
Closes(q) ==
    /\ q \in Pass /\ q.pc = "writing"
    /\ q.name = pass.name /\ q.base = pass.base /\ q.hook = pass.hook
    /\ q.create = pass.create /\ q.target = pass.target /\ q.drift = pass.drift
    /\ q.shared = pass.shared /\ q.taken = pass.taken /\ q.dash = pass.dash /\ q.owned = pass.owned

LEMMA ClosesPlan ==
    ASSUME PlanOK(pass), NEW q, Closes(q)
    PROVE  PlanOK(q)
  BY DEF Closes, PlanOK, KnowsItsTargets, NoPlanYet, SparesTheOwned, DeletesWhatItRead,
         Hooked, Early, Deletion

LEMMA EndedCloses ==
    ASSUME Ended
    PROVE  Closes(pass') /\ pass'.copy.id = pass.copy.id /\ pass'.copy.dash = pass.copy.dash
  BY DEF Ended, Kept, Closes

LEMMA WritingCloses ==
    ASSUME pass \in Pass, NEW c \in Alert
    PROVE  Closes(Writing([pass EXCEPT !.copy = c])) /\ Writing([pass EXCEPT !.copy = c]).copy = c
  <1> DEFINE p == [pass EXCEPT !.copy = c]
  <1>1. /\ p \in Pass /\ p.copy = c /\ p.taken = pass.taken
        /\ p.name = pass.name /\ p.base = pass.base /\ p.hook = pass.hook
        /\ p.create = pass.create /\ p.target = pass.target /\ p.drift = pass.drift
        /\ p.shared = pass.shared /\ p.dash = pass.dash /\ p.owned = pass.owned
    BY DEF Pass
  <1> HIDE DEF p
  <1>2. Kept(Writing(p), p) /\ Writing(p).pc = "writing" /\ Writing(p).copy = p.copy
    BY <1>1, WritingKept
  <1>3. Closes(Writing(p)) /\ Writing(p).copy = c
    BY <1>1, <1>2 DEF Kept, Closes
  <1> QED
    BY <1>3 DEF p

\* A dashboard keeps its name, but perhaps the one that was there before any, and a new one is new.
TilesKept ==
    /\ made.dashboards <= made'.dashboards
    /\ \A d \in DOMAIN dashboards' :
         d > LegacyDash => \/ d \in DOMAIN dashboards /\ dashboards'[d].name = dashboards[d].name
                          \/ d > made.dashboards

\* EnsureTile's tile is in nobody's use, on a dashboard of the Alert's name.
LEMMA EnsureTileStep ==
    ASSUME StoreInv, PlanOK(pass), TileFree, EnsureTile
    PROVE  /\ StoreInv' /\ live' = live /\ made'.alerts = made.alerts /\ made.dashboards <= made'.dashboards
           /\ TilesKept
           /\ \/ Ended
              \/ \E d \in DashboardIds :
                   /\ pass' = [pass EXCEPT !.pc = "ensuringAlert", !.dash = d]
                   /\ d <= made'.dashboards /\ \A i \in DOMAIN live : live[i].dash # d
                   /\ d \in DOMAIN dashboards' /\ dashboards'[d].name = pass.name
  <1> DEFINE reusable == Reusable(pass.name, pass.taken)
             dd == [name |-> pass.name, where |-> pass.copy.where]
  <1>1. /\ pass \in Pass /\ pass.pc = "ensuringTile" /\ pass.create
        /\ dd \in Dashboard /\ dd.name = pass.name
    BY DEF PlanOK, KnowsItsTargets, EnsureTile, At, Pass, Alert, Dashboard
  <1>2. \A i \in DOMAIN live : live[i].dash \in pass.taken
    BY <1>1 DEF TileFree, At
  <1>3. made.dashboards \in Nat /\ made.alerts \in Nat
    BY DEF StoreInv, HyperDXTypeOK
  <1>4. reusable \subseteq DashboardIds /\ DashboardIds \subseteq Nat
    BY DEF StoreInv, HyperDXTypeOK, Reusable, DashboardIds
  <1> HIDE DEF dd
  <1>5. UNCHANGED hdx =>
          /\ StoreInv' /\ live' = live /\ made'.alerts = made.alerts /\ made.dashboards <= made'.dashboards
          /\ TilesKept
    BY <1>3 DEF hdx, TilesKept, StoreInv, HyperDXTypeOK, Numbered, OwnTile, OneAlertPerName
  <1>6. PostDashboard(dd) =>
          /\ StoreInv' /\ live' = live /\ made'.alerts = made.alerts /\ made.dashboards <= made'.dashboards
          /\ made'.dashboards \in DashboardIds /\ made'.dashboards = made.dashboards + 1
          /\ made'.dashboards \in DOMAIN dashboards' /\ dashboards'[made'.dashboards] = dd
          /\ TilesKept
    BY <1>1, <1>3, StorePostDashboard DEF TilesKept
  <1>7. CASE reusable # {} /\ Step([pass EXCEPT !.pc = "ensuringAlert", !.dash = First(reusable)]) /\ UNCHANGED hdx
    <2>1. First(reusable) \in reusable
      BY <1>4, <1>7, FirstIsOne
    <2> DEFINE d == First(reusable)
    <2>2. d \in DashboardIds /\ d \in DOMAIN dashboards /\ d \notin pass.taken /\ dashboards[d].name = pass.name
      BY <1>4, <2>1 DEF Reusable
    <2>3. d <= made'.dashboards
      BY <1>7, <2>2 DEF hdx, StoreInv, Numbered
    <2>4. pass' = [pass EXCEPT !.pc = "ensuringAlert", !.dash = d]
      BY <1>7 DEF Step
    <2> HIDE DEF d
    <2>5. d \in DOMAIN dashboards' /\ dashboards'[d].name = pass.name
      BY <1>7, <2>2 DEF hdx
    <2> QED
      BY <1>2, <1>5, <1>7, <2>2, <2>3, <2>4, <2>5
  <1>8. CASE PostDashboard(dd) /\ Step([pass EXCEPT !.pc = "ensuringAlert", !.dash = made'.dashboards])
    <2>1. \A i \in DOMAIN live : live[i].dash # made'.dashboards
      <3>1. \A i \in DOMAIN live : live[i].dash <= made.dashboards
        BY DEF StoreInv, Numbered
      <3> QED
        BY <1>3, <1>6, <1>8, <3>1
    <2>2. made'.dashboards <= made'.dashboards
      BY <1>3, <1>6, <1>8
    <2> QED
      BY <1>1, <1>6, <1>8, <2>1, <2>2 DEF Step
  <1>9. CASE FailedPass /\ (PostDashboard(dd) \/ UNCHANGED hdx)
    BY <1>1, <1>5, <1>6, <1>9, FailedEnds
  <1> QED
    BY <1>7, <1>8, <1>9 DEF EnsureTile, dd

LEMMA TiledPlan ==
    ASSUME PlanOK(pass), At("ensuringTile"), NEW d \in DashboardIds,
           pass' = [pass EXCEPT !.pc = "ensuringAlert", !.dash = d]
    PROVE  /\ PlanOK(pass') /\ pass'.pc = "ensuringAlert" /\ pass'.dash = d
           /\ pass'.name = pass.name /\ pass'.base = pass.base /\ pass'.copy = pass.copy
           /\ pass'.target = pass.target /\ pass'.create = pass.create /\ pass'.owned = pass.owned
           /\ pass'.shared = pass.shared
  <1>1. pass \in Pass /\ d # None /\ "ensuringAlert" \in PCs
    BY DEF PlanOK, DashboardIds, None, PCs
  <1>2. /\ pass' \in Pass /\ pass'.pc = "ensuringAlert" /\ pass'.dash = d
        /\ pass'.name = pass.name /\ pass'.base = pass.base /\ pass'.copy = pass.copy
        /\ pass'.target = pass.target /\ pass'.create = pass.create /\ pass'.owned = pass.owned
        /\ pass'.hook = pass.hook /\ pass'.shared = pass.shared /\ pass'.drift = pass.drift
    BY <1>1 DEF Pass
  <1>3. PlanOK(pass')
    BY <1>1, <1>2 DEF At, PlanOK, KnowsItsTargets, NoPlanYet, SparesTheOwned, DeletesWhatItRead,
                      Hooked, Early, Deletion
  <1> QED
    BY <1>2, <1>3

\* What a pass puts or posts is an alert of its own name, on the tile it holds.
LEMMA BodyFacts ==
    ASSUME PlanOK(pass), At("ensuringAlert") \/ At("pushingFields")
    PROVE  Body \in LiveAlert /\ Body.name = pass.name /\ Body.dash = pass.dash
  BY DEF At, PlanOK, KnowsItsTargets, Hooked, Pass, Alert, Body, LiveAlert

\* No step gives an alert the provider made another name, and new ids are new.
StableNames ==
    /\ made.alerts <= made'.alerts
    /\ \A i \in DOMAIN live' \ {Legacy} :
         \/ i \in DOMAIN live /\ live'[i].name = live[i].name
         \/ i \notin DOMAIN live /\ i > made.alerts

\* EnsureAlert makes the pass's alert, or puts what it found of its name.
LEMMA EnsureAlertStep ==
    ASSUME StoreInv, PlanOK(pass), TileFree, EnsureAlert
    PROVE  /\ StoreInv' /\ StableNames /\ made'.dashboards = made.dashboards
           /\ \A i \in DOMAIN live : i \in DOMAIN live' /\ live'[i].name = live[i].name
           /\ \/ Ended
              \/ /\ Closes(pass') /\ pass'.copy.id \in DOMAIN live' /\ pass'.copy.dash = pass.dash
                 /\ live'[pass'.copy.id].name = pass.name
  <1> DEFINE named == Named(pass.name)
             i1 == First(named)
  <1>1. /\ pass \in Pass /\ pass.copy \in Alert /\ pass.pc = "ensuringAlert"
        /\ Body \in LiveAlert /\ Body.name = pass.name /\ Body.dash = pass.dash
    BY BodyFacts DEF PlanOK, EnsureAlert, At, Pass
  <1>2. (\A i \in DOMAIN live : live[i].dash # pass.dash) /\ pass.dash <= made.dashboards
    BY <1>1 DEF TileFree, At
  <1>3. made.dashboards \in Nat /\ made.alerts \in Nat /\ DOMAIN live \subseteq AlertIds /\ AlertIds \subseteq Nat
    BY DEF StoreInv, HyperDXTypeOK, AlertIds
  <1>4. named \subseteq DOMAIN live
    BY DEF Named
  <1>5. ASSUME NEW i \in AlertIds, Step(Armed(i))
        PROVE  Closes(pass') /\ pass'.copy.id = i /\ pass'.copy.dash = pass.dash
    <2> DEFINE c == [pass.copy EXCEPT !.id = i, !.dash = pass.dash, !.phase = "Synced"]
    <2>1. c \in Alert /\ c.id = i /\ c.dash = pass.dash
      BY <1>1 DEF Alert, Pass, Phases
    <2>2. pass' = Writing([pass EXCEPT !.copy = c])
      BY <1>1, <1>5 DEF Step, Pass, Armed
    <2> HIDE DEF c
    <2> QED
      BY <1>1, <2>1, <2>2, WritingCloses
  <1>6. ASSUME UNCHANGED hdx
        PROVE  /\ StoreInv' /\ StableNames /\ made'.dashboards = made.dashboards
               /\ DOMAIN live' = DOMAIN live /\ \A i \in DOMAIN live : live'[i].name = live[i].name
    BY <1>3, <1>6 DEF hdx, StoreInv, HyperDXTypeOK, Numbered, OwnTile, OneAlertPerName, StableNames
  <1>7. ASSUME named # {}, PutAlert(i1, Body)
        PROVE  /\ StoreInv' /\ StableNames /\ made'.dashboards = made.dashboards
               /\ DOMAIN live' = DOMAIN live /\ \A i \in DOMAIN live : live'[i].name = live[i].name
    <2>1. i1 \in named
      BY <1>3, <1>4, <1>7, FirstIsOne
    <2> HIDE DEF i1
    <2>2. i1 \in DOMAIN live /\ live[i1].name = pass.name
      BY <2>1 DEF Named
    <2>3. /\ StoreInv' /\ made' = made /\ DOMAIN live' = DOMAIN live
          /\ live'[i1] = Body /\ \A j \in DOMAIN live \ {i1} : live'[j] = live[j]
      BY <1>1, <1>2, <1>7, <2>2, StorePutAlert
    <2> QED
      BY <1>1, <1>3, <2>2, <2>3 DEF StableNames
  <1>8. ASSUME named = {}, PostAlert(Body)
        PROVE  /\ StoreInv' /\ StableNames /\ made'.dashboards = made.dashboards
               /\ \A i \in DOMAIN live : i \in DOMAIN live' /\ live'[i].name = live[i].name
               /\ made'.alerts \in DOMAIN live' /\ live'[made'.alerts].name = pass.name
               /\ made'.alerts \in AlertIds
    <2>1. /\ StoreInv'
          /\ made'.alerts = made.alerts + 1 /\ made'.dashboards = made.dashboards
          /\ made'.alerts \notin DOMAIN live /\ DOMAIN live' = DOMAIN live \cup {made'.alerts}
          /\ live'[made'.alerts] = Body /\ \A i \in DOMAIN live : live'[i] = live[i]
      BY <1>1, <1>2, <1>8, StorePostAlert
    <2>2. StableNames
      BY <1>3, <2>1 DEF StableNames
    <2>3. made'.alerts \in AlertIds
      BY <2>1 DEF StoreInv, HyperDXTypeOK
    <2> QED
      BY <1>1, <2>1, <2>2, <2>3
  <1>9. CASE named # {} /\ Step(Armed(i1)) /\ (UNCHANGED hdx \/ PutAlert(i1, Body))
    <2>1. i1 \in named
      BY <1>3, <1>4, <1>9, FirstIsOne
    <2>2. i1 \in DOMAIN live /\ i1 \in AlertIds /\ live[i1].name = pass.name
      BY <1>3, <2>1 DEF Named
    <2>3. Closes(pass') /\ pass'.copy.id = i1 /\ pass'.copy.dash = pass.dash
      BY <1>5, <1>9, <2>2
    <2> HIDE DEF i1, named
    <2> QED
      BY <1>6, <1>7, <1>9, <2>2, <2>3
  <1>10. CASE named = {} /\ PostAlert(Body) /\ Step(Armed(made'.alerts))
    BY <1>5, <1>8, <1>10
  <1>11. CASE FailedPass /\ ((named = {} /\ PostAlert(Body)) \/ (named # {} /\ PutAlert(i1, Body)) \/ UNCHANGED hdx)
    BY <1>1, <1>6, <1>7, <1>8, <1>11, FailedEnds
  <1>12. \/ named # {} /\ Step(Armed(i1)) /\ (UNCHANGED hdx \/ PutAlert(i1, Body))
         \/ named = {} /\ PostAlert(Body) /\ Step(Armed(made'.alerts))
         \/ FailedPass /\ ((named = {} /\ PostAlert(Body)) \/ (named # {} /\ PutAlert(i1, Body)) \/ UNCHANGED hdx)
    BY DEF EnsureAlert
  <1> QED
    BY <1>9, <1>10, <1>11, <1>12

-----------------------------------------------------------------------------
(* What a step of the whole system does to HyperDX and to the pass. *)

\* Any other step takes from HyperDX, or leaves it.
Lessens ==
    /\ DOMAIN live' \subseteq DOMAIN live /\ \A i \in DOMAIN live' : live'[i] = live[i]
    /\ DOMAIN dashboards' \subseteq DOMAIN dashboards
    /\ made'.alerts = made.alerts /\ made'.dashboards = made.dashboards

LEMMA UnchangedStore ==
    ASSUME StoreInv, UNCHANGED hdx
    PROVE  StoreInv' /\ Lessens
  BY DEF hdx, StoreInv, HyperDXTypeOK, Numbered, OwnTile, OneAlertPerName, Lessens

LEMMA ShrunkStore ==
    ASSUME StoreInv, Shrinks, hook' = hook, made' = made
    PROVE  StoreInv' /\ Lessens
  <1>1. StoreInv'
    BY StoreShrinks DEF StoreInv, HyperDXTypeOK
  <1> QED
    BY <1>1 DEF Shrinks, Lessens

LEMMA DeletedStore ==
    ASSUME StoreInv, NEW i, DeleteAlert(i)
    PROVE  StoreInv' /\ Lessens
  BY DeleteAlertShrinks, ShrunkStore

LEMMA PostedHookStore ==
    ASSUME StoreInv, PostHook
    PROVE  StoreInv' /\ Lessens
  <1>1. HyperDXTypeOK
    BY DEF StoreInv
  <1>2. StoreInv'
    BY <1>1, PostHookShrinks, StoreShrinks
  <1> QED
    BY <1>1, <1>2, PostHookShrinks DEF Shrinks, Lessens

LEMMA DroppedHookStore ==
    ASSUME StoreInv, hook' = None, UNCHANGED <<live, dashboards, made>>
    PROVE  StoreInv' /\ Lessens
  BY DEF StoreInv, HyperDXTypeOK, Numbered, OwnTile, OneAlertPerName, Lessens

LEMMA PushWhereStore ==
    ASSUME StoreInv, PlanOK(pass), PushWhere
    PROVE  StoreInv' /\ Lessens
  <1> DEFINE dd == [name |-> pass.name, where |-> pass.copy.where]
  <1>1. dd \in Dashboard
    BY DEF PlanOK, Pass, Alert, Dashboard
  <1> HIDE DEF dd
  <1>2. ASSUME pass.dash \in DOMAIN dashboards, PutDashboard(pass.dash, dd)
        PROVE  StoreInv' /\ Lessens
    <2>1. StoreInv' /\ live' = live /\ made' = made
      BY <1>1, <1>2, StorePutDashboard
    <2>2. DOMAIN dashboards' = DOMAIN dashboards
      BY <1>2 DEF PutDashboard
    <2> QED
      BY <2>1, <2>2 DEF Lessens
  <1> QED
    BY <1>2, UnchangedStore DEF PushWhere, dd

LEMMA PushFieldsStep ==
    ASSUME StoreInv, PlanOK(pass), RefsNamed, TileFree, PushFields
    PROVE  /\ StoreInv' /\ made' = made /\ DOMAIN live' = DOMAIN live
           /\ \A i \in DOMAIN live : live'[i].dash = live[i].dash
           /\ \A i \in DOMAIN live \ {pass.target} : live'[i] = live[i]
           /\ pass.target \in DOMAIN live \ {Legacy} => live'[pass.target].name = live[pass.target].name
  <1>1. Body \in LiveAlert /\ Body.name = pass.name /\ Body.dash = pass.dash
    BY BodyFacts DEF PushFields
  <1>2. CASE UNCHANGED hdx
    BY <1>2, UnchangedStore DEF hdx
  <1>3. CASE pass.target \in DOMAIN live /\ PutAlert(pass.target, Body)
    <2>1. live[pass.target].dash = pass.dash /\ pass.dash <= made.dashboards
      BY <1>3 DEF TileFree
    <2>2. \A j \in DOMAIN live \ {pass.target} : live[j].dash # pass.dash
      BY <1>3, <2>1 DEF StoreInv, OwnTile
    <2>3. pass.target # Legacy => pass.name = live[pass.target].name
      BY <1>3 DEF RefsNamed, Ref
    <2>4. /\ StoreInv' /\ made' = made /\ DOMAIN live' = DOMAIN live /\ live'[pass.target] = Body
          /\ \A j \in DOMAIN live \ {pass.target} : live'[j] = live[j]
      BY <1>1, <1>3, <2>1, <2>2, <2>3, StorePutAlert
    <2> QED
      BY <1>1, <2>1, <2>3, <2>4
  <1> QED
    BY <1>2, <1>3 DEF PushFields

LEMMA OtherSteps ==
    ASSUME StoreInv, PlanOK(pass), [Next]_vars, ~EnsureTile, ~EnsureAlert, ~PushFields
    PROVE  StoreInv' /\ Lessens
  <1>1. CASE UNCHANGED vars
    BY <1>1, UnchangedStore DEF vars
  <1>2. CASE \E n \in Names : Begin(n) \/ Sync(n)
    BY <1>2, UnchangedStore DEF Begin, Sync
  <1>3. CASE Connect
    BY <1>3, UnchangedStore, PostedHookStore DEF Connect, hdx
  <1>4. CASE ResetList \/ ResetPatch \/ ResetDone \/ Refuse \/ List \/ ReadTile \/ AddFinalizer
    BY <1>4, UnchangedStore DEF ResetList, ResetPatch, ResetDone, Refuse, List, ReadTile, AddFinalizer
  <1>5. CASE ResetDelete \/ DeleteShared
    BY <1>5, UnchangedStore, DeletedStore DEF ResetDelete, DeleteShared
  <1>6. CASE PushWhere
    BY <1>6, PushWhereStore
  <1>7. CASE RemoveAlert \/ DropAlert
    BY <1>7, UnchangedStore, DeletedStore DEF RemoveAlert, DropAlert
  <1>8. CASE RemoveDashboard
    <2>1. ASSUME DeleteDashboard(pass.copy.dash) PROVE StoreInv' /\ Lessens
      BY <2>1, DeleteDashboardShrinks, ShrunkStore
    <2> QED
      BY <1>8, <2>1, UnchangedStore DEF RemoveDashboard
  <1>9. CASE RemoveFinalizer \/ WriteStatus \/ Expire \/ Crash
    BY <1>9, UnchangedStore DEF RemoveFinalizer, WriteStatus, Expire, Crash
  <1>10. CASE \E n \in Names : EditAlert(n) \/ RemoveCR(n) \/ CreateCR(n)
    BY <1>10, UnchangedStore DEF EditAlert, RemoveCR, CreateCR
  <1>11. CASE DropHook
    BY <1>11, DroppedHookStore DEF DropHook
  <1> QED
    BY <1>1, <1>2, <1>3, <1>4, <1>5, <1>6, <1>7, <1>8, <1>9, <1>10, <1>11 DEF Next, PassStep, People

LEMMA LessensStable ==
    ASSUME StoreInv, Lessens
    PROVE  StableNames
  BY DEF StoreInv, HyperDXTypeOK, Lessens, StableNames

\* So no step renames an alert the provider made, and every step keeps the store sound.
LEMMA NextStore ==
    ASSUME StoreInv, PlanOK(pass), RefsNamed, TileFree, [Next]_vars
    PROVE  StoreInv' /\ StableNames
  <1>1. CASE EnsureTile
    <2>1. StoreInv' /\ live' = live /\ made'.alerts = made.alerts
      BY <1>1, EnsureTileStep
    <2> QED
      BY <2>1 DEF StableNames, StoreInv, HyperDXTypeOK
  <1>2. CASE EnsureAlert
    BY <1>2, EnsureAlertStep
  <1>3. CASE PushFields
    <2>1. /\ StoreInv' /\ made' = made /\ DOMAIN live' = DOMAIN live
          /\ \A i \in DOMAIN live \ {pass.target} : live'[i] = live[i]
          /\ pass.target \in DOMAIN live \ {Legacy} => live'[pass.target].name = live[pass.target].name
      BY <1>3, PushFieldsStep
    <2> QED
      BY <2>1 DEF StableNames, StoreInv, HyperDXTypeOK
  <1>4. CASE ~EnsureTile /\ ~EnsureAlert /\ ~PushFields
    BY <1>4, OtherSteps, LessensStable
  <1> QED
    BY <1>1, <1>2, <1>3, <1>4

\* What List makes of a pass.
Lists == List /\ UNCHANGED hdx /\ PlanOK(pass') /\ Found(pass') /\ pass'.name = pass.name /\ pass'.base = pass.base

LEMMA ListSteps ==
    ASSUME ClusterOK, HyperDXTypeOK, PlanOK(pass), List
    PROVE  Lists \/ Proceeds(pass')
  <1>1. At("listing") /\ UNCHANGED hdx
    BY DEF List
  <1>2. CASE Step(Find(Release([pass EXCEPT !.owned = Owned])))
    BY <1>1, <1>2, ListFacts DEF Step, Lists
  <1>3. CASE FailedPass
    BY <1>3, FailedEnds, EndedProceeds DEF PlanOK
  <1> QED
    BY <1>2, <1>3 DEF List

LEMMA PassSteps ==
    ASSUME ClusterOK, HyperDXTypeOK, PlanOK(pass), [Next]_vars
    PROVE  \/ pass' = pass \/ pass' = Idle
           \/ \E n \in Names : Begin(n)
           \/ Resets(pass') /\ pass.pc \in {"connecting", "resetting", "clearing"}
           \/ Lists
           \/ Proceeds(pass') /\ pass.pc \in Hooked
           \/ EnsureTile \/ EnsureAlert \/ RemoveAlert \/ RemoveDashboard
  <1>1. CASE UNCHANGED vars
    BY <1>1 DEF vars
  <1>2. CASE \E n \in Names : Sync(n)
    BY <1>2 DEF Sync
  <1>3. CASE Connect \/ ResetList \/ ResetDelete \/ ResetPatch \/ ResetDone
    <2>1. pass.pc \in {"connecting", "resetting", "clearing"}
      BY <1>3 DEF Connect, ResetList, ResetDelete, ResetPatch, ResetDone, At
    <2> QED
      BY <1>3, <2>1, ResetSteps
  <1>4. CASE Refuse \/ List \/ ReadTile \/ AddFinalizer \/ DeleteShared \/ PushWhere \/ PushFields
    <2>1. pass.pc \in Hooked
      BY <1>4 DEF Refuse, List, ReadTile, AddFinalizer, DeleteShared, PushWhere, PushFields, At, Hooked
    <2> QED
      BY <1>4, <2>1, RefuseProceeds, ListSteps, ReadTileProceeds, AddFinalizerProceeds,
         DeleteSharedProceeds, PushWhereProceeds, PushFieldsProceeds
  <1>5. CASE RemoveFinalizer \/ WriteStatus \/ Crash
    BY <1>5 DEF RemoveFinalizer, WriteStatus, Crash, Step
  <1>6. CASE Expire \/ People
    BY <1>6 DEF Expire, People, DropAlert, DropHook, EditAlert, RemoveCR, CreateCR, Moving
  <1> QED
    BY <1>1, <1>2, <1>3, <1>4, <1>5, <1>6 DEF Next, PassStep

\* A deletion's calls.
LEMMA RemoveAlertPass ==
    ASSUME PlanOK(pass), RemoveAlert
    PROVE  /\ pass.copy = pass.base /\ PlanOK(pass')
           /\ pass'.name = pass.name /\ pass'.base = pass.base /\ pass'.create = pass.create
           /\ pass'.target = pass.target /\ pass'.dash = pass.dash /\ pass'.owned = pass.owned
           /\ pass'.copy.dash = pass.copy.dash /\ pass'.shared = pass.shared
           /\ \/ pass'.pc = "deletingDashboard" /\ pass'.copy.id = pass.copy.id
              \/ pass'.pc = "writing" /\ pass'.copy.id = None
  <1>1. pass \in Pass /\ pass.copy \in Alert /\ pass.pc = "deletingAlert" /\ pass.copy = pass.base
    BY DEF PlanOK, RemoveAlert, At, Pass, DeletesWhatItRead
  <1>2. CASE pass.copy.dash # None
    <2>1. pass' = [pass EXCEPT !.pc = "deletingDashboard"]
      BY <1>2 DEF RemoveAlert, Step
    <2>2. /\ Kept(pass', pass) /\ pass'.pc = "deletingDashboard" /\ pass'.copy = pass.copy
      BY <1>1, <2>1, AtKept DEF PCs
    <2>3. PlanOK(pass')
      BY <1>1, <1>2, <2>2 DEF Kept, PlanOK, KnowsItsTargets, NoPlanYet, SparesTheOwned,
                              DeletesWhatItRead, Hooked, Early, Deletion
    <2> QED
      BY <1>1, <2>2, <2>3 DEF Kept
  <1>3. CASE pass.copy.dash = None
    <2> DEFINE c == [pass.copy EXCEPT !.id = None]
    <2>1. pass' = Writing([pass EXCEPT !.copy = c])
      BY <1>1, <1>3 DEF RemoveAlert, Step, Pass
    <2>2. c \in Alert /\ c.id = None /\ c.dash = pass.copy.dash
      BY <1>1 DEF Alert
    <2> HIDE DEF c
    <2>3. Closes(pass') /\ pass'.copy = c
      BY <1>1, <2>1, <2>2, WritingCloses
    <2>4. PlanOK(pass')
      BY <2>3, ClosesPlan
    <2> QED
      BY <1>1, <2>2, <2>3, <2>4 DEF Closes
  <1> QED
    BY <1>2, <1>3

LEMMA RemoveDashboardPass ==
    ASSUME PlanOK(pass), RemoveDashboard
    PROVE  /\ pass.copy = pass.base /\ PlanOK(pass') /\ Closes(pass')
           /\ pass'.copy.id = None /\ pass'.copy.dash = None
  <1>1. pass \in Pass /\ pass.copy \in Alert /\ pass.pc = "deletingDashboard" /\ pass.copy = pass.base
    BY DEF PlanOK, RemoveDashboard, At, Pass, DeletesWhatItRead
  <1> DEFINE c == [pass.copy EXCEPT !.id = None, !.dash = None]
  <1>2. pass' = Writing([pass EXCEPT !.copy = c])
    BY <1>1 DEF RemoveDashboard, Step, Pass
  <1>3. c \in Alert /\ c.id = None /\ c.dash = None
    BY <1>1 DEF Alert
  <1> HIDE DEF c
  <1>4. Closes(pass') /\ pass'.copy = c
    BY <1>1, <1>2, <1>3, WritingCloses
  <1>5. PlanOK(pass')
    BY <1>4, ClosesPlan
  <1> QED
    BY <1>1, <1>3, <1>4, <1>5

\* The plan of a pass is sound after every step.
LEMMA NextPlan ==
    ASSUME ClusterOK, StoreInv, PlanOK(pass), TileFree, [Next]_vars
    PROVE  PlanOK(pass')
  <1>1. HyperDXTypeOK
    BY DEF StoreInv
  <1>2. CASE pass' = Idle
    BY <1>2, IdlePlan
  <1>3. CASE \E n \in Names : Begin(n)
    BY <1>3, BeginPlan
  <1>4. CASE Resets(pass') /\ pass.pc \in {"connecting", "resetting", "clearing"}
    BY <1>4, ResetsPlan
  <1>5. CASE Lists
    BY <1>5 DEF Lists
  <1>6. CASE Proceeds(pass') /\ pass.pc \in Hooked
    BY <1>6, ProceedsPlan
  <1>7. CASE EnsureTile
    BY <1>7, EnsureTileStep, PlanEnded, TiledPlan DEF EnsureTile
  <1>8. CASE EnsureAlert
    BY <1>8, EnsureAlertStep, PlanEnded, ClosesPlan
  <1>9. CASE RemoveAlert \/ RemoveDashboard
    BY <1>9, RemoveAlertPass, RemoveDashboardPass
  <1> QED
    BY <1>1, <1>2, <1>3, <1>4, <1>5, <1>6, <1>7, <1>8, <1>9, PassSteps

-----------------------------------------------------------------------------
(* The API server, the informer and the ids in them. *)

\* An Alert's ids are those it had, none, or those its pass writes.
IdsFrom ==
    /\ \A n \in DOMAIN alerts' :
         \/ alerts'[n].id = None
         \/ n \in DOMAIN alerts /\ alerts'[n].id = alerts[n].id
         \/ n = pass.name /\ alerts'[n].id = pass.copy.id
    /\ \A n \in DOMAIN alerts' :
         \/ alerts'[n].dash = None
         \/ n \in DOMAIN alerts /\ alerts'[n].dash = alerts[n].dash
         \/ n = pass.name /\ alerts'[n].dash = pass.copy.dash
    /\ \A n \in DOMAIN cache' :
         \/ n \in DOMAIN cache /\ cache'[n] = cache[n]
         \/ n \in DOMAIN alerts /\ cache'[n] = alerts[n]

AlertsOK == DOMAIN alerts \subseteq Names /\ \A n \in DOMAIN alerts : alerts[n] \in Alert
BudgetOK == moves \in 0 .. MaxMoves /\ faults \in 0 .. MaxFaults /\ crashes \in 0 .. MaxCrashes

LEMMA ClusterParts == ClusterOK <=>
    /\ AlertsOK /\ BudgetOK /\ hookCache \in HookIds \cup {None}
    /\ DOMAIN cache \subseteq Names /\ \A n \in DOMAIN cache : cache[n] \in Alert
  BY DEF ClusterOK, AlertsOK, BudgetOK

LEMMA NextBudget ==
    ASSUME BudgetOK, [Next]_vars
    PROVE  BudgetOK' /\ faults <= faults'
  <1>1. /\ MaxMoves \in Nat /\ MaxFaults \in Nat /\ MaxCrashes \in Nat
        /\ moves \in Nat /\ faults \in Nat /\ crashes \in Nat
    BY ReconcilerAssumption DEF ReconcilerAssumption, BudgetOK
  <1>2. ASSUME UNCHANGED <<moves, crashes>>, UNCHANGED faults \/ Fails
        PROVE  BudgetOK' /\ faults <= faults'
    BY <1>1, <1>2 DEF BudgetOK, Fails
  <1>3. CASE UNCHANGED budget
    BY <1>2, <1>3 DEF budget
  <1>4. CASE UNCHANGED vars \/ \E n \in Names : Begin(n) \/ Sync(n)
    BY <1>3, <1>4 DEF vars, Begin, Sync
  <1>5. CASE Connect \/ ResetList \/ ResetDelete \/ ResetPatch
    BY <1>2, <1>5 DEF Connect, ResetList, ResetDelete, ResetPatch
  <1>6. CASE ResetDone \/ Refuse \/ Expire
    BY <1>3, <1>6 DEF ResetDone, Refuse, Expire
  <1>7. CASE List \/ ReadTile \/ AddFinalizer \/ DeleteShared \/ EnsureTile
    BY <1>2, <1>7 DEF List, ReadTile, AddFinalizer, DeleteShared, EnsureTile
  <1>8. CASE EnsureAlert \/ PushWhere \/ PushFields \/ RemoveAlert \/ RemoveDashboard
    BY <1>2, <1>8 DEF EnsureAlert, PushWhere, PushFields, RemoveAlert, RemoveDashboard
  <1>9. CASE RemoveFinalizer \/ WriteStatus
    BY <1>2, <1>9 DEF RemoveFinalizer, WriteStatus
  <1>10. CASE Crash
    BY <1>1, <1>10 DEF Crash, BudgetOK
  <1>11. CASE People
    <2>1. Moving
      BY <1>11 DEF People, DropAlert, DropHook, EditAlert, RemoveCR, CreateCR
    <2> QED
      BY <1>1, <2>1 DEF Moving, BudgetOK
  <1> QED
    BY <1>4, <1>5, <1>6, <1>7, <1>8, <1>9, <1>10, <1>11 DEF Next, PassStep

\* The writes of the API server.
AlertsFrom ==
    /\ AlertsOK'
    /\ \A n \in DOMAIN alerts' :
         \/ alerts'[n].id = None
         \/ n \in DOMAIN alerts /\ alerts'[n].id = alerts[n].id
         \/ n = pass.name /\ alerts'[n].id = pass.copy.id
    /\ \A n \in DOMAIN alerts' :
         \/ alerts'[n].dash = None
         \/ n \in DOMAIN alerts /\ alerts'[n].dash = alerts[n].dash
         \/ n = pass.name /\ alerts'[n].dash = pass.copy.dash

LEMMA SameAlerts ==
    ASSUME AlertsOK, alerts' = alerts
    PROVE  AlertsFrom
  BY DEF AlertsOK, AlertsFrom

LEMMA FewerAlerts ==
    ASSUME AlertsOK, NEW S, alerts' = Without(alerts, S)
    PROVE  AlertsFrom
  BY DEF AlertsOK, AlertsFrom, Without

LEMMA OneAlertWritten ==
    ASSUME AlertsOK, NEW o \in DOMAIN alerts, NEW a \in Alert, alerts' = [alerts EXCEPT ![o] = a],
           a.id \in {None, alerts[o].id} \/ (o = pass.name /\ a.id = pass.copy.id),
           a.dash = alerts[o].dash \/ (o = pass.name /\ a.dash = pass.copy.dash)
    PROVE  AlertsFrom
  BY DEF AlertsOK, AlertsFrom

LEMMA NextAlerts ==
    ASSUME AlertsOK, PlanOK(pass), [Next]_vars
    PROVE  AlertsFrom
  <1>1. pass \in Pass /\ pass.copy \in Alert /\ pass.base \in Alert
    BY DEF PlanOK, Pass
  <1>2. CASE UNCHANGED alerts
    BY <1>2, SameAlerts
  <1>3. CASE ResetPatch
    <2>1. CASE \E o \in DOMAIN alerts : alerts' = [alerts EXCEPT ![o] = Reset(@)]
      <3>1. PICK o \in DOMAIN alerts : alerts' = [alerts EXCEPT ![o] = Reset(@)]
        BY <2>1
      <3> DEFINE a == Reset(alerts[o])
      <3>2. a \in Alert /\ a.id = None /\ a.dash = alerts[o].dash
        BY ResetAlert DEF AlertsOK
      <3>3. alerts' = [alerts EXCEPT ![o] = a]
        BY <3>1
      <3> HIDE DEF a
      <3> QED
        BY <3>2, <3>3, OneAlertWritten
    <2> QED
      BY <1>2, <1>3, <2>1 DEF ResetPatch
  <1>4. CASE AddFinalizer
    <2> DEFINE g == [pass.base EXCEPT !.finalizer = TRUE]
    <2>1. g \in Alert /\ g.id = pass.base.id /\ g.dash = pass.base.dash
      BY <1>1 DEF Alert
    <2>2. UNCHANGED alerts \/ (Current /\ alerts' = [alerts EXCEPT ![pass.name] = g])
      BY <1>4 DEF AddFinalizer
    <2> HIDE DEF g
    <2>3. CASE Current /\ alerts' = [alerts EXCEPT ![pass.name] = g]
      <3>1. /\ pass.name \in DOMAIN alerts
            /\ alerts[pass.name].id = pass.base.id /\ alerts[pass.name].dash = pass.base.dash
        BY <2>3 DEF Current
      <3> QED
        BY <2>1, <2>3, <3>1, OneAlertWritten
    <2> QED
      BY <1>2, <2>2, <2>3
  <1>5. CASE WriteStatus
    <2> DEFINE n == pass.name
               c == pass.copy
               a == [alerts[n] EXCEPT !.id = c.id, !.dash = c.dash, !.phase = c.phase]
    <2>1. \/ UNCHANGED alerts
          \/ /\ Current
             /\ alerts' = [alerts EXCEPT ![n].id = c.id, ![n].dash = c.dash, ![n].phase = c.phase]
      BY <1>5 DEF WriteStatus
    <2>2. CASE Current /\ alerts' = [alerts EXCEPT ![n].id = c.id, ![n].dash = c.dash, ![n].phase = c.phase]
      <3>1. n \in DOMAIN alerts /\ alerts[n] \in Alert
        BY <2>2 DEF Current, AlertsOK
      <3>2. a \in Alert /\ a.id = pass.copy.id /\ a.dash = pass.copy.dash
        BY <1>1, <3>1 DEF Alert
      <3>3. alerts' = [alerts EXCEPT ![n] = a]
        BY <2>2, <3>1
      <3> HIDE DEF a
      <3> QED
        BY <3>1, <3>2, <3>3, OneAlertWritten
    <2> QED
      BY <1>2, <2>1, <2>2
  <1>6. CASE RemoveFinalizer
    BY <1>2, <1>6, FewerAlerts DEF RemoveFinalizer
  <1>7. ASSUME NEW n \in Names, EditAlert(n)
        PROVE  AlertsFrom
    <2>1. PICK w \in Wheres, b \in Bounds : alerts' = [alerts EXCEPT ![n].where = w, ![n].bound = b]
      BY <1>7 DEF EditAlert
    <2> DEFINE a == [alerts[n] EXCEPT !.where = w, !.bound = b]
    <2>2. n \in DOMAIN alerts /\ alerts[n] \in Alert
      BY <1>7 DEF EditAlert, AlertsOK
    <2>3. a \in Alert /\ a.id = alerts[n].id /\ a.dash = alerts[n].dash
      BY <2>2 DEF Alert
    <2>4. alerts' = [alerts EXCEPT ![n] = a]
      BY <2>1, <2>2
    <2> HIDE DEF a
    <2> QED
      BY <2>2, <2>3, <2>4, OneAlertWritten
  <1>8. ASSUME NEW n \in Names, RemoveCR(n)
        PROVE  AlertsFrom
    <2> DEFINE a == [alerts[n] EXCEPT !.deleting = TRUE]
    <2>1. n \in DOMAIN alerts /\ alerts[n] \in Alert
      BY <1>8 DEF RemoveCR, AlertsOK
    <2>2. a \in Alert /\ a.id = alerts[n].id /\ a.dash = alerts[n].dash
      BY <2>1 DEF Alert
    <2>3. alerts' = [alerts EXCEPT ![n] = a] \/ alerts' = Without(alerts, {n})
      BY <1>8, <2>1 DEF RemoveCR
    <2> HIDE DEF a
    <2> QED
      BY <2>1, <2>2, <2>3, OneAlertWritten, FewerAlerts
  <1>9. ASSUME NEW n \in Names, CreateCR(n)
        PROVE  AlertsFrom
    <2>1. PICK w \in Wheres, b \in Bounds : alerts' = With(alerts, n, New(w, b))
      BY <1>9 DEF CreateCR
    <2>2. New(w, b) \in Alert /\ New(w, b).id = None /\ New(w, b).dash = None
      BY DEF New, Alert, Phases
    <2> QED
      BY <2>1, <2>2 DEF AlertsOK, AlertsFrom, With
  <1>10. CASE Connect \/ ResetList \/ ResetDelete \/ ResetDone \/ Refuse \/ List \/ ReadTile
    BY <1>2, <1>10 DEF Connect, ResetList, ResetDelete, ResetDone, Refuse, List, ReadTile, cluster
  <1>11. CASE DeleteShared \/ EnsureTile \/ EnsureAlert \/ PushWhere \/ PushFields \/ RemoveAlert \/ RemoveDashboard
    BY <1>2, <1>11 DEF DeleteShared, EnsureTile, EnsureAlert, PushWhere, PushFields, RemoveAlert,
                       RemoveDashboard, cluster
  <1>12. CASE UNCHANGED vars \/ Expire \/ Crash \/ DropAlert \/ DropHook \/ \E n \in Names : Begin(n) \/ Sync(n)
    BY <1>2, <1>12 DEF vars, cluster, Expire, Crash, DropAlert, DropHook, Begin, Sync
  <1> QED
    BY <1>3, <1>4, <1>5, <1>6, <1>7, <1>8, <1>9, <1>10, <1>11, <1>12 DEF Next, PassStep, People

\* The informer shows what it showed, or what the API server holds.
LEMMA NextCache ==
    ASSUME [Next]_vars
    PROVE  /\ DOMAIN cache' \subseteq DOMAIN cache \cup DOMAIN alerts
           /\ \A n \in DOMAIN cache' :
                \/ n \in DOMAIN cache /\ cache'[n] = cache[n]
                \/ n \in DOMAIN alerts /\ cache'[n] = alerts[n]
  <1>1. CASE UNCHANGED cache \/ cache' = alerts
    BY <1>1
  <1>2. ASSUME NEW n \in Names, Sync(n)
        PROVE  /\ DOMAIN cache' \subseteq DOMAIN cache \cup DOMAIN alerts
               /\ \A m \in DOMAIN cache' :
                    \/ m \in DOMAIN cache /\ cache'[m] = cache[m]
                    \/ m \in DOMAIN alerts /\ cache'[m] = alerts[m]
    BY <1>2 DEF Sync, With, Without
  <1>3. CASE UNCHANGED vars \/ \E n \in Names : Begin(n)
    BY <1>1, <1>3 DEF vars, cluster, Begin
  <1>4. CASE PassStep
    BY <1>1, <1>4 DEF PassStep, Connect, ResetList, ResetDelete, ResetPatch, ResetDone, Refuse, List,
                      ReadTile, AddFinalizer, DeleteShared, EnsureTile, EnsureAlert, PushWhere, PushFields,
                      RemoveAlert, RemoveDashboard, RemoveFinalizer, WriteStatus, cluster
  <1>5. CASE Expire \/ Crash \/ People
    BY <1>1, <1>5 DEF Expire, Crash, People, DropAlert, DropHook, EditAlert, RemoveCR, CreateCR, Moving, cluster
  <1> QED
    BY <1>2, <1>3, <1>4, <1>5 DEF Next

LEMMA NextHookCache ==
    ASSUME HyperDXTypeOK, ClusterOK, PlanOK(pass), [Next]_vars
    PROVE  hookCache' \in HookIds \cup {None}
  <1>1. hook \in HookIds \cup {None} /\ pass.hook \in HookIds \cup {None} /\ hookCache \in HookIds \cup {None}
    BY DEF HyperDXTypeOK, ClusterOK, PlanOK, Pass
  <1>2. hookCache' \in {hookCache, None, hook, pass.hook}
    <2>1. CASE UNCHANGED vars \/ \E n \in Names : Begin(n) \/ Sync(n)
      BY <2>1 DEF vars, Begin, Sync
    <2>2. CASE PassStep
      BY <2>2 DEF PassStep, Connect, ResetList, ResetDelete, ResetPatch, ResetDone, Refuse, List,
                  ReadTile, AddFinalizer, DeleteShared, EnsureTile, EnsureAlert, PushWhere, PushFields,
                  RemoveAlert, RemoveDashboard, RemoveFinalizer, WriteStatus
    <2>3. CASE Expire \/ Crash \/ People
      BY <2>3 DEF Expire, Crash, People, DropAlert, DropHook, EditAlert, RemoveCR, CreateCR, Moving
    <2> QED
      BY <2>1, <2>2, <2>3 DEF Next
  <1> QED
    BY <1>1, <1>2

LEMMA NextCluster ==
    ASSUME HyperDXTypeOK, ClusterOK, PlanOK(pass), [Next]_vars
    PROVE  ClusterOK' /\ IdsFrom /\ faults <= faults'
  <1>1. AlertsFrom
    BY ClusterParts, NextAlerts
  <1>2. BudgetOK' /\ faults <= faults'
    BY ClusterParts, NextBudget
  <1>3. DOMAIN cache' \subseteq Names /\ \A n \in DOMAIN cache' : cache'[n] \in Alert
    BY NextCache DEF ClusterOK
  <1>4. hookCache' \in HookIds \cup {None}
    BY NextHookCache
  <1>5. ClusterOK'
    BY <1>1, <1>2, <1>3, <1>4 DEF AlertsFrom, AlertsOK, BudgetOK, ClusterOK
  <1>6. IdsFrom
    BY <1>1, NextCache DEF IdsFrom, AlertsFrom
  <1> QED
    BY <1>2, <1>5, <1>6

-----------------------------------------------------------------------------
(* The ids an Alert has had are of alerts of its name. *)

RefAfter(id, n) == id <= made'.alerts /\ (id \in DOMAIN live' \ {Legacy} => live'[id].name = n)

LEMMA RefKept ==
    ASSUME HyperDXTypeOK, HyperDXTypeOK', StableNames,
           NEW n, NEW id \in AlertIds \cup {None}, Ref(id, n)
    PROVE  RefAfter(id, n)
  <1>1. id \in Nat /\ made.alerts \in Nat /\ made'.alerts \in Nat
    BY DEF HyperDXTypeOK, AlertIds, None
  <1>2. id <= made.alerts /\ made.alerts <= made'.alerts
    BY DEF Ref, StableNames
  <1>3. ASSUME id \in DOMAIN live' \ {Legacy} PROVE live'[id].name = n
    BY <1>1, <1>2, <1>3 DEF Ref, StableNames
  <1> QED
    BY <1>1, <1>2, <1>3 DEF RefAfter

LEMMA RefNone ==
    ASSUME HyperDXTypeOK', NEW n
    PROVE  RefAfter(None, n)
  BY DEF HyperDXTypeOK, AlertIds, None, RefAfter

LEMMA RefLive ==
    ASSUME StoreInv', NEW n, NEW id \in DOMAIN live', live'[id].name = n
    PROVE  RefAfter(id, n)
  BY DEF StoreInv, Numbered, RefAfter

LEMMA NextRefs ==
    ASSUME ClusterOK, StoreInv, PlanOK(pass), RefsNamed, TileFree, [Next]_vars
    PROVE  RefsNamed'
  <1>1. StoreInv' /\ StableNames
    BY NextStore
  <1>2. HyperDXTypeOK /\ HyperDXTypeOK'
    BY <1>1 DEF StoreInv
  <1>3. PlanOK(pass')
    BY NextPlan
  <1>4. ClusterOK' /\ IdsFrom
    BY <1>2, NextCluster
  <1>5. /\ pass.copy.id \in AlertIds \cup {None} /\ pass.base.id \in AlertIds \cup {None}
        /\ pass.target \in AlertIds \cup {None}
    BY DEF PlanOK, Pass, Alert
  <1>6. /\ RefAfter(pass.copy.id, pass.name) /\ RefAfter(pass.base.id, pass.name)
        /\ RefAfter(pass.target, pass.name)
    BY <1>1, <1>2, <1>5, RefKept DEF RefsNamed
  <1>7. \A n \in DOMAIN alerts : RefAfter(alerts[n].id, n)
    BY <1>1, <1>2, RefKept DEF RefsNamed, ClusterOK, Alert
  <1>8. \A n \in DOMAIN cache : RefAfter(cache[n].id, n)
    BY <1>1, <1>2, RefKept DEF RefsNamed, ClusterOK, Alert
  <1>9. \A n : RefAfter(None, n)
    BY <1>2, RefNone
  <1>10. \A n \in DOMAIN alerts' : RefAfter(alerts'[n].id, n)
    BY <1>4, <1>6, <1>7, <1>9 DEF IdsFrom
  <1>11. \A n \in DOMAIN cache' : RefAfter(cache'[n].id, n)
    BY <1>4, <1>7, <1>8 DEF IdsFrom
  <1> DEFINE PassRefs == /\ RefAfter(pass'.copy.id, pass'.name) /\ RefAfter(pass'.base.id, pass'.name)
                         /\ RefAfter(pass'.target, pass'.name)
  <1>12. PassRefs
    <2>1. CASE pass' = pass
      BY <1>6, <2>1
    <2>2. CASE pass' = Idle
      <3>1. Idle.target = None
        BY DEF Idle
      <3> QED
        BY <1>9, <2>2, <3>1, IdlePlan
    <2>3. ASSUME NEW n \in Names, Begin(n) PROVE PassRefs
      <3>1. /\ PlanOK(pass') /\ n \in DOMAIN cache /\ pass'.pc \in Early
            /\ pass'.name = n /\ pass'.copy = cache[n] /\ pass'.base = cache[n]
        BY <2>3, BeginPlan
      <3>2. pass'.target = None
        BY <3>1 DEF PlanOK, NoPlanYet
      <3> QED
        BY <1>8, <1>9, <3>1, <3>2
    <2>4. CASE Resets(pass')
      BY <1>6, <1>9, <2>4 DEF Resets
    <2>5. CASE Lists
      <3> DEFINE q == pass'
      <3>1. Found(q) /\ q.name = pass.name /\ q.base = pass.base /\ live' = live
        BY <2>5 DEF Lists, hdx
      <3>2. RefAfter(q.target, q.name)
        <4>1. CASE q.target = None
          BY <1>9, <4>1
        <4>2. CASE q.target = pass.copy.id
          BY <1>6, <3>1, <4>2
        <4>3. CASE q.target \in DOMAIN live /\ live[q.target].name = pass.name
          BY <1>1, <3>1, <4>3, RefLive
        <4> QED
          BY <3>1, <4>1, <4>2, <4>3 DEF Found
      <3>3. RefAfter(q.copy.id, q.name)
        BY <1>6, <1>9, <3>1, <3>2 DEF Found
      <3> QED
        BY <1>6, <3>1, <3>2, <3>3
    <2>6. CASE Proceeds(pass')
      BY <1>6, <2>6 DEF Proceeds
    <2>7. ASSUME Closes(pass') PROVE RefAfter(pass'.base.id, pass'.name) /\ RefAfter(pass'.target, pass'.name)
      BY <1>6, <2>7 DEF Closes
    <2>8. CASE EnsureTile
      <3>1. CASE Ended
        BY <1>6, <2>7, <3>1, EndedCloses DEF Closes
      <3>2. CASE \E d \in DashboardIds : pass' = [pass EXCEPT !.pc = "ensuringAlert", !.dash = d]
        <4>1. /\ pass'.name = pass.name /\ pass'.base = pass.base /\ pass'.copy = pass.copy
              /\ pass'.target = pass.target
          BY <2>8, <3>2, TiledPlan DEF EnsureTile
        <4> QED
          BY <1>6, <4>1
      <3> QED
        BY <2>8, <3>1, <3>2, EnsureTileStep
    <2>9. CASE EnsureAlert
      <3>1. CASE Ended
        BY <1>6, <2>7, <3>1, EndedCloses DEF Closes
      <3>2. CASE /\ Closes(pass') /\ pass'.copy.id \in DOMAIN live'
                 /\ live'[pass'.copy.id].name = pass.name
        <4>1. RefAfter(pass'.copy.id, pass'.name)
          BY <1>1, <3>2, RefLive DEF Closes
        <4> QED
          BY <2>7, <3>2, <4>1
      <3> QED
        BY <2>9, <3>1, <3>2, EnsureAlertStep
    <2>10. CASE RemoveAlert
      <3>1. /\ pass'.name = pass.name /\ pass'.base = pass.base /\ pass'.target = pass.target
            /\ pass'.copy.id \in {pass.copy.id, None}
        BY <2>10, RemoveAlertPass
      <3> QED
        BY <1>6, <1>9, <3>1
    <2>11. CASE RemoveDashboard
      <3>1. Closes(pass') /\ pass'.copy.id = None
        BY <2>11, RemoveDashboardPass
      <3> QED
        BY <1>9, <2>7, <3>1
    <2> QED
      BY <1>2, <2>1, <2>2, <2>3, <2>4, <2>5, <2>6, <2>8, <2>9, <2>10, <2>11, PassSteps
  <1> QED
    BY <1>10, <1>11, <1>12 DEF RefAfter, RefsNamed, Ref

-----------------------------------------------------------------------------
(* No pass makes an alert on a tile that is another's. *)

\* Every step but the two that make something.
DashesKept ==
    /\ \A i \in DOMAIN live' : i \in DOMAIN live /\ live'[i].dash = live[i].dash
    /\ made'.dashboards = made.dashboards

LEMMA DashesStay ==
    ASSUME StoreInv, PlanOK(pass), RefsNamed, TileFree, [Next]_vars, ~EnsureTile, ~EnsureAlert
    PROVE  DashesKept
  <1>1. CASE PushFields
    <2>1. /\ made' = made /\ DOMAIN live' = DOMAIN live
          /\ \A i \in DOMAIN live : live'[i].dash = live[i].dash
      BY <1>1, PushFieldsStep
    <2> QED
      BY <2>1 DEF DashesKept
  <1>2. CASE ~PushFields
    BY <1>2, OtherSteps DEF Lessens, DashesKept
  <1> QED
    BY <1>1, <1>2

LEMMA EarlyTile ==
    ASSUME StoreInv', PlanOK(pass'), pass'.pc \in Early
    PROVE  TileFree'
  <1>1. None \notin DOMAIN live' /\ made'.dashboards \in Nat
    BY DEF StoreInv, HyperDXTypeOK, AlertIds, None
  <1>2. ~pass'.create /\ pass'.target = None /\ pass'.dash = None /\ pass'.pc # "ensuringAlert"
    BY DEF PlanOK, NoPlanYet, Early
  <1> QED
    BY <1>1, <1>2 DEF TileFree, At, None

LEMMA NextTile ==
    ASSUME ClusterOK, StoreInv, PlanOK(pass), RefsNamed, TileFree, [Next]_vars
    PROVE  TileFree'
  <1>1. StoreInv' /\ PlanOK(pass')
    BY NextStore, NextPlan
  <1>2. HyperDXTypeOK /\ None \notin DOMAIN live' /\ None \notin DOMAIN live /\ None \notin AlertIds
        /\ DOMAIN live \subseteq AlertIds /\ made.dashboards \in Nat /\ made'.dashboards \in Nat
    BY <1>1 DEF StoreInv, HyperDXTypeOK, AlertIds, None
  <1>3. CASE EnsureTile
    <2>1. live' = live /\ made.dashboards <= made'.dashboards /\ pass.dash \in DashboardIds \cup {None}
          /\ pass.create /\ pass.target = None
      BY <1>3, EnsureTileStep DEF EnsureTile, At, PlanOK, KnowsItsTargets, Pass
    <2>2. CASE Ended
      <3>1. Closes(pass')
        BY <2>2, EndedCloses
      <3>2. pass'.dash <= made'.dashboards
        BY <1>2, <2>1, <3>1 DEF Closes, TileFree, DashboardIds, None
      <3> QED
        BY <1>2, <2>1, <3>1, <3>2 DEF Closes, TileFree, At
    <2>3. ASSUME NEW d \in DashboardIds,
                 pass' = [pass EXCEPT !.pc = "ensuringAlert", !.dash = d],
                 d <= made'.dashboards, \A i \in DOMAIN live : live[i].dash # d
          PROVE  TileFree'
      <3>1. pass'.pc = "ensuringAlert" /\ pass'.dash = d /\ pass'.target = None
        BY <1>3, <2>1, <2>3, TiledPlan DEF EnsureTile
      <3> QED
        BY <1>2, <2>1, <2>3, <3>1 DEF TileFree, At
    <2> QED
      BY <1>3, <2>2, <2>3, EnsureTileStep
  <1>4. CASE EnsureAlert
    <2>1. Closes(pass') /\ made'.dashboards = made.dashboards
      BY <1>4, EnsureAlertStep, EndedCloses
    <2>2. pass.create /\ pass.target = None
      BY <1>4 DEF EnsureAlert, At, PlanOK, KnowsItsTargets
    <2> QED
      BY <1>2, <2>1, <2>2 DEF Closes, TileFree, At
  <1>5. CASE ~EnsureTile /\ ~EnsureAlert
    <2>1. DashesKept
      BY <1>5, DashesStay
    <2>2. CASE pass' = pass
      BY <2>1, <2>2 DEF DashesKept, TileFree, At
    <2>3. CASE pass' = Idle
      BY <1>1, <2>3, EarlyTile DEF Idle, Early
    <2>4. CASE \E n \in Names : Begin(n)
      BY <1>1, <2>4, BeginPlan, EarlyTile
    <2>5. CASE Resets(pass')
      BY <1>1, <2>5, EarlyTile DEF Resets, Early
    <2>6. CASE Lists
      <3> DEFINE q == pass'
      <3>1. /\ PlanOK(q) /\ Found(q) /\ live' = live /\ made' = made
        BY <2>6 DEF Lists, hdx
      <3> HIDE DEF q
      <3>2. q.create => \A i \in DOMAIN live' : live'[i].dash \in q.taken \/ (i = q.shared /\ q.pc # "ensuringTile")
        BY <1>2, <3>1 DEF Found
      <3>3. q.target \in DOMAIN live' => live'[q.target].dash = q.dash
        BY <1>2, <3>1 DEF Found
      <3>4. q.dash <= made'.dashboards
        <4>1. CASE q.target = None
          BY <1>2, <3>1, <4>1 DEF Found, None
        <4>2. CASE q.target # None
          BY <3>1, <4>2 DEF Found, StoreInv, Numbered
        <4> QED
          BY <4>1, <4>2
      <3>5. q.pc # "ensuringAlert"
        BY <3>1 DEF Found
      <3> QED
        BY <3>2, <3>3, <3>4, <3>5 DEF q, TileFree, At
    <2>7. CASE Proceeds(pass')
      <3> DEFINE q == pass'
      <3>1. /\ q.create = pass.create /\ q.target = pass.target /\ q.dash = pass.dash
            /\ q.taken = pass.taken /\ q.shared = pass.shared /\ q.pc # "ensuringAlert"
        BY <2>7 DEF Proceeds, Later
      <3>2. q.pc = "ensuringTile" => q.shared \notin DOMAIN live'
        BY <1>2, <2>7 DEF Proceeds
      <3>3. q.create /\ q.pc \in {"finalizing", "deletingShared", "ensuringTile"} =>
              pass.pc \in {"finalizing", "deletingShared"}
        BY <2>7 DEF Proceeds, PlanOK, KnowsItsTargets, NoPlanYet, Early
      <3> HIDE DEF q
      <3>4. q.create /\ q.pc \in {"finalizing", "deletingShared", "ensuringTile"} =>
              \A i \in DOMAIN live' : live'[i].dash \in q.taken \/ (i = q.shared /\ q.pc # "ensuringTile")
        BY <2>1, <3>1, <3>2, <3>3 DEF DashesKept, TileFree
      <3>5. /\ q.target \in DOMAIN live' => live'[q.target].dash = q.dash
            /\ q.dash <= made'.dashboards
        BY <2>1, <3>1 DEF DashesKept, TileFree
      <3> QED
        BY <3>1, <3>4, <3>5 DEF q, TileFree, At
    <2>8. CASE RemoveAlert
      <3>1. pass'.target = None /\ ~pass'.create /\ pass'.dash = None /\ pass'.pc # "ensuringAlert"
        BY <2>8, RemoveAlertPass DEF RemoveAlert, At, PlanOK, NoPlanYet, Early
      <3> QED
        BY <1>2, <3>1 DEF TileFree, At, None
    <2>9. CASE RemoveDashboard
      <3>1. pass'.target = None /\ ~pass'.create /\ pass'.dash = None /\ pass'.pc # "ensuringAlert"
        BY <2>9, RemoveDashboardPass DEF RemoveDashboard, At, PlanOK, NoPlanYet, Early, Closes
      <3> QED
        BY <1>2, <3>1 DEF TileFree, At, None
    <2> QED
      BY <1>2, <1>5, <2>2, <2>3, <2>4, <2>5, <2>6, <2>7, <2>8, <2>9, PassSteps
  <1> QED
    BY <1>3, <1>4, <1>5

-----------------------------------------------------------------------------
(* A deletion in which no call failed is past what is gone. *)

LEMMA NextGone ==
    ASSUME ClusterOK, StoreInv, PlanOK(pass), RefsNamed, TileFree, GoneSoFar, [Next]_vars
    PROVE  GoneSoFar'
  <1> SUFFICES ASSUME pass'.base.deleting, faults' = 0
               PROVE  /\ pass'.pc = "deletingDashboard" => pass'.base.id \notin DOMAIN live'
                      /\ pass'.pc = "writing" =>
                           /\ pass'.copy.id = pass'.base.id \/ pass'.base.id \notin DOMAIN live'
                           /\ pass'.copy.dash = pass'.base.dash \/ pass'.base.dash \notin DOMAIN dashboards'
    BY DEF GoneSoFar, At
  <1>1. HyperDXTypeOK /\ StoreInv' /\ PlanOK(pass')
    BY NextStore, NextPlan DEF StoreInv
  <1>2. None \notin DOMAIN live' /\ None \notin DOMAIN dashboards'
    BY <1>1 DEF StoreInv, HyperDXTypeOK, AlertIds, DashboardIds, None
  <1>3. faults = 0
    <2>1. faults \in Nat /\ faults <= faults'
      BY <1>1, NextCluster DEF ClusterOK
    <2> QED
      BY <2>1
  <1>4. pass'.pc \in Deletion
    BY <1>1 DEF PlanOK, DeletesWhatItRead
  <1>5. pass.base.deleting => Lessens
    <2>1. pass.base.deleting => ~EnsureTile /\ ~EnsureAlert /\ ~PushFields
      BY DEF PlanOK, DeletesWhatItRead, Deletion, EnsureTile, EnsureAlert, PushFields, At
    <2> QED
      BY <2>1, OtherSteps
  <1>6. CASE pass' = pass
    BY <1>3, <1>5, <1>6 DEF GoneSoFar, At, Lessens
  <1>7. CASE pass' = Idle
    BY <1>7 DEF Idle
  <1>8. CASE \E n \in Names : Begin(n)
    <2>1. pass'.pc # "writing" /\ (pass'.pc = "deletingDashboard" => pass'.base.id = None)
      BY <1>8, BeginPlan DEF Early
    <2> QED
      BY <1>2, <2>1
  <1>9. CASE Resets(pass')
    BY <1>4, <1>9 DEF Resets, Deletion
  <1>10. CASE Lists
    BY <1>10 DEF Lists, List, At, PlanOK, DeletesWhatItRead, Deletion
  <1>11. CASE Proceeds(pass') /\ pass.pc \in Hooked
    BY <1>11, PlanFacts DEF Proceeds
  <1>12. CASE EnsureTile
    BY <1>12, EnsureTileStep, EndedCloses, TiledPlan DEF EnsureTile, Closes, At, PlanOK, DeletesWhatItRead, Deletion
  <1>13. CASE EnsureAlert
    BY <1>13, EnsureAlertStep, EndedCloses DEF EnsureAlert, Closes, At, PlanOK, DeletesWhatItRead, Deletion
  <1>14. CASE RemoveAlert
    <2>1. /\ pass.copy = pass.base /\ pass'.base = pass.base /\ pass'.copy.dash = pass.copy.dash
      BY <1>14, RemoveAlertPass
    <2>2. pass.copy.id \notin DOMAIN live'
      <3>1. DeleteAlert(pass.copy.id)
        BY <1>3, <1>14 DEF RemoveAlert, Fails
      <3> QED
        BY <3>1, DeleteAlertShrinks
    <2> QED
      BY <2>1, <2>2
  <1>15. CASE RemoveDashboard
    <2>1. pass.copy = pass.base /\ Closes(pass') /\ pass.pc = "deletingDashboard"
      BY <1>15, RemoveDashboardPass DEF RemoveDashboard, At
    <2>2. pass'.base = pass.base /\ pass'.pc = "writing"
      BY <2>1 DEF Closes
    <2>3. pass.copy.dash \notin DOMAIN dashboards'
      <3>1. DeleteDashboard(pass.copy.dash)
        BY <1>3, <1>15 DEF RemoveDashboard, Fails
      <3> QED
        BY <3>1, DeleteDashboardShrinks
    <2>4. pass.base.id \notin DOMAIN live'
      BY <1>3, <1>5, <2>1, <2>2 DEF GoneSoFar, At, Lessens
    <2> QED
      BY <2>1, <2>2, <2>3, <2>4
  <1> QED
    BY <1>1, <1>6, <1>7, <1>8, <1>9, <1>10, <1>11, <1>12, <1>13, <1>14, <1>15, PassSteps

-----------------------------------------------------------------------------
(* The inductive invariant. *)

LEMMA IInvParts == IInv <=>
    /\ StoreInv /\ ClusterOK /\ PlanOK(pass) /\ RefsNamed /\ TileFree /\ GoneSoFar
  BY DEF IInv, TypeOK, StoreInv, ClusterOK, PlanOK

\* The instances of Init: nothing in HyperDX, or one alert that every Alert claims.
LEMMA InitIInv ==
    ASSUME Init
    PROVE  IInv
  <1>1. /\ PlanOK(pass) /\ pass.copy.id = None /\ pass.base.id = None
        /\ pass.target = None /\ pass.dash = None /\ ~pass.create /\ pass.pc = "idle"
    BY IdlePlan DEF Init, Idle
  <1>2. /\ hookCache = None /\ moves = 0 /\ faults = 0 /\ crashes = 0 /\ cache = alerts
        /\ MaxMoves \in Nat /\ MaxFaults \in Nat /\ MaxCrashes \in Nat
    BY ReconcilerAssumption DEF Init, ReconcilerAssumption
  <1>3. MaxAlerts \in Nat \ {0} /\ MaxDashboards \in Nat \ {0} /\ MaxHooks \in Nat \ {0}
    BY BoundsAreBounds DEF Bounded
  <1>4. DOMAIN <<>> = {}
    OBVIOUS
  <1>5. GoneSoFar
    BY <1>1 DEF GoneSoFar, At
  <1> DEFINE Started == /\ StoreInv /\ AlertsOK /\ TileFree /\ made.alerts = Legacy
                        /\ DOMAIN live \subseteq {Legacy} /\ \A n \in DOMAIN alerts : alerts[n].id \in {None, Legacy}
  <1>6. ASSUME NEW w \in [Names -> Wheres], NEW b \in [Names -> Bounds],
               alerts = [n \in Names |-> New(w[n], b[n])],
               live = <<>>, dashboards = <<>>, hook = None,
               made = [alerts |-> Legacy, dashboards |-> LegacyDash, hooks |-> 0]
        PROVE  Started
    <2>1. \A n \in Names : New(w[n], b[n]) \in Alert /\ New(w[n], b[n]).id = None
      BY DEF New, Alert, Phases
    <2>2. AlertsOK /\ \A n \in DOMAIN alerts : alerts[n].id \in {None, Legacy}
      BY <1>6, <2>1 DEF AlertsOK
    <2>3. DOMAIN live = {} /\ DOMAIN dashboards = {}
      BY <1>4, <1>6
    <2>4. StoreInv
      BY <1>3, <1>6, <2>3 DEF StoreInv, HyperDXTypeOK, Numbered, OwnTile, OneAlertPerName, Legacy, LegacyDash
    <2>5. TileFree
      BY <1>1, <1>6, <2>3 DEF TileFree, At, None, LegacyDash
    <2> QED
      BY <1>6, <2>2, <2>3, <2>4, <2>5
  <1>7. ASSUME NEW w \in [Names -> Wheres], NEW b \in [Names -> Bounds],
               NEW n \in Names \cup {Display}, NEW m \in Names, NEW dash \in {None, LegacyDash},
               live = With(<<>>, Legacy, [name |-> n, dash |-> LegacyDash, bound |-> b[m], hook |-> 1]),
               dashboards = With(<<>>, LegacyDash, [name |-> m, where |-> w[m]]),
               hook = 1, made = [alerts |-> Legacy, dashboards |-> LegacyDash, hooks |-> 1],
               alerts = [o \in Names |-> Claiming(w[o], b[o], dash)]
        PROVE  Started
    <2> DEFINE la == [name |-> n, dash |-> LegacyDash, bound |-> b[m], hook |-> 1]
               d1 == [name |-> m, where |-> w[m]]
    <2>10. hook = 1 /\ made.alerts = 1 /\ made.dashboards = 1 /\ made.hooks = 1
           /\ made \in [alerts : 0 .. MaxAlerts, dashboards : 0 .. MaxDashboards, hooks : 0 .. MaxHooks]
      BY <1>3, <1>7 DEF Legacy, LegacyDash
    <2>11. Legacy \in AlertIds /\ dash \in DashboardIds \cup {None}
      BY <1>3 DEF AlertIds, DashboardIds, Legacy, LegacyDash, None
    <2>1. ASSUME NEW o \in Names
          PROVE  Claiming(w[o], b[o], dash) \in Alert /\ Claiming(w[o], b[o], dash).id = Legacy
      BY <2>11 DEF Claiming, Alert, Phases
    <2>2. AlertsOK /\ \A o \in DOMAIN alerts : alerts[o].id \in {None, Legacy}
      BY <1>7, <2>1 DEF AlertsOK
    <2>3. la \in LiveAlert /\ la.dash = 1 /\ d1 \in Dashboard
      BY <1>3 DEF LiveAlert, Dashboard, DashboardIds, HookIds, LegacyDash
    <2> HIDE DEF la, d1
    <2>4. DOMAIN live = {Legacy} /\ live[Legacy] = la
      BY <1>4, <1>7 DEF With, la
    <2>5. DOMAIN dashboards = {1} /\ dashboards[1] = d1
      BY <1>4, <1>7 DEF With, d1, LegacyDash
    <2>6. HyperDXTypeOK
      BY <1>3, <2>3, <2>4, <2>5, <2>10 DEF HyperDXTypeOK, AlertIds, DashboardIds, HookIds, Legacy
    <2>7. Numbered
      BY <2>3, <2>4, <2>5, <2>10 DEF Numbered, Legacy
    <2>8. OwnTile /\ OneAlertPerName
      BY <2>4 DEF OwnTile, OneAlertPerName
    <2>9. TileFree
      BY <1>1, <2>4, <2>10 DEF TileFree, At, None, Legacy
    <2> QED
      BY <2>2, <2>4, <2>6, <2>7, <2>8, <2>9, <2>10 DEF StoreInv, Legacy
  <1> HIDE DEF Started
  <1>8. Started
    BY <1>6, <1>7 DEF Init
  <1>9. ClusterOK
    BY <1>2, <1>8 DEF ClusterOK, AlertsOK, Started
  <1>10. RefsNamed
    <2>1. \A n : Ref(None, n) /\ Ref(Legacy, n)
      BY <1>8 DEF Ref, Legacy, None, Started
    <2> QED
      BY <1>1, <1>2, <1>8, <2>1 DEF RefsNamed, Started
  <1> QED
    BY <1>1, <1>5, <1>8, <1>9, <1>10, IInvParts DEF Started

LEMMA NextIInv ==
    ASSUME IInv, [Next]_vars
    PROVE  IInv'
  <1>1. /\ StoreInv /\ ClusterOK /\ PlanOK(pass) /\ RefsNamed /\ TileFree /\ GoneSoFar /\ HyperDXTypeOK
    BY IInvParts DEF StoreInv
  <1>2. StoreInv'
    BY <1>1, NextStore
  <1>3. ClusterOK'
    BY <1>1, NextCluster
  <1>4. PlanOK(pass')
    BY <1>1, NextPlan
  <1>5. RefsNamed'
    BY <1>1, NextRefs
  <1>6. TileFree'
    BY <1>1, NextTile
  <1>7. GoneSoFar'
    BY <1>1, NextGone
  <1>8. TypeOK'
    BY <1>2, <1>3, <1>4 DEF TypeOK, StoreInv, ClusterOK, PlanOK
  <1> QED
    BY <1>2, <1>4, <1>5, <1>6, <1>7, <1>8 DEF IInv, StoreInv

LEMMA Inductive == Spec => []IInv
  BY InitIInv, NextIInv, PTL DEF Spec

\* The reconciler's variables keep their types: a pass that pushes or creates has the webhook and the
\* tile it names, so that what it sends is an alert.
THEOREM ReconcilerTypes == Spec => []TypeOK
  <1>1. IInv => TypeOK
    BY DEF IInv
  <1> QED
    BY <1>1, Inductive, PTL

\* No two alerts evaluate one tile: EnsureDashboardTile's tile is free when EnsureAlert uses it, and
\* UpdateAlert leaves an alert on the tile it has.
THEOREM TilesAreOwn == Spec => []OwnTile
  <1>1. IInv => OwnTile
    BY DEF IInv
  <1> QED
    BY <1>1, Inductive, PTL

\* The provider never makes two alerts of one name, however often a status id is lost: EnsureAlert
\* asks for the name first, and no push gives an alert the provider made another name.
THEOREM NamesAreOwn == Spec => []OneAlertPerName
  <1>1. IInv => OneAlertPerName
    BY DEF IInv
  <1> QED
    BY <1>1, Inductive, PTL

-----------------------------------------------------------------------------
(* What no step does. *)

LEMMA SparesNamesakes ==
    ASSUME IInv, [Next]_vars, NEW i \in pass.owned, i \in DOMAIN live, UNCHANGED moves
    PROVE  i \in DOMAIN live' /\ live'[i].name = live[i].name
  <1>1. /\ StoreInv /\ ClusterOK /\ PlanOK(pass) /\ RefsNamed /\ TileFree
    BY IInvParts
  <1>2. pass.pc \notin Early /\ i # pass.target /\ i # pass.shared
    BY <1>1 DEF PlanOK, NoPlanYet, SparesTheOwned
  <1>3. CASE live' = live
    BY <1>3
  <1>4. CASE EnsureTile
    BY <1>1, <1>3, <1>4, EnsureTileStep
  <1>5. CASE EnsureAlert
    BY <1>1, <1>5, EnsureAlertStep
  <1>6. CASE PushFields
    BY <1>1, <1>2, <1>6, PushFieldsStep
  <1>7. CASE DeleteShared
    <2>1. UNCHANGED hdx \/ DeleteAlert(pass.shared)
      BY <1>7 DEF DeleteShared
    <2>2. CASE DeleteAlert(pass.shared)
      BY <1>2, <2>2, DeleteAlertShrinks DEF Shrinks
    <2> QED
      BY <1>3, <2>1, <2>2 DEF hdx
  <1>8. CASE PushWhere
    BY <1>3, <1>8 DEF PushWhere, PutDashboard, hdx
  <1>9. CASE DropAlert
    <2>1. moves \in Nat /\ moves' = moves + 1
      BY <1>1, <1>9 DEF ClusterOK, DropAlert, Moving
    <2> QED
      BY <2>1
  <1>10. CASE ResetDelete \/ RemoveAlert \/ RemoveDashboard
    BY <1>2, <1>10 DEF ResetDelete, RemoveAlert, RemoveDashboard, At, Early
  <1>11. CASE Connect
    BY <1>2, <1>11 DEF Connect, At, Early
  <1>12. CASE \/ ResetList \/ ResetPatch \/ ResetDone \/ Refuse \/ List \/ ReadTile \/ AddFinalizer
              \/ RemoveFinalizer \/ WriteStatus
    BY <1>3, <1>12 DEF ResetList, ResetPatch, ResetDone, Refuse, List, ReadTile, AddFinalizer,
                       RemoveFinalizer, WriteStatus, hdx
  <1>13. CASE UNCHANGED vars \/ Expire \/ Crash \/ DropHook \/ \E n \in Names : Begin(n) \/ Sync(n)
    BY <1>3, <1>13 DEF vars, Expire, Crash, DropHook, Begin, Sync, hdx
  <1>14. CASE \E n \in Names : EditAlert(n) \/ RemoveCR(n) \/ CreateCR(n)
    BY <1>3, <1>14 DEF EditAlert, RemoveCR, CreateCR, hdx
  <1> QED
    BY <1>4, <1>5, <1>6, <1>7, <1>8, <1>9, <1>10, <1>11, <1>12, <1>13, <1>14 DEF Next, PassStep, People

\* A pass that has seen an alert to be another Alert's own neither renames nor deletes it (release).
THEOREM NamesakesStay == Spec => NamedStays
  <1> DEFINE Spares == \A i \in pass.owned : i \in DOMAIN live /\ UNCHANGED moves =>
                         i \in DOMAIN live' /\ live'[i].name = live[i].name
  <1>1. IInv /\ [Next]_vars => [Spares]_vars
    BY SparesNamesakes
  <1> HIDE DEF Spares
  <1>2. Spec => [][Spares]_vars
    BY <1>1, Inductive, PTL DEF Spec
  <1> QED
    BY <1>2 DEF NamedStays, Spares

\* What a deletion must have done before an Alert goes or forgets an id.
KeepsOrIsGone(n) ==
    LET a == alerts[n]
        kept == n \in DOMAIN alerts'
    IN  a.deleting /\ faults' = 0 /\ ~At("clearing") =>
           /\ a.id \in DOMAIN live => a.id \notin DOMAIN live' \/ (kept /\ alerts'[n].id = a.id)
           /\ a.dash \in DOMAIN dashboards =>
                a.dash \notin DOMAIN dashboards' \/ (kept /\ alerts'[n].dash = a.dash)

LEMMA DeletesWhatIsNamed ==
    ASSUME IInv, [Next]_vars, NEW n \in DOMAIN alerts
    PROVE  KeepsOrIsGone(n)
  <1> SUFFICES ASSUME alerts[n].deleting, faults' = 0, ~At("clearing")
               PROVE  KeepsOrIsGone(n)
    BY DEF KeepsOrIsGone
  <1> DEFINE a == alerts[n]
             Same == n \in DOMAIN alerts' /\ alerts'[n].id = a.id /\ alerts'[n].dash = a.dash
  <1>1. /\ StoreInv /\ ClusterOK /\ PlanOK(pass) /\ GoneSoFar /\ HyperDXTypeOK /\ a \in Alert
    BY IInvParts DEF StoreInv, ClusterOK
  <1>2. faults = 0
    <2>1. faults \in Nat /\ faults <= faults'
      BY <1>1, NextCluster DEF ClusterOK
    <2> QED
      BY <2>1
  <1>3. CASE Same
    BY <1>3 DEF KeepsOrIsGone
  <1>4. CASE alerts' = alerts
    BY <1>3, <1>4
  <1>5. CASE AddFinalizer
    <2> DEFINE g == [pass.base EXCEPT !.finalizer = TRUE]
    <2>1. alerts' = alerts \/ (Current /\ alerts' = [alerts EXCEPT ![pass.name] = g])
      BY <1>5 DEF AddFinalizer
    <2>2. g.id = pass.base.id /\ g.dash = pass.base.dash
      BY <1>1 DEF PlanOK, Pass, Alert
    <2> HIDE DEF g
    <2>3. CASE Current /\ alerts' = [alerts EXCEPT ![pass.name] = g]
      BY <1>3, <2>2, <2>3 DEF Current
    <2> QED
      BY <1>4, <2>1, <2>3
  <1>6. CASE WriteStatus
    <2>1. \/ alerts' = alerts
          \/ /\ Current
             /\ alerts' = [alerts EXCEPT ![pass.name].id = pass.copy.id, ![pass.name].dash = pass.copy.dash,
                                         ![pass.name].phase = pass.copy.phase]
      BY <1>6 DEF WriteStatus
    <2>2. CASE /\ Current
               /\ alerts' = [alerts EXCEPT ![pass.name].id = pass.copy.id, ![pass.name].dash = pass.copy.dash,
                                           ![pass.name].phase = pass.copy.phase]
      <3> DEFINE s == [alerts[pass.name] EXCEPT !.id = pass.copy.id, !.dash = pass.copy.dash,
                                                !.phase = pass.copy.phase]
      <3>1. pass.name \in DOMAIN alerts /\ alerts[pass.name] \in Alert /\ alerts[pass.name] = pass.base
        BY <1>1, <2>2 DEF Current, ClusterOK
      <3>2. s.id = pass.copy.id /\ s.dash = pass.copy.dash
        BY <3>1 DEF Alert
      <3>3. alerts' = [alerts EXCEPT ![pass.name] = s]
        BY <2>2, <3>1
      <3> HIDE DEF s
      <3>4. CASE n # pass.name
        BY <1>3, <3>3, <3>4
      <3>5. CASE n = pass.name
        <4>1. n \in DOMAIN alerts' /\ alerts'[n] = s /\ a = pass.base
          BY <3>1, <3>3, <3>5
        <4>2. /\ pass.copy.id = pass.base.id \/ pass.base.id \notin DOMAIN live
              /\ pass.copy.dash = pass.base.dash \/ pass.base.dash \notin DOMAIN dashboards
          BY <1>1, <1>2, <1>6, <4>1 DEF GoneSoFar, WriteStatus
        <4> QED
          BY <3>2, <4>1, <4>2 DEF KeepsOrIsGone
      <3> QED
        BY <3>4, <3>5
    <2> QED
      BY <1>4, <2>1, <2>2
  <1>7. CASE RemoveFinalizer
    <2>1. alerts' = alerts \/ (Current /\ alerts' = Without(alerts, {pass.name}))
      BY <1>7 DEF RemoveFinalizer
    <2>2. CASE Current /\ alerts' = Without(alerts, {pass.name})
      <3>1. CASE n # pass.name
        BY <1>3, <2>2, <3>1 DEF Without
      <3>2. CASE n = pass.name
        <4>1. a.id = None /\ a.dash = None
          BY <1>1, <1>7, <2>2, <3>2 DEF Current, PlanOK, DeletesWhatItRead, RemoveFinalizer, At
        <4>2. None \notin DOMAIN live /\ None \notin DOMAIN dashboards
          BY <1>1 DEF HyperDXTypeOK, AlertIds, DashboardIds, None
        <4> QED
          BY <4>1, <4>2 DEF KeepsOrIsGone
      <3> QED
        BY <3>1, <3>2
    <2> QED
      BY <1>4, <2>1, <2>2
  <1>8. ASSUME NEW m \in Names, EditAlert(m)
        PROVE  KeepsOrIsGone(n)
    <2>1. PICK w \in Wheres, b \in Bounds : alerts' = [alerts EXCEPT ![m].where = w, ![m].bound = b]
      BY <1>8 DEF EditAlert
    <2> DEFINE e == [alerts[m] EXCEPT !.where = w, !.bound = b]
    <2>2. m \in DOMAIN alerts /\ alerts[m] \in Alert
      BY <1>1, <1>8 DEF EditAlert, ClusterOK
    <2>3. e.id = alerts[m].id /\ e.dash = alerts[m].dash
      BY <2>2 DEF Alert
    <2>4. alerts' = [alerts EXCEPT ![m] = e]
      BY <2>1, <2>2
    <2> HIDE DEF e
    <2> QED
      BY <1>3, <2>3, <2>4
  <1>9. ASSUME NEW m \in Names, RemoveCR(m)
        PROVE  KeepsOrIsGone(n)
    <2>1. n # m
      BY <1>9 DEF RemoveCR
    <2> QED
      BY <1>3, <1>9, <2>1 DEF RemoveCR, Without
  <1>10. ASSUME NEW m \in Names, CreateCR(m)
        PROVE  KeepsOrIsGone(n)
    <2>1. n # m
      BY <1>10 DEF CreateCR
    <2> QED
      BY <1>3, <1>10, <2>1 DEF CreateCR, With
  <1>11. CASE ResetPatch
    BY <1>11 DEF ResetPatch
  <1>12. CASE Connect \/ ResetList \/ ResetDelete \/ ResetDone \/ Refuse \/ List \/ ReadTile
    BY <1>4, <1>12 DEF Connect, ResetList, ResetDelete, ResetDone, Refuse, List, ReadTile, cluster
  <1>13. CASE DeleteShared \/ EnsureTile \/ EnsureAlert \/ PushWhere \/ PushFields \/ RemoveAlert \/ RemoveDashboard
    BY <1>4, <1>13 DEF DeleteShared, EnsureTile, EnsureAlert, PushWhere, PushFields, RemoveAlert,
                       RemoveDashboard, cluster
  <1>14. CASE UNCHANGED vars \/ Expire \/ Crash \/ DropAlert \/ DropHook \/ \E m \in Names : Begin(m) \/ Sync(m)
    BY <1>4, <1>14 DEF vars, cluster, Expire, Crash, DropAlert, DropHook, Begin, Sync
  <1> QED
    BY <1>5, <1>6, <1>7, <1>8, <1>9, <1>10, <1>11, <1>12, <1>13, <1>14 DEF Next, PassStep, People

\* A deleted Alert goes, or forgets an id, only once what its status names is gone from HyperDX, if
\* no call failed: Delete's two calls come before the status write and the finalizer's end, and each
\* of those only counts if the Alert is still the one the pass read.
THEOREM DeletionsAreComplete == Spec => DeletionIsComplete
  <1> DEFINE Completes == \A n \in DOMAIN alerts : KeepsOrIsGone(n)
  <1>1. IInv /\ [Next]_vars => [Completes]_vars
    BY DeletesWhatIsNamed
  <1> HIDE DEF Completes
  <1>2. Spec => [][Completes]_vars
    BY <1>1, Inductive, PTL DEF Spec
  <1> QED
    BY <1>2 DEF DeletionIsComplete, Completes, KeepsOrIsGone

-----------------------------------------------------------------------------
(* A pass reaches HyperDX only through what is its own. *)

\* The steps from the plan of a create to the create.
Creation == {"finalizing", "deletingShared", "ensuringTile", "ensuringAlert"}

\* An alert is made where none has its name, on a dashboard of the Alert's.
CreatesItsOwn ==
    /\ pass.create /\ pass.pc \in Creation => Named(pass.name) = {}
    /\ At("ensuringAlert") => pass.dash \in DOMAIN dashboards /\ dashboards[pass.dash].name = pass.name

\* The inherited alert stays on its dashboard.
LegacyStays ==
    /\ LegacyDash <= made.dashboards
    /\ Legacy \in DOMAIN live => live[Legacy].dash = LegacyDash

\* A dashboard that an Alert n has, had or will have: one of its own name, with nobody else's alert
\* on it, the inherited alert's, or one gone.
DashRef(d, n) ==
    /\ d <= made.dashboards
    /\ d > LegacyDash => /\ \A i \in DOMAIN live : live[i].dash = d => live[i].name = n
                         /\ d \in DOMAIN dashboards => dashboards[d].name = n
DashesNamed ==
    /\ \A i \in DOMAIN live : DashRef(live[i].dash, live[i].name)
    /\ \A n \in DOMAIN alerts : DashRef(alerts[n].dash, n)
    /\ \A n \in DOMAIN cache : DashRef(cache[n].dash, n)
    /\ DashRef(pass.copy.dash, pass.name) /\ DashRef(pass.base.dash, pass.name)
    /\ DashRef(pass.dash, pass.name)

OwnInv == IInv /\ CreatesItsOwn /\ LegacyStays /\ DashesNamed /\ Ref(pass.shared, pass.name)

LEMMA InitOwn ==
    ASSUME Init
    PROVE  OwnInv
  <1>1. IInv
    BY InitIInv
  <1>2. /\ pass.pc = "idle" /\ pass.copy.dash = None /\ pass.base.dash = None
        /\ pass.dash = None /\ pass.shared = None
    BY DEF Init, Idle, Nobody, New
  <1>3. CreatesItsOwn
    BY <1>2 DEF CreatesItsOwn, Creation, At
  <1> DEFINE Legacies == /\ made.dashboards = LegacyDash
                         /\ \A i \in DOMAIN live : live[i].dash = LegacyDash
                         /\ \A o \in DOMAIN alerts : alerts[o].dash \in {None, LegacyDash}
  <1>4. Legacies /\ cache = alerts
    <2>1. \A w, b, d : New(w, b).dash = None /\ Claiming(w, b, d).dash = d
      BY DEF New, Claiming
    <2>2. DOMAIN <<>> = {}
      OBVIOUS
    <2>3. \A n, b : LET la == [name |-> n, dash |-> LegacyDash, bound |-> b, hook |-> 1]
                    IN  \A i \in DOMAIN With(<<>>, Legacy, la) : With(<<>>, Legacy, la)[i].dash = LegacyDash
      BY <2>2 DEF With
    <2>4. cache = alerts
      BY DEF Init
    <2>5. ASSUME NEW w \in [Names -> Wheres], NEW b \in [Names -> Bounds],
                 alerts = [n \in Names |-> New(w[n], b[n])], live = <<>>, dashboards = <<>>, hook = None,
                 made = [alerts |-> Legacy, dashboards |-> LegacyDash, hooks |-> 0]
          PROVE  Legacies
      BY <2>1, <2>2, <2>5
    <2>6. ASSUME NEW w \in [Names -> Wheres], NEW b \in [Names -> Bounds],
                 NEW n \in Names \cup {Display}, NEW m \in Names, NEW d \in {None, LegacyDash},
                 live = With(<<>>, Legacy, [name |-> n, dash |-> LegacyDash, bound |-> b[m], hook |-> 1]),
                 made = [alerts |-> Legacy, dashboards |-> LegacyDash, hooks |-> 1],
                 alerts = [o \in Names |-> Claiming(w[o], b[o], d)]
          PROVE  Legacies
      BY <2>1, <2>3, <2>6
    <2> HIDE DEF Legacies
    <2> QED
      BY <2>4, <2>5, <2>6 DEF Init
  <1>5. \A n : DashRef(None, n) /\ DashRef(LegacyDash, n)
    BY <1>4 DEF DashRef, LegacyDash, None
  <1>6. Ref(pass.shared, pass.name)
    BY <1>1, <1>2 DEF Ref, IInv, Numbered, TypeOK, HyperDXTypeOK, AlertIds, None, Legacy
  <1> QED
    BY <1>1, <1>2, <1>3, <1>4, <1>5, <1>6 DEF OwnInv, LegacyStays, DashesNamed, LegacyDash

\* An alert stays on its dashboard under its name, and one on another dashboard is new, of the
\* dashboard's name.
AlertsStay ==
    /\ \A i \in DOMAIN live' : live'[i].dash > LegacyDash =>
         \/ i \in DOMAIN live /\ live'[i].dash = live[i].dash /\ live'[i].name = live[i].name
         \/ live'[i].dash \in DOMAIN dashboards /\ dashboards[live'[i].dash].name = live'[i].name
    /\ Legacy \in DOMAIN live' => Legacy \in DOMAIN live /\ live'[Legacy].dash = live[Legacy].dash

LEMMA LessensStays ==
    ASSUME Lessens
    PROVE  AlertsStay
  BY DEF Lessens, AlertsStay

\* A create finds no alert of its name, so it makes one, on the dashboard it ensured.
LEMMA CreateStays ==
    ASSUME OwnInv, EnsureAlert
    PROVE  /\ AlertsStay /\ dashboards' = dashboards
           /\ \A i \in DOMAIN live : i \in DOMAIN live' /\ live'[i] = live[i]
  <1>1. /\ StoreInv /\ PlanOK(pass) /\ TileFree
        /\ Named(pass.name) = {} /\ pass.pc = "ensuringAlert"
        /\ pass.dash \in DOMAIN dashboards /\ dashboards[pass.dash].name = pass.name
    BY IInvParts DEF OwnInv, CreatesItsOwn, Creation, EnsureAlert, At, PlanOK, KnowsItsTargets
  <1>2. Body \in LiveAlert /\ Body.name = pass.name /\ Body.dash = pass.dash
    BY <1>1, BodyFacts DEF At
  <1>3. UNCHANGED hdx \/ PostAlert(Body)
    BY <1>1 DEF EnsureAlert
  <1>4. CASE UNCHANGED hdx
    BY <1>4 DEF hdx, AlertsStay
  <1>5. CASE PostAlert(Body)
    <2>1. (\A i \in DOMAIN live : live[i].dash # pass.dash) /\ pass.dash <= made.dashboards
      BY <1>1 DEF TileFree, At
    <2>2. /\ made'.alerts = made.alerts + 1 /\ DOMAIN live' = DOMAIN live \cup {made'.alerts}
          /\ live'[made'.alerts] = Body /\ \A i \in DOMAIN live : live'[i] = live[i]
      BY <1>1, <1>2, <1>5, <2>1, StorePostAlert
    <2>3. made'.alerts # Legacy
      BY <1>1, <2>2 DEF StoreInv, HyperDXTypeOK, Numbered, Legacy
    <2> QED
      BY <1>1, <1>2, <1>5, <2>2, <2>3 DEF AlertsStay, PostAlert
  <1> QED
    BY <1>3, <1>4, <1>5

LEMMA NextAlertsStay ==
    ASSUME OwnInv, [Next]_vars
    PROVE  AlertsStay
  <1>1. StoreInv /\ PlanOK(pass) /\ RefsNamed /\ TileFree
    BY IInvParts DEF OwnInv
  <1>2. CASE EnsureTile
    BY <1>1, <1>2, EnsureTileStep DEF AlertsStay
  <1>3. CASE EnsureAlert
    BY <1>3, CreateStays
  <1>4. CASE PushFields
    <2>1. /\ DOMAIN live' = DOMAIN live
          /\ \A i \in DOMAIN live : live'[i].dash = live[i].dash
          /\ \A i \in DOMAIN live \ {pass.target} : live'[i] = live[i]
          /\ pass.target \in DOMAIN live \ {Legacy} => live'[pass.target].name = live[pass.target].name
      BY <1>1, <1>4, PushFieldsStep
    <2>2. Legacy \in DOMAIN live => ~(live[Legacy].dash > LegacyDash)
      BY DEF OwnInv, LegacyStays, LegacyDash
    <2> QED
      BY <2>1, <2>2 DEF AlertsStay
  <1>5. CASE ~EnsureTile /\ ~EnsureAlert /\ ~PushFields
    BY <1>1, <1>5, OtherSteps, LessensStays
  <1> QED
    BY <1>2, <1>3, <1>4, <1>5

LEMMA NextTilesKept ==
    ASSUME OwnInv, [Next]_vars
    PROVE  TilesKept
  <1>1. /\ StoreInv /\ PlanOK(pass) /\ RefsNamed /\ TileFree /\ made.dashboards \in Nat
        /\ DashRef(pass.dash, pass.name)
    BY IInvParts DEF OwnInv, DashesNamed, StoreInv, HyperDXTypeOK
  <1>2. CASE EnsureTile
    BY <1>1, <1>2, EnsureTileStep
  <1>3. CASE ~EnsureTile
    <2>1. made'.dashboards = made.dashboards
      <3>1. CASE EnsureAlert
        BY <1>1, <3>1, EnsureAlertStep
      <3>2. CASE ~EnsureAlert
        BY <1>1, <1>3, <3>2, DashesStay DEF DashesKept
      <3> QED
        BY <3>1, <3>2
    <2>2. \/ UNCHANGED dashboards
          \/ DeleteDashboard(pass.copy.dash)
          \/ PutDashboard(pass.dash, [name |-> pass.name, where |-> pass.copy.where]) /\ pass.dash \in DOMAIN dashboards
      <3>1. CASE UNCHANGED vars \/ Expire \/ Crash \/ \E n \in Names : Begin(n) \/ Sync(n)
        BY <3>1 DEF vars, Expire, Crash, Begin, Sync, hdx
      <3>2. CASE People
        BY <3>2 DEF People, DropAlert, DropHook, EditAlert, RemoveCR, CreateCR, DeleteAlert, hdx
      <3>3. CASE Connect \/ ResetList \/ ResetDelete \/ ResetPatch \/ ResetDone \/ Refuse \/ List \/ ReadTile
        BY <3>3 DEF Connect, ResetList, ResetDelete, ResetPatch, ResetDone, Refuse, List, ReadTile,
                    PostHook, DeleteAlert, hdx
      <3>4. CASE AddFinalizer \/ DeleteShared \/ RemoveAlert \/ RemoveFinalizer \/ WriteStatus
        BY <3>4 DEF AddFinalizer, DeleteShared, RemoveAlert, RemoveFinalizer, WriteStatus, DeleteAlert, hdx
      <3>5. CASE EnsureAlert \/ PushFields
        BY <3>5 DEF EnsureAlert, PushFields, PostAlert, PutAlert, hdx
      <3>6. CASE PushWhere \/ RemoveDashboard
        BY <3>6 DEF PushWhere, RemoveDashboard, hdx
      <3> QED
        BY <1>3, <3>1, <3>2, <3>3, <3>4, <3>5, <3>6 DEF Next, PassStep
    <2>3. CASE UNCHANGED dashboards
      BY <1>1, <2>1, <2>3 DEF TilesKept
    <2>4. CASE DeleteDashboard(pass.copy.dash)
      BY <1>1, <2>1, <2>4, DeleteDashboardShrinks DEF TilesKept, Shrinks
    <2>5. CASE /\ PutDashboard(pass.dash, [name |-> pass.name, where |-> pass.copy.where])
               /\ pass.dash \in DOMAIN dashboards
      <3>1. pass.dash > LegacyDash => dashboards[pass.dash].name = pass.name
        BY <1>1, <2>5 DEF DashRef
      <3>2. /\ DOMAIN dashboards' = DOMAIN dashboards /\ dashboards'[pass.dash].name = pass.name
            /\ \A d \in DOMAIN dashboards \ {pass.dash} : dashboards'[d] = dashboards[d]
        BY <2>5 DEF PutDashboard
      <3> QED
        BY <1>1, <2>1, <3>1, <3>2 DEF TilesKept
    <2> QED
      BY <2>2, <2>3, <2>4, <2>5
  <1> QED
    BY <1>2, <1>3

DashRefAfter(d, n) ==
    /\ d <= made'.dashboards
    /\ d > LegacyDash => /\ \A i \in DOMAIN live' : live'[i].dash = d => live'[i].name = n
                         /\ d \in DOMAIN dashboards' => dashboards'[d].name = n

LEMMA DashRefKept ==
    ASSUME HyperDXTypeOK, HyperDXTypeOK', AlertsStay, TilesKept,
           NEW n, NEW d \in DashboardIds \cup {None}, DashRef(d, n)
    PROVE  DashRefAfter(d, n)
  <1>1. d \in Nat /\ made.dashboards \in Nat /\ made'.dashboards \in Nat
    BY DEF HyperDXTypeOK, DashboardIds, None
  <1>2. d <= made.dashboards /\ made.dashboards <= made'.dashboards
    BY DEF DashRef, TilesKept
  <1>3. ASSUME d > LegacyDash, NEW i \in DOMAIN live', live'[i].dash = d
        PROVE  live'[i].name = n
    BY <1>3 DEF DashRef, AlertsStay
  <1>4. ASSUME d > LegacyDash, d \in DOMAIN dashboards'
        PROVE  dashboards'[d].name = n
    BY <1>1, <1>2, <1>4 DEF DashRef, TilesKept
  <1> QED
    BY <1>1, <1>2, <1>3, <1>4 DEF DashRefAfter

\* An alert's dashboard is named after it, and nobody else is on it.
LEMMA NextLiveNamed ==
    ASSUME OwnInv, [Next]_vars, NEW i \in DOMAIN live'
    PROVE  DashRefAfter(live'[i].dash, live'[i].name)
  <1> DEFINE d == live'[i].dash
  <1>1. /\ StoreInv /\ StoreInv' /\ AlertsStay /\ TilesKept
    BY IInvParts, NextStore, NextAlertsStay, NextTilesKept DEF OwnInv
  <1>2. /\ d \in Nat /\ d <= made'.dashboards
        /\ made.dashboards \in Nat /\ \A e \in DOMAIN dashboards : e \in Nat /\ e <= made.dashboards
        /\ \A j \in DOMAIN live : live[j].dash \in Nat /\ live[j].dash <= made.dashboards
    BY <1>1 DEF StoreInv, HyperDXTypeOK, Numbered, LiveAlert, DashboardIds
  <1>3. \A j \in DOMAIN live' : live'[j].dash = d => live'[j].name = live'[i].name
    BY <1>1 DEF StoreInv, OwnTile
  <1>4. ASSUME d > LegacyDash, d \in DOMAIN dashboards'
        PROVE  dashboards'[d].name = live'[i].name
    <2>1. CASE i \in DOMAIN live /\ live'[i].dash = live[i].dash /\ live'[i].name = live[i].name
      <3>1. DashRef(d, live'[i].name) /\ d <= made.dashboards
        BY <1>2, <2>1 DEF OwnInv, DashesNamed
      <3> QED
        BY <1>1, <1>2, <1>4, <3>1 DEF DashRef, TilesKept
    <2>2. CASE d \in DOMAIN dashboards /\ dashboards[d].name = live'[i].name
      BY <1>1, <1>2, <1>4, <2>2 DEF TilesKept
    <2> QED
      BY <1>1, <1>4, <2>1, <2>2 DEF AlertsStay
  <1> QED
    BY <1>2, <1>3, <1>4 DEF DashRefAfter

\* What a step leaves a pass with.
LEMMA NextPassNamed ==
    ASSUME OwnInv, [Next]_vars
    PROVE  /\ DashRefAfter(pass'.copy.dash, pass'.name) /\ DashRefAfter(pass'.base.dash, pass'.name)
           /\ DashRefAfter(pass'.dash, pass'.name) /\ RefAfter(pass'.shared, pass'.name)
  <1>1. /\ StoreInv /\ ClusterOK /\ PlanOK(pass) /\ RefsNamed /\ TileFree
        /\ StoreInv' /\ PlanOK(pass') /\ StableNames /\ AlertsStay /\ TilesKept
    BY IInvParts, NextStore, NextPlan, NextAlertsStay, NextTilesKept DEF OwnInv
  <1>2. HyperDXTypeOK /\ HyperDXTypeOK'
    BY <1>1 DEF StoreInv
  <1>3. /\ pass.copy.dash \in DashboardIds \cup {None} /\ pass.base.dash \in DashboardIds \cup {None}
        /\ pass.dash \in DashboardIds \cup {None} /\ pass.shared \in AlertIds \cup {None}
        /\ pass.copy.id \in AlertIds \cup {None}
    BY <1>1 DEF PlanOK, Pass, Alert
  <1>4. /\ DashRefAfter(pass.copy.dash, pass.name) /\ DashRefAfter(pass.base.dash, pass.name)
        /\ DashRefAfter(pass.dash, pass.name)
    BY <1>1, <1>2, <1>3, DashRefKept DEF OwnInv, DashesNamed
  <1>5. RefAfter(pass.shared, pass.name) /\ RefAfter(pass.copy.id, pass.name)
    BY <1>1, <1>2, <1>3, RefKept DEF OwnInv, RefsNamed
  <1>6. \A n : DashRefAfter(None, n) /\ RefAfter(None, n)
    <2>1. \A n : RefAfter(None, n)
      BY <1>2, RefNone
    <2>2. \A n : DashRefAfter(None, n)
      BY <1>2 DEF HyperDXTypeOK, DashRefAfter, LegacyDash, None
    <2> QED
      BY <2>1, <2>2
  <1>7. \A n \in DOMAIN cache : DashRefAfter(cache[n].dash, n)
    BY <1>1, <1>2, DashRefKept DEF OwnInv, DashesNamed, ClusterOK, Alert
  <1> DEFINE OwnPass == /\ DashRefAfter(pass'.copy.dash, pass'.name) /\ DashRefAfter(pass'.base.dash, pass'.name)
                       /\ DashRefAfter(pass'.dash, pass'.name) /\ RefAfter(pass'.shared, pass'.name)
  <1>8. CASE pass' = pass
    BY <1>4, <1>5, <1>8
  <1>9. CASE pass' = Idle
    <2>1. Idle.copy.dash = None /\ Idle.base.dash = None /\ Idle.dash = None /\ Idle.shared = None
      BY DEF Idle, Nobody, New
    <2> QED
      BY <1>6, <1>9, <2>1
  <1>10. ASSUME NEW n \in Names, Begin(n) PROVE OwnPass
    <2>1. /\ n \in DOMAIN cache /\ pass'.pc \in Early
          /\ pass'.name = n /\ pass'.copy = cache[n] /\ pass'.base = cache[n]
      BY <1>1, <1>10, BeginPlan
    <2>2. pass'.dash = None /\ pass'.shared = None
      BY <1>1, <2>1 DEF PlanOK, NoPlanYet
    <2> QED
      BY <1>6, <1>7, <2>1, <2>2
  <1>11. CASE Resets(pass')
    BY <1>4, <1>5, <1>11 DEF Resets
  <1>12. CASE Lists
    <2> DEFINE q == pass'
    <2>1. Found(q) /\ q.name = pass.name /\ q.base = pass.base /\ live' = live /\ made' = made
      BY <1>12 DEF Lists, hdx
    <2>2. DashRefAfter(q.dash, q.name)
      <3>1. CASE q.target = None
        BY <1>6, <2>1, <3>1 DEF Found
      <3>2. CASE q.target # None
        <4>1. /\ q.target \in DOMAIN live' /\ live'[q.target].dash = q.dash
              /\ q.target = pass.copy.id \/ live[q.target].name = pass.name
          BY <2>1, <3>2 DEF Found
        <4>2. DashRefAfter(q.dash, live'[q.target].name)
          BY <4>1, NextLiveNamed
        <4>3. CASE live[q.target].name = pass.name
          BY <2>1, <4>2, <4>3
        <4>4. CASE q.target = pass.copy.id /\ q.target # Legacy
          BY <1>5, <2>1, <4>1, <4>2, <4>4 DEF RefAfter
        <4>5. CASE q.target = Legacy
          <5>1. q.dash = LegacyDash /\ LegacyDash <= made'.dashboards
            BY <2>1, <4>1, <4>5 DEF OwnInv, LegacyStays
          <5> QED
            BY <5>1 DEF DashRefAfter, LegacyDash
        <4> QED
          BY <4>1, <4>3, <4>4, <4>5
      <3> QED
        BY <3>1, <3>2
    <2>3. DashRefAfter(q.copy.dash, q.name) /\ RefAfter(q.shared, q.name)
      BY <1>4, <1>5, <1>6, <2>1, <2>2 DEF Found
    <2> QED
      BY <1>4, <2>1, <2>2, <2>3
  <1>13. CASE Proceeds(pass')
    <2>1. pass'.base.dash = pass.base.dash /\ pass'.copy.dash \in {pass.copy.dash, pass.base.dash}
          /\ pass'.dash = pass.dash /\ pass'.shared = pass.shared /\ pass'.name = pass.name
      BY <1>13 DEF Proceeds
    <2> QED
      BY <1>4, <1>5, <2>1
  <1>14. ASSUME Closes(pass'), pass'.copy.dash \in {pass.copy.dash, pass.dash, None} PROVE OwnPass
    BY <1>4, <1>5, <1>6, <1>14 DEF Closes
  <1>15. CASE EnsureTile
    <2>1. CASE Ended
      BY <1>14, <2>1, EndedCloses
    <2>2. ASSUME NEW d \in DashboardIds,
                 pass' = [pass EXCEPT !.pc = "ensuringAlert", !.dash = d],
                 d <= made'.dashboards, \A i \in DOMAIN live : live[i].dash # d,
                 d \in DOMAIN dashboards', dashboards'[d].name = pass.name, live' = live
          PROVE  OwnPass
      <3>1. /\ pass'.name = pass.name /\ pass'.base = pass.base /\ pass'.copy = pass.copy
            /\ pass'.shared = pass.shared /\ pass'.dash = d
        BY <1>1, <1>15, <2>2, TiledPlan DEF EnsureTile
      <3>2. DashRefAfter(d, pass.name)
        BY <2>2 DEF DashRefAfter
      <3> QED
        BY <1>4, <1>5, <3>1, <3>2
    <2> QED
      BY <1>1, <1>15, <2>1, <2>2, EnsureTileStep
  <1>16. CASE EnsureAlert
    BY <1>1, <1>14, <1>16, EnsureAlertStep, EndedCloses
  <1>17. CASE RemoveAlert
    BY <1>1, <1>4, <1>5, <1>17, RemoveAlertPass
  <1>18. CASE RemoveDashboard
    BY <1>1, <1>14, <1>18, RemoveDashboardPass
  <1> QED
    BY <1>1, <1>2, <1>8, <1>9, <1>10, <1>11, <1>12, <1>13, <1>15, <1>16, <1>17, <1>18, PassSteps

LEMMA NextDashesNamed ==
    ASSUME OwnInv, [Next]_vars
    PROVE  DashesNamed' /\ Ref(pass.shared, pass.name)'
  <1>1. /\ StoreInv /\ ClusterOK /\ PlanOK(pass) /\ StoreInv' /\ AlertsStay /\ TilesKept
    BY IInvParts, NextStore, NextAlertsStay, NextTilesKept DEF OwnInv
  <1>2. HyperDXTypeOK /\ HyperDXTypeOK'
    BY <1>1 DEF StoreInv
  <1>3. IdsFrom
    BY <1>1, <1>2, NextCluster
  <1>4. /\ \A n \in DOMAIN alerts : DashRefAfter(alerts[n].dash, n)
        /\ \A n \in DOMAIN cache : DashRefAfter(cache[n].dash, n)
    BY <1>1, <1>2, DashRefKept DEF OwnInv, DashesNamed, ClusterOK, Alert
  <1>5. DashRefAfter(pass.copy.dash, pass.name)
    <2>1. pass.copy.dash \in DashboardIds \cup {None}
      BY <1>1 DEF PlanOK, Pass, Alert
    <2> QED
      BY <1>1, <1>2, <2>1, DashRefKept DEF OwnInv, DashesNamed
  <1>6. \A n : DashRefAfter(None, n)
    BY <1>2 DEF HyperDXTypeOK, DashRefAfter, LegacyDash, None
  <1>7. \A n \in DOMAIN alerts' : DashRefAfter(alerts'[n].dash, n)
    BY <1>3, <1>4, <1>5, <1>6 DEF IdsFrom
  <1>8. \A n \in DOMAIN cache' : DashRefAfter(cache'[n].dash, n)
    BY <1>3, <1>4 DEF IdsFrom
  <1>9. DashesNamed'
    BY <1>7, <1>8, NextLiveNamed, NextPassNamed DEF DashRefAfter, DashesNamed, DashRef
  <1>10. Ref(pass.shared, pass.name)'
    BY NextPassNamed DEF RefAfter, Ref
  <1> QED
    BY <1>9, <1>10

NobodyAfter(n) == \A i \in DOMAIN live' : live'[i].name # n

\* A step that neither creates nor pushes fields gives nobody a name.
LEMMA NobodyIsNamed ==
    ASSUME OwnInv, [Next]_vars, ~EnsureAlert, pass.target = None, NEW n, Named(n) = {}
    PROVE  NobodyAfter(n)
  <1>1. /\ StoreInv /\ PlanOK(pass) /\ RefsNamed /\ TileFree
    BY IInvParts DEF OwnInv
  <1>2. CASE EnsureTile
    BY <1>1, <1>2, EnsureTileStep DEF Named, NobodyAfter
  <1>3. CASE PushFields
    <2>1. DOMAIN live' = DOMAIN live /\ \A i \in DOMAIN live \ {None} : live'[i] = live[i]
      BY <1>1, <1>3, PushFieldsStep
    <2>2. None \notin DOMAIN live
      BY <1>1 DEF StoreInv, HyperDXTypeOK, AlertIds, None
    <2> QED
      BY <2>1, <2>2 DEF Named, NobodyAfter
  <1>4. CASE ~EnsureTile /\ ~PushFields
    BY <1>1, <1>4, OtherSteps DEF Lessens, Named, NobodyAfter
  <1> QED
    BY <1>2, <1>3, <1>4

LEMMA NextCreates ==
    ASSUME OwnInv, [Next]_vars
    PROVE  CreatesItsOwn'
  <1>1. /\ StoreInv /\ ClusterOK /\ PlanOK(pass) /\ RefsNamed /\ TileFree /\ HyperDXTypeOK
        /\ PlanOK(pass') /\ CreatesItsOwn
    BY IInvParts, NextPlan DEF OwnInv, StoreInv
  <1>2. pass.create => pass.target = None
    BY <1>1, PlanFacts
  <1> DEFINE Nameless == NobodyAfter(pass'.name)
             Done == pass'.pc # "ensuringAlert" /\ (pass'.create /\ pass'.pc \in Creation => Nameless)
  <1>3. Done => CreatesItsOwn'
    BY DEF CreatesItsOwn, At, Named, NobodyAfter
  <1>4. CASE pass' = Idle
    BY <1>3, <1>4 DEF Idle, Creation
  <1>5. CASE \E n \in Names : Begin(n)
    BY <1>1, <1>3, <1>5, BeginPlan DEF Early, Creation
  <1>6. CASE Resets(pass')
    BY <1>3, <1>6 DEF Resets, Creation
  <1>7. CASE Lists
    <2>1. Found(pass') /\ pass'.name = pass.name /\ live' = live
      BY <1>7 DEF Lists, hdx
    <2> QED
      BY <1>3, <2>1 DEF Found, Named, NobodyAfter
  <1>8. CASE Proceeds(pass')
    <2>1. /\ pass'.create = pass.create /\ pass'.name = pass.name /\ pass'.pc # "ensuringAlert"
          /\ pass'.create /\ pass'.pc \in Creation => pass.pc \in Creation
      BY <1>1, <1>8 DEF Proceeds, Later, Creation, PlanOK, KnowsItsTargets, NoPlanYet, Early
    <2>2. CASE EnsureAlert
      <3>1. pass'.pc # "finalizing" /\ pass'.pc # "deletingShared" /\ pass'.pc # "ensuringTile"
        BY <1>8, <2>2 DEF Proceeds, EnsureAlert, At
      <3> QED
        BY <1>3, <2>1, <3>1 DEF Creation
    <2>3. CASE ~EnsureAlert
      <3>1. pass'.create /\ pass'.pc \in Creation => Named(pass.name) = {} /\ pass.target = None
        BY <1>1, <1>2, <2>1 DEF CreatesItsOwn
      <3> QED
        BY <1>3, <2>1, <2>3, <3>1, NobodyIsNamed
    <2> QED
      BY <2>2, <2>3
  <1>9. CASE EnsureTile
    <2>1. pass.create /\ Named(pass.name) = {} /\ live' = live
      BY <1>1, <1>9, EnsureTileStep DEF EnsureTile, At, PlanOK, KnowsItsTargets, CreatesItsOwn, Creation
    <2>2. CASE Ended
      BY <1>3, <2>2 DEF Ended, Creation
    <2>3. ASSUME NEW d \in DashboardIds,
                 pass' = [pass EXCEPT !.pc = "ensuringAlert", !.dash = d],
                 d \in DOMAIN dashboards', dashboards'[d].name = pass.name
          PROVE  CreatesItsOwn'
      <3>1. pass'.name = pass.name /\ pass'.dash = d
        BY <1>1, <1>9, <2>3, TiledPlan DEF EnsureTile
      <3>2. NobodyAfter(pass'.name)
        BY <2>1, <3>1 DEF Named, NobodyAfter
      <3> QED
        BY <2>3, <3>1, <3>2 DEF CreatesItsOwn, Named, NobodyAfter
    <2> QED
      BY <1>1, <1>9, <2>2, <2>3, EnsureTileStep
  <1>10. CASE EnsureAlert
    <2>1. pass'.pc = "writing"
      BY <1>1, <1>10, EnsureAlertStep DEF Ended, Closes
    <2> QED
      BY <1>3, <2>1 DEF Creation
  <1>11. CASE RemoveAlert \/ RemoveDashboard
    <2>1. pass'.pc \in {"writing", "deletingDashboard"}
      BY <1>1, <1>11, RemoveAlertPass, RemoveDashboardPass DEF Closes
    <2> QED
      BY <1>3, <2>1 DEF Creation
  <1>12. CASE pass' = pass /\ ~EnsureTile /\ ~EnsureAlert
    <2>1. pass.create /\ pass.pc \in Creation => NobodyAfter(pass.name)
      BY <1>1, <1>2, <1>12, NobodyIsNamed DEF CreatesItsOwn
    <2>2. At("ensuringAlert") => UNCHANGED dashboards
      <3>1. CASE UNCHANGED vars \/ Expire \/ Crash \/ \E n \in Names : Begin(n) \/ Sync(n)
        BY <3>1 DEF vars, Expire, Crash, Begin, Sync, hdx
      <3>2. CASE People
        BY <3>2 DEF People, DropAlert, DropHook, EditAlert, RemoveCR, CreateCR, DeleteAlert, hdx
      <3>3. CASE PassStep
        BY <1>12, <3>3 DEF PassStep, At, Connect, ResetList, ResetDelete, ResetPatch, ResetDone, Refuse, List,
                           ReadTile, AddFinalizer, DeleteShared, PushWhere, PushFields, RemoveAlert,
                           RemoveDashboard, RemoveFinalizer, WriteStatus
      <3> QED
        BY <3>1, <3>2, <3>3 DEF Next
    <2> QED
      BY <1>1, <1>12, <2>1, <2>2 DEF CreatesItsOwn, At, Named, NobodyAfter
  <1> QED
    BY <1>1, <1>4, <1>5, <1>6, <1>7, <1>8, <1>9, <1>10, <1>11, <1>12, PassSteps

LEMMA NextOwn ==
    ASSUME OwnInv, [Next]_vars
    PROVE  OwnInv'
  <1>1. IInv'
    BY NextIInv DEF OwnInv
  <1>2. LegacyStays'
    <2>1. AlertsStay /\ TilesKept /\ made.dashboards \in Nat /\ made'.dashboards \in Nat
      BY <1>1, NextAlertsStay, NextTilesKept DEF OwnInv, IInv, TypeOK, HyperDXTypeOK
    <2> QED
      BY <2>1 DEF OwnInv, LegacyStays, AlertsStay, TilesKept, LegacyDash
  <1> QED
    BY <1>1, <1>2, NextDashesNamed, NextCreates DEF OwnInv

\* What a step may do to an alert the provider made.
LeftAlone(i) ==
    \/ i \in DOMAIN live' /\ live'[i] = live[i]
    \/ pass.name = live[i].name
    \/ At("clearing") \/ moves' # moves
    \/ At("deletingDashboard") /\ live[i].dash = LegacyDash

LEMMA WritesItsOwn ==
    ASSUME OwnInv, [Next]_vars, NEW i \in DOMAIN live \ {Legacy}
    PROVE  LeftAlone(i)
  <1>1. /\ StoreInv /\ ClusterOK /\ PlanOK(pass) /\ RefsNamed /\ TileFree /\ HyperDXTypeOK
        /\ Ref(pass.shared, pass.name) /\ DashesNamed
    BY IInvParts DEF OwnInv, StoreInv
  <1>2. CASE live' = live
    BY <1>2 DEF LeftAlone
  <1>3. CASE EnsureTile
    BY <1>1, <1>2, <1>3, EnsureTileStep
  <1>4. CASE EnsureAlert
    BY <1>4, CreateStays DEF LeftAlone
  <1>5. CASE PushFields
    <2>1. i # pass.target => i \in DOMAIN live' /\ live'[i] = live[i]
      BY <1>1, <1>5, PushFieldsStep
    <2>2. i = pass.target => pass.name = live[i].name
      BY <1>1 DEF RefsNamed, Ref
    <2> QED
      BY <2>1, <2>2 DEF LeftAlone
  <1>6. ASSUME NEW id, Ref(id, pass.name), DeleteAlert(id)
        PROVE  LeftAlone(i)
    <2>1. i # id => i \in DOMAIN live' /\ live'[i] = live[i]
      BY <1>6 DEF DeleteAlert, Without
    <2>2. i = id => pass.name = live[i].name
      BY <1>6 DEF Ref
    <2> QED
      BY <2>1, <2>2 DEF LeftAlone
  <1>7. CASE DeleteShared
    BY <1>1, <1>2, <1>6, <1>7 DEF DeleteShared, hdx
  <1>8. CASE RemoveAlert
    BY <1>1, <1>2, <1>6, <1>8 DEF RemoveAlert, RefsNamed, hdx
  <1>9. CASE RemoveDashboard
    <2> DEFINE d == pass.copy.dash
    <2>1. CASE DeleteDashboard(d)
      <3>1. live[i].dash # d => i \in DOMAIN live' /\ live'[i] = live[i]
        BY <2>1 DEF DeleteDashboard, Without
      <3>2. live[i].dash = d /\ d # LegacyDash => pass.name = live[i].name
        <4>1. live[i].dash \in DashboardIds
          BY <1>1 DEF HyperDXTypeOK, LiveAlert
        <4>2. live[i].dash = d /\ d # LegacyDash => d > LegacyDash
          BY <4>1 DEF DashboardIds, LegacyDash
        <4> QED
          BY <1>1, <4>2 DEF DashesNamed, DashRef
      <3>3. At("deletingDashboard")
        BY <1>9 DEF RemoveDashboard
      <3> QED
        BY <3>1, <3>2, <3>3 DEF LeftAlone
    <2> QED
      BY <1>2, <1>9, <2>1 DEF RemoveDashboard, hdx
  <1>10. CASE ResetDelete
    BY <1>10 DEF ResetDelete, LeftAlone
  <1>11. CASE People
    <2>1. Moving
      BY <1>11 DEF People, DropAlert, DropHook, EditAlert, RemoveCR, CreateCR
    <2>2. moves' # moves
      BY <1>1, <2>1 DEF ClusterOK, Moving
    <2> QED
      BY <2>2 DEF LeftAlone
  <1>12. CASE Connect \/ PushWhere
    BY <1>2, <1>12 DEF Connect, PushWhere, PostHook, PutDashboard, hdx
  <1>13. CASE \/ ResetList \/ ResetPatch \/ ResetDone \/ Refuse \/ List \/ ReadTile \/ AddFinalizer
              \/ RemoveFinalizer \/ WriteStatus
    BY <1>2, <1>13 DEF ResetList, ResetPatch, ResetDone, Refuse, List, ReadTile, AddFinalizer,
                       RemoveFinalizer, WriteStatus, hdx
  <1>14. CASE UNCHANGED vars \/ Expire \/ Crash \/ \E n \in Names : Begin(n) \/ Sync(n)
    BY <1>2, <1>14 DEF vars, Expire, Crash, Begin, Sync, hdx
  <1> QED
    BY <1>3, <1>4, <1>5, <1>7, <1>8, <1>9, <1>10, <1>11, <1>12, <1>13, <1>14 DEF Next, PassStep

\* A pass changes, moves or deletes no alert the provider made under another name: an id it holds,
\* however stale, is of an alert of its own name (RefsNamed), a dashboard it holds bears its name and
\* nobody else's alert (DashesNamed), and it names what it makes or pushes after itself.  The
\* exceptions are a webhook's reset and the inherited alert's dashboard, which several Alerts hold.
THEOREM PassesWriteTheirOwn == Spec => OwnWrites
  <1> DEFINE Leaves == \A i \in DOMAIN live \ {Legacy} : LeftAlone(i)
  <1>1. Spec => []OwnInv
    BY InitOwn, NextOwn, PTL DEF Spec
  <1>2. OwnInv /\ [Next]_vars => [Leaves]_vars
    BY WritesItsOwn
  <1> HIDE DEF Leaves
  <1>3. Spec => [][Leaves]_vars
    BY <1>1, <1>2, PTL DEF Spec
  <1> QED
    BY <1>3 DEF OwnWrites, Leaves, LeftAlone

=============================================================================
