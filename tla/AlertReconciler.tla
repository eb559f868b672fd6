--------------------------- MODULE AlertReconciler ---------------------------
(***************************************************************************)
(* The Alert controller (internal/controllers/alert): each pass reads an   *)
(* Alert from the informer's cache and brings its HyperDX alert and        *)
(* dashboard to its spec, in provider-runtime's order: Connect, Observe,   *)
(* AddFinalizer, Update (or Delete and RemoveFinalizer), then one status   *)
(* write conditioned on the copy read.  One pass runs at a time            *)
(* (MaxConcurrentReconciles = 1).                                          *)
(*                                                                         *)
(* Every call of the HyperDX API or the API server is a step of its own;   *)
(* between two of them people edit, delete and recreate Alerts, and remove *)
(* alerts or the webhook in HyperDX.  A read and the POST that follows it  *)
(* in one Ensure function are one step: nobody else makes those objects.   *)
(***************************************************************************)
EXTENDS HyperDX, Rules

CONSTANTS
    MaxCount,       \* bound of the rows counted, as Settled asks for them
    Inherited,      \* whether one HyperDX alert predates the provider and every Alert claims it:
                    \* {FALSE}, {TRUE} or either
    MaxMoves,       \* bound of what people do
    MaxFaults,      \* bound of failed calls
    MaxCrashes      \* bound of process ends

ASSUME ReconcilerAssumption ==
    /\ IsFiniteSet(Names) /\ Display \notin Names
    /\ Wheres # {} /\ Bounds # {}
    /\ Bounds \subseteq Bound
    /\ Inherited \subseteq BOOLEAN /\ Inherited # {}
    /\ MaxAlerts \in Nat \ {0} /\ MaxDashboards \in Nat \ {0} /\ MaxHooks \in Nat \ {0}
    /\ MaxMoves \in Nat /\ MaxFaults \in Nat /\ MaxCrashes \in Nat /\ MaxCount \in Nat

VARIABLES
    alerts,         \* the Alerts, by name, as the API server holds them
    cache,          \* and as the informer last saw them
    hookCache,      \* the webhook id webhook.ensure keeps for an interval, or None
    pass,           \* the pass in progress
    moves, faults, crashes

cluster == <<alerts, cache>>
budget == <<moves, faults, crashes>>
vars == <<hdx, cluster, hookCache, pass, budget>>

Phases == {"None", "Pending", "Invalid", "Synced", "SpecDrift", "Error"}
Alert == [deleting : BOOLEAN, finalizer : BOOLEAN, where : Wheres, bound : Bounds,
          id : AlertIds \cup {None}, dash : DashboardIds \cup {None}, phase : Phases]
New(w, b) == [deleting |-> FALSE, finalizer |-> FALSE, where |-> w, bound |-> b,
              id |-> None, dash |-> None, phase |-> "None"]
Claiming(w, b, dash) == [deleting |-> FALSE, finalizer |-> TRUE, where |-> w, bound |-> b,
                         id |-> Legacy, dash |-> dash, phase |-> "Synced"]
Nobody == New(CHOOSE w \in Wheres : TRUE, CHOOSE b \in Bounds : TRUE)

PCs == {"idle", "connecting", "resetting", "clearing", "listing", "reading", "finalizing",
        "deletingShared", "ensuringTile", "ensuringAlert", "pushingWhere", "pushingFields",
        "deletingAlert", "deletingDashboard", "removingFinalizer", "writing"}
\* copy is the Alert in memory, base the one it was read as; the rest is webhook.reset's loop
\* (managed, active), the plan of Observe and, as history, the alerts it saw to be another's (owned).
Pass == [pc : PCs, name : Names \cup {Display}, copy : Alert, base : Alert, hook : HookIds \cup {None},
         managed : SUBSET AlertIds, active : SUBSET Names,
         invalid : BOOLEAN, shared : AlertIds \cup {None}, create : BOOLEAN,
         taken : SUBSET DashboardIds, target : AlertIds \cup {None},
         dash : DashboardIds \cup {None}, where : BOOLEAN, drift : BOOLEAN, owned : SUBSET AlertIds]
Idle == [pc |-> "idle", name |-> Display, copy |-> Nobody, base |-> Nobody,
         hook |-> None, managed |-> {}, active |-> {}, invalid |-> FALSE, shared |-> None,
         create |-> FALSE, taken |-> {}, target |-> None, dash |-> None, where |-> FALSE, drift |-> FALSE,
         owned |-> {}]

-----------------------------------------------------------------------------

\* A call fails: the request was lost before its effect, or the response after.
Fails == faults < MaxFaults /\ faults' = faults + 1

At(pc) == pass.pc = pc
Step(p) == pass' = p
Writing(p) == [p EXCEPT !.pc = "writing"]
Phased(p, phase) == [p EXCEPT !.copy.phase = phase]

\* A HyperDX HTTP error leaves the status as it was; any other error is phase Error.
FailedPass == \E phase \in {pass.copy.phase, "Error"} : Step(Writing(Phased(pass, phase)))

\* A push that failed.
DriftedPass == Step(Writing(Phased(pass, "SpecDrift")))

\* What Update does next: the shared alert, then the create, or where before the alert fields.
Push(p) == CASE p.where -> [p EXCEPT !.pc = "pushingWhere"]
             [] ~p.where /\ p.drift -> [p EXCEPT !.pc = "pushingFields"]
             [] OTHER -> Writing(Phased(p, "Synced"))
CreateOrPush(p) == IF p.create THEN [p EXCEPT !.pc = "ensuringTile"] ELSE Push(p)
Update(p) == CASE p.invalid -> Writing(Phased(p, "Invalid"))
               [] ~p.invalid /\ p.shared # None -> [p EXCEPT !.pc = "deletingShared"]
               [] OTHER -> CreateOrPush(p)

\* Fault: drifted alert fields are no reason for an Update.
Planned_NoDrift(p) == p.invalid \/ p.shared # None \/ p.create \/ p.where

\* There is something for Update to do.
Planned(p) == p.invalid \/ p.shared # None \/ p.create \/ p.where \/ p.drift

\* Observe ends: Update, or phase Synced; the finalizer comes first.
Observed(p) ==
    LET q == IF Planned(p) THEN p ELSE Phased(p, "Synced")
    IN  CASE ~q.copy.finalizer -> [q EXCEPT !.pc = "finalizing"]
          [] q.copy.finalizer /\ Planned(q) -> Update(q)
          [] OTHER -> Writing(q)

Init ==
    /\ pass = Idle
    /\ hookCache = None
    /\ moves = 0 /\ faults = 0 /\ crashes = 0
    /\ \E w \in [Names -> Wheres], b \in [Names -> Bounds] :
         \* Nothing in HyperDX yet.
         \/ /\ FALSE \in Inherited
            /\ alerts = [n \in Names |-> New(w[n], b[n])]
            /\ live = <<>> /\ dashboards = <<>>
            /\ hook = None
            /\ made = [alerts |-> Legacy, dashboards |-> LegacyDash, hooks |-> 0]
         \* One alert of the name n, on a dashboard of the name m, which every Alert claims.
         \/ \E n \in Names \cup {Display}, m \in Names, dash \in {None, LegacyDash} :
              /\ TRUE \in Inherited
              /\ live = With(<<>>, Legacy, [name |-> n, dash |-> LegacyDash, bound |-> b[m], hook |-> 1])
              /\ dashboards = With(<<>>, LegacyDash, [name |-> m, where |-> w[m]])
              /\ hook = 1
              /\ made = [alerts |-> Legacy, dashboards |-> LegacyDash, hooks |-> 1]
              /\ alerts = [o \in Names |-> Claiming(w[o], b[o], dash)]
    /\ cache = alerts

-----------------------------------------------------------------------------
(* Connect: a pass starts; webhook.ensure and reset. *)

\* Fault: an Alert of which one id is missing has nothing to delete.
Exists_Both(c) == c.id # None /\ c.dash # None

\* A deleted Alert has something in HyperDX.
Exists(c) == c.id # None \/ c.dash # None

Begin(n) ==
    /\ At("idle")
    /\ n \in DOMAIN cache
    /\ LET c == cache[n]
       IN  Step([Idle EXCEPT !.name = n, !.copy = c, !.base = c, !.hook = hookCache,
                   !.pc = CASE c.deleting /\ ~Exists(c) -> "removingFinalizer"
                            [] c.deleting /\ Exists(c) /\ c.id # None -> "deletingAlert"
                            [] c.deleting /\ Exists(c) /\ c.id = None -> "deletingDashboard"
                            [] ~c.deleting /\ hookCache = None -> "connecting"
                            [] OTHER -> "listing"])
    /\ UNCHANGED <<hdx, cluster, hookCache, budget>>

\* EnsureWebhook: the webhook of that name, or a new one, after which every alert is reset.
Connect ==
    /\ At("connecting")
    /\ \/ /\ hook # None
          /\ hookCache' = hook
          /\ Step([pass EXCEPT !.pc = "listing", !.hook = hook])
          /\ UNCHANGED <<hdx, faults>>
       \/ /\ hook = None
          /\ PostHook
          /\ Step([pass EXCEPT !.pc = "resetting", !.hook = hook'])
          /\ UNCHANGED <<hookCache, faults>>
       \/ /\ Fails
          /\ \/ hook = None /\ PostHook
             \/ UNCHANGED hdx
          /\ Step(Idle)
          /\ UNCHANGED hookCache
    /\ UNCHANGED <<cluster, moves, crashes>>

\* reset lists the undeleted Alerts (this pass's as its copy) and the live alerts they manage.
ResetList ==
    /\ At("resetting")
    /\ LET known == [cache EXCEPT ![pass.name] = pass.copy]
           active == {o \in DOMAIN known : ~known[o].deleting}
       IN  \/ /\ Step([pass EXCEPT !.pc = "clearing", !.active = active,
                                   !.managed = {known[o].id : o \in active} \cap DOMAIN live])
              /\ UNCHANGED faults
           \/ Fails /\ Step(Idle)
    /\ UNCHANGED <<hdx, cluster, hookCache, moves, crashes>>

\* It deletes those, best-effort.
ResetDelete ==
    /\ At("clearing")
    /\ \E i \in pass.managed :
         /\ Step([pass EXCEPT !.managed = @ \ {i}])
         /\ \/ DeleteAlert(i) /\ UNCHANGED faults
            \/ Fails /\ UNCHANGED hdx
    /\ UNCHANGED <<cluster, hookCache, moves, crashes>>

Reset(a) == [a EXCEPT !.id = None, !.phase = "Pending"]

\* Then resets the status of each, this pass's Alert in memory; the first failure ends the pass.
ResetPatch ==
    /\ At("clearing")
    /\ pass.managed = {}
    /\ \E o \in pass.active :
         LET done == [pass EXCEPT !.active = @ \ {o}]
         IN  \/ /\ o = pass.name
                /\ Step([done EXCEPT !.copy = Reset(@)])
                /\ UNCHANGED <<alerts, faults>>
             \/ /\ o # pass.name /\ o \in DOMAIN alerts
                /\ alerts' = [alerts EXCEPT ![o] = Reset(@)]
                /\ Step(done)
                /\ UNCHANGED faults
             \/ /\ o # pass.name /\ o \notin DOMAIN alerts
                /\ Step(Idle)
                /\ UNCHANGED <<alerts, faults>>
             \/ /\ o # pass.name
                /\ Fails
                /\ Step(Idle)
                /\ \/ o \in DOMAIN alerts /\ alerts' = [alerts EXCEPT ![o] = Reset(@)]
                   \/ UNCHANGED alerts
    /\ UNCHANGED <<hdx, cache, hookCache, moves, crashes>>

\* Only a reset that finished is remembered.
ResetDone ==
    /\ At("clearing")
    /\ pass.managed = {} /\ pass.active = {}
    /\ hookCache' = pass.hook
    /\ Step([pass EXCEPT !.pc = "listing"])
    /\ UNCHANGED <<hdx, cluster, budget>>

-----------------------------------------------------------------------------
(* Observe. *)

\* A tautological threshold is refused before anything is read.
Refuse ==
    /\ At("listing")
    /\ Tautology(pass.copy.bound)
    /\ Step(IF pass.copy.phase = "Invalid" /\ pass.copy.finalizer
            THEN Writing(pass)
            ELSE Observed([pass EXCEPT !.invalid = TRUE]))
    /\ UNCHANGED <<hdx, cluster, hookCache, budget>>

\* Fault: an Alert takes itself for the only claimant.
Claimants_Self(n, id) == {n}

\* The Alerts whose status has the id.
Claimants(n, id) == {n} \cup {o \in DOMAIN cache : ~cache[o].deleting /\ cache[o].id = id}
\* release: of several claimants the one the alert is named after keeps it.  Any other drops the
\* id, and an alert named after none of them is to be deleted.
Release(p) ==
    LET id == p.copy.id
        claimants == Claimants(p.name, id)
        named == IF id \in DOMAIN live THEN live[id].name ELSE Display
    IN  IF id = None \/ Cardinality(claimants) < 2 \/ named = p.name
        THEN p
        ELSE [p EXCEPT !.copy = Reset(@),
                       !.shared = IF id \in DOMAIN live /\ named \notin claimants THEN id ELSE None]

\* Fault: the dashboard to push to is the status's, not the one the live alert evaluates.
Mirror_StatusDash(p, i) ==
    [p EXCEPT !.pc = "reading", !.target = i, !.dash = p.copy.dash,
              !.copy.id = i, !.copy.dash = live[i].dash,
              !.drift = live[i].bound # p.copy.bound \/ live[i].name # p.name]

\* Both ids come from the live alert, as does what differs from the spec.
Mirror(p, i) ==
    [p EXCEPT !.pc = "reading", !.target = i, !.dash = live[i].dash,
              !.copy.id = i, !.copy.dash = live[i].dash,
              !.drift = live[i].bound # p.copy.bound \/ live[i].name # p.name]

\* Fault: when the alert of a status id is gone, any other is taken for it.
Lookup_Stale(p, others) ==
    IF p.copy.id \in others THEN {p.copy.id} ELSE IF p.copy.id = None THEN Named(p.name) \ {p.shared} ELSE others

\* The alert of the status id, else those of the Alert's name.
Lookup(p, others) == IF p.copy.id \in others THEN {p.copy.id} ELSE Named(p.name) \ {p.shared}

\* The pass takes the first of these, or is to create one.
Find(p) ==
    LET others == DOMAIN live \ {p.shared}
        found == Lookup(p, others)
    IN  IF found = {}
        THEN Observed([p EXCEPT !.create = TRUE, !.taken = {live[i].dash : i \in others}])
        ELSE Mirror(p, First(found))

\* The alerts that another Alert claims and is the namesake of, as far as the pass can see.
Owned == {i \in DOMAIN live : /\ live[i].name # pass.name
                              /\ live[i].name \in DOMAIN cache
                              /\ ~cache[live[i].name].deleting /\ cache[live[i].name].id = i}

List ==
    /\ At("listing")
    /\ ~Tautology(pass.copy.bound)
    /\ \/ Step(Find(Release([pass EXCEPT !.owned = Owned]))) /\ UNCHANGED faults
       \/ Fails /\ FailedPass
    /\ UNCHANGED <<hdx, cluster, hookCache, moves, crashes>>

\* TileWhere: a dashboard that is gone has no where to push.
ReadTile ==
    /\ At("reading")
    /\ \/ /\ Step(Observed([pass EXCEPT !.where = /\ pass.dash \in DOMAIN dashboards
                                                  /\ dashboards[pass.dash].where # pass.copy.where]))
          /\ UNCHANGED faults
       \/ Fails /\ DriftedPass
    /\ UNCHANGED <<hdx, cluster, hookCache, moves, crashes>>

\* The copy read is what the API server holds.
Current == pass.name \in DOMAIN alerts /\ alerts[pass.name] = pass.base

\* The finalizer's update reloads the Alert: a status Observe set is lost, its plan is not.
AddFinalizer ==
    /\ At("finalizing")
    /\ LET n == pass.name
           guarded == [pass.base EXCEPT !.finalizer = TRUE]
           q == [pass EXCEPT !.copy = guarded, !.base = guarded]
       IN  \/ /\ Current
              /\ alerts' = [alerts EXCEPT ![n] = guarded]
              /\ Step(IF Planned(q) THEN Update(q) ELSE Writing(q))
              /\ UNCHANGED faults
           \/ /\ ~Current
              /\ Step(Idle)
              /\ UNCHANGED <<alerts, faults>>
           \/ /\ Fails
              /\ Step(Idle)
              /\ \/ Current /\ alerts' = [alerts EXCEPT ![n] = guarded]
                 \/ UNCHANGED alerts
    /\ UNCHANGED <<hdx, cache, hookCache, moves, crashes>>

-----------------------------------------------------------------------------
(* Update. *)

\* A shared alert nobody is named after goes first; one already gone is a 404, which ends the pass.
DeleteShared ==
    /\ At("deletingShared")
    /\ LET i == pass.shared
       IN  \/ /\ i \in DOMAIN live
              /\ DeleteAlert(i)
              /\ Step(CreateOrPush(pass))
              /\ UNCHANGED faults
           \/ /\ i \notin DOMAIN live
              /\ Step(Writing(pass))
              /\ UNCHANGED <<hdx, faults>>
           \/ /\ Fails
              /\ Step(Writing(pass))
              /\ \/ DeleteAlert(i)
                 \/ UNCHANGED hdx
    /\ UNCHANGED <<cluster, hookCache, moves, crashes>>

\* Fault: a tile another alert evaluates is reused.
Reusable_Taken(n, taken) == {d \in DOMAIN dashboards : dashboards[d].name = n}

Reusable(n, taken) == {d \in DOMAIN dashboards : dashboards[d].name = n} \ taken

\* EnsureDashboardTile: a dashboard of the Alert's name no other alert evaluates, else a new one.
EnsureTile ==
    /\ At("ensuringTile")
    /\ LET n == pass.name
           reusable == Reusable(n, pass.taken)
           post == PostDashboard([name |-> n, where |-> pass.copy.where])
           ready(d) == Step([pass EXCEPT !.pc = "ensuringAlert", !.dash = d])
       IN  \/ /\ reusable # {}
              /\ ready(First(reusable))
              /\ UNCHANGED <<hdx, faults>>
           \/ /\ reusable = {}
              /\ post
              /\ ready(made'.dashboards)
              /\ UNCHANGED faults
           \/ /\ Fails
              /\ FailedPass
              /\ \/ reusable = {} /\ post
                 \/ UNCHANGED hdx
    /\ UNCHANGED <<cluster, hookCache, moves, crashes>>

\* Fault: an alert is named after a display name, which may repeat.
Body_Display == [name |-> Display, dash |-> pass.dash, bound |-> pass.copy.bound, hook |-> pass.hook]

Body == [name |-> pass.name, dash |-> pass.dash, bound |-> pass.copy.bound, hook |-> pass.hook]

\* The pass has its alert, i.
Armed(i) == Writing([pass EXCEPT !.copy.id = i, !.copy.dash = pass.dash, !.copy.phase = "Synced"])

\* EnsureAlert: the alert of the Alert's name, PUT if its fields differ, else a new one.
EnsureAlert ==
    /\ At("ensuringAlert")
    /\ LET named == Named(pass.name)
       IN  \/ /\ named # {}
              /\ LET i == First(named)
                 IN  /\ IF live[i].bound = pass.copy.bound THEN UNCHANGED hdx ELSE PutAlert(i, Body)
                     /\ Step(Armed(i))
              /\ UNCHANGED faults
           \/ /\ named = {}
              /\ PostAlert(Body)
              /\ Step(Armed(made'.alerts))
              /\ UNCHANGED faults
           \/ /\ Fails
              /\ FailedPass
              /\ \/ named = {} /\ PostAlert(Body)
                 \/ named # {} /\ PutAlert(First(named), Body)
                 \/ UNCHANGED hdx
    /\ UNCHANGED <<cluster, hookCache, moves, crashes>>

\* UpdateDashboardTile puts where on the tile the alert evaluates.
PushWhere ==
    /\ At("pushingWhere")
    /\ LET d == pass.dash
           put == PutDashboard(d, [name |-> pass.name, where |-> pass.copy.where])
       IN  \/ /\ d \in DOMAIN dashboards
              /\ put
              /\ Step(Push([pass EXCEPT !.where = FALSE]))
              /\ UNCHANGED faults
           \/ /\ d \notin DOMAIN dashboards
              /\ DriftedPass
              /\ UNCHANGED <<hdx, faults>>
           \/ /\ Fails
              /\ DriftedPass
              /\ \/ d \in DOMAIN dashboards /\ put
                 \/ UNCHANGED hdx
    /\ UNCHANGED <<cluster, hookCache, moves, crashes>>

\* UpdateAlert puts the name, the fields and the webhook.
PushFields ==
    /\ At("pushingFields")
    /\ LET i == pass.target
       IN  \/ /\ i \in DOMAIN live
              /\ PutAlert(i, Body)
              /\ Step(Push([pass EXCEPT !.drift = FALSE]))
              /\ UNCHANGED faults
           \/ /\ i \notin DOMAIN live
              /\ DriftedPass
              /\ UNCHANGED <<hdx, faults>>
           \/ /\ Fails
              /\ DriftedPass
              /\ \/ i \in DOMAIN live /\ PutAlert(i, Body)
                 \/ UNCHANGED hdx
    /\ UNCHANGED <<cluster, hookCache, moves, crashes>>

\* The status write that closes a pass; a conflict or a lost request loses it.
WriteStatus ==
    /\ At("writing")
    /\ Step(Idle)
    /\ LET c == pass.copy
           n == pass.name
           write == alerts' = [alerts EXCEPT ![n].id = c.id, ![n].dash = c.dash, ![n].phase = c.phase]
       IN  \/ Current /\ write /\ UNCHANGED faults
           \/ ~Current /\ UNCHANGED <<alerts, faults>>
           \/ Fails /\ ((Current /\ write) \/ UNCHANGED alerts)
    /\ UNCHANGED <<hdx, cache, hookCache, moves, crashes>>

-----------------------------------------------------------------------------
(* Delete, best-effort, and the finalizer's end. *)

RemoveAlert ==
    /\ At("deletingAlert")
    /\ Step(IF pass.copy.dash # None
            THEN [pass EXCEPT !.pc = "deletingDashboard"]
            ELSE Writing([pass EXCEPT !.copy.id = None]))
    /\ \/ DeleteAlert(pass.copy.id) /\ UNCHANGED faults
       \/ Fails /\ UNCHANGED hdx
    /\ UNCHANGED <<cluster, hookCache, moves, crashes>>

RemoveDashboard ==
    /\ At("deletingDashboard")
    /\ Step(Writing([pass EXCEPT !.copy.id = None, !.copy.dash = None]))
    /\ \/ DeleteDashboard(pass.copy.dash) /\ UNCHANGED faults
       \/ Fails /\ UNCHANGED hdx
    /\ UNCHANGED <<cluster, hookCache, moves, crashes>>

RemoveFinalizer ==
    /\ At("removingFinalizer")
    /\ Step(Idle)
    /\ \/ Current /\ alerts' = Without(alerts, {pass.name}) /\ UNCHANGED faults
       \/ ~Current /\ UNCHANGED <<alerts, faults>>
       \/ Fails /\ ((Current /\ alerts' = Without(alerts, {pass.name})) \/ UNCHANGED alerts)
    /\ UNCHANGED <<hdx, cache, hookCache, moves, crashes>>

-----------------------------------------------------------------------------
(* The informer, the clock, a restart, and people. *)

Sync(n) ==
    /\ cache' = IF n \in DOMAIN alerts THEN With(cache, n, alerts[n]) ELSE Without(cache, {n})
    /\ UNCHANGED <<hdx, alerts, hookCache, pass, budget>>

\* The interval webhook.ensure keeps the webhook for is over.
Expire ==
    /\ hookCache' = None
    /\ UNCHANGED <<hdx, cluster, pass, budget>>

Crash ==
    /\ crashes < MaxCrashes
    /\ crashes' = crashes + 1
    /\ Step(Idle)
    /\ hookCache' = None
    /\ cache' = alerts
    /\ UNCHANGED <<hdx, alerts, moves, faults>>

Moving ==
    /\ moves < MaxMoves
    /\ moves' = moves + 1
    /\ UNCHANGED <<cache, hookCache, pass, faults, crashes>>

EditAlert(n) ==
    /\ n \in DOMAIN alerts
    /\ Moving
    /\ \E w \in Wheres, b \in Bounds : alerts' = [alerts EXCEPT ![n].where = w, ![n].bound = b]
    /\ UNCHANGED hdx

RemoveCR(n) ==
    /\ n \in DOMAIN alerts /\ ~alerts[n].deleting
    /\ Moving
    /\ alerts' = IF alerts[n].finalizer THEN [alerts EXCEPT ![n].deleting = TRUE] ELSE Without(alerts, {n})
    /\ UNCHANGED hdx

CreateCR(n) ==
    /\ n \notin DOMAIN alerts
    /\ Moving
    /\ \E w \in Wheres, b \in Bounds : alerts' = With(alerts, n, New(w, b))
    /\ UNCHANGED hdx

DropAlert ==
    /\ Moving
    /\ \E i \in DOMAIN live : DeleteAlert(i)
    /\ UNCHANGED alerts

DropHook ==
    /\ hook # None
    /\ Moving
    /\ hook' = None
    /\ UNCHANGED <<live, dashboards, made, alerts>>

PassStep ==
    \/ Connect \/ ResetList \/ ResetDelete \/ ResetPatch \/ ResetDone
    \/ Refuse \/ List \/ ReadTile \/ AddFinalizer
    \/ DeleteShared \/ EnsureTile \/ EnsureAlert \/ PushWhere \/ PushFields
    \/ RemoveAlert \/ RemoveDashboard \/ RemoveFinalizer \/ WriteStatus

People == DropAlert \/ DropHook \/ \E n \in Names : EditAlert(n) \/ RemoveCR(n) \/ CreateCR(n)

Next ==
    \/ \E n \in Names : Begin(n) \/ Sync(n)
    \/ PassStep \/ Expire \/ Crash \/ People

Spec == Init /\ [][Next]_vars

\* Every call returns or fails, every Alert is polled in its turn (the work queue is FIFO, so a
\* pass that keeps finding another one in progress still comes), the informer catches up, and the
\* interval ends.  Nothing forces people or a crash.
Fairness ==
    /\ WF_vars(PassStep)
    /\ WF_vars(Expire)
    /\ \A n \in Names : SF_vars(Begin(n)) /\ WF_vars(Sync(n))
FairSpec == Spec /\ Fairness

-----------------------------------------------------------------------------
(* Properties. *)

TypeOK ==
    /\ HyperDXTypeOK
    /\ DOMAIN alerts \subseteq Names /\ \A n \in DOMAIN alerts : alerts[n] \in Alert
    /\ DOMAIN cache \subseteq Names /\ \A n \in DOMAIN cache : cache[n] \in Alert
    /\ hookCache \in HookIds \cup {None}
    /\ pass \in Pass
    /\ moves \in 0 .. MaxMoves /\ faults \in 0 .. MaxFaults /\ crashes \in 0 .. MaxCrashes

\* One Alert is one HyperDX alert: a lost status id, a create cut short, a stale copy or a reset
\* never makes a second alert of a name the provider gave one.
OneAlertPerName == \A i, j \in DOMAIN live \ {Legacy} : live[i].name = live[j].name => i = j

\* No two alerts evaluate one tile, so none evaluates another's where.
OwnTile == \A i, j \in DOMAIN live : live[i].dash = live[j].dash => i = j

\* An alert that another Alert claims and is the namesake of stays its own (release): a pass that
\* has seen so neither renames nor deletes it, however old its own copy is.  (The informer may show
\* the claim too late.)
NamedStays ==
    [][\A i \in pass.owned : i \in DOMAIN live /\ UNCHANGED moves =>
         i \in DOMAIN live' /\ live'[i].name = live[i].name]_vars

\* A pass changes, moves or deletes no alert the provider made under another name: whatever ids and
\* dashboards it holds are stale, they are of its own alerts, or of none.  Two things do reach another
\* Alert's: a webhook's reset, and, through a dashboard, the deletion of a claimant of the inherited
\* alert, which takes that alert's dashboard along with whatever a later pass put on it.
OwnWrites ==
    [][\A i \in DOMAIN live \ {Legacy} :
         \/ i \in DOMAIN live' /\ live'[i] = live[i]
         \/ pass.name = live[i].name
         \/ At("clearing") \/ moves' # moves
         \/ At("deletingDashboard") /\ live[i].dash = LegacyDash]_vars

\* An Alert goes, or forgets an id, only when what its status names is gone from HyperDX: whatever
\* conflicts or stale copies cut its passes short, a deletion in which no call fails leaves neither
\* the alert nor the dashboard behind, but for a webhook's reset.
DeletionIsComplete ==
    [][\A n \in DOMAIN alerts :
         LET a == alerts[n]
             kept == n \in DOMAIN alerts'
         IN  a.deleting /\ faults' = 0 /\ ~At("clearing") =>
                /\ a.id \in DOMAIN live => a.id \notin DOMAIN live' \/ (kept /\ alerts'[n].id = a.id)
                /\ a.dash \in DOMAIN dashboards =>
                     a.dash \notin DOMAIN dashboards' \/ (kept /\ alerts'[n].dash = a.dash)]_vars

\* Alert n is its own HyperDX alert, as its spec has it.
Holds(n) ==
    LET a == alerts[n]
    IN  /\ a.id \in DOMAIN live
        /\ live[a.id].name = n /\ live[a.id].bound = a.bound
        /\ live[a.id].dash \in DOMAIN dashboards
        /\ dashboards[live[a.id].dash].where = a.where
        /\ a.phase = "Synced"

\* Once people leave it alone every Alert settles: a deleted one is gone, one that
\* could never change state is refused, any other holds its own alert with its where and its fields.
Settled(n) ==
    n \in DOMAIN alerts =>
        /\ ~alerts[n].deleting
        /\ IF Decided(alerts[n].bound, 0 .. MaxCount) THEN alerts[n].phase = "Invalid" ELSE Holds(n)
Converges == <>[](\A n \in Names : Settled(n))

\* Once people leave it alone, every Alert's alert notifies the webhook there is.
NotifiesTheWebhook ==
    <>[](\A n \in DOMAIN alerts : alerts[n].id \in DOMAIN live => live[alerts[n].id].hook = hook)

=============================================================================
