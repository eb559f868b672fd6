------------------------------- MODULE HyperDX -------------------------------
(***************************************************************************)
(* The HyperDX API as the Alert controller uses it (internal/hyperdx; its  *)
(* rules are those of the service, as the client's comments and its fake   *)
(* server state them): alerts, each evaluating the one tile of a           *)
(* dashboard, and the shared webhook they notify.  Ids are never reused.   *)
(***************************************************************************)
EXTENDS Integers, FiniteSets

CONSTANTS
    Names,          \* the Alert names
    Display,        \* a name that is no Alert's: an inherited alert's display name
    Wheres,         \* the values of spec.where
    Bounds,         \* the values of the alert fields: interval, threshold, thresholdType, message
    MaxAlerts,      \* bound of the HyperDX alerts ever made
    MaxDashboards,  \* bound of the dashboards ever made
    MaxHooks        \* bound of the webhooks ever made

VARIABLES
    live,           \* the HyperDX alerts, by id
    dashboards,     \* the dashboards, by id; each has one tile, which stands for it
    hook,           \* the webhook of the provider's name, or None
    made            \* how many of each were ever made

hdx == <<live, dashboards, hook, made>>

None == 0
\* The ids of the alert that predates the provider, if there is one, and of its dashboard.
Legacy == 1
LegacyDash == 1
AlertIds == 1 .. MaxAlerts
DashboardIds == 1 .. MaxDashboards
HookIds == 1 .. MaxHooks

LiveAlert == [name : Names \cup {Display}, dash : DashboardIds, bound : Bounds, hook : HookIds]
Dashboard == [name : Names \cup {Display}, where : Wheres]

With(f, i, v) == [j \in DOMAIN f \cup {i} |-> IF j = i THEN v ELSE f[j]]
Without(f, S) == [i \in DOMAIN f \ S |-> f[i]]
First(S) == CHOOSE i \in S : \A j \in S : i <= j

\* The alerts that carry a name; the list is in the order of creation.
Named(n) == {i \in DOMAIN live : live[i].name = n}

PostAlert(a) ==
    /\ made.alerts < MaxAlerts
    /\ made' = [made EXCEPT !.alerts = @ + 1]
    /\ live' = With(live, made'.alerts, a)
    /\ UNCHANGED <<dashboards, hook>>

PutAlert(i, a) ==
    /\ live' = [live EXCEPT ![i] = a]
    /\ UNCHANGED <<dashboards, hook, made>>

DeleteAlert(i) ==
    /\ live' = Without(live, {i})
    /\ UNCHANGED <<dashboards, hook, made>>

PostDashboard(d) ==
    /\ made.dashboards < MaxDashboards
    /\ made' = [made EXCEPT !.dashboards = @ + 1]
    /\ dashboards' = With(dashboards, made'.dashboards, d)
    /\ UNCHANGED <<live, hook>>

\* A PUT that names the live tile keeps it, and the alerts on it.
PutDashboard(i, d) ==
    /\ dashboards' = [dashboards EXCEPT ![i] = d]
    /\ UNCHANGED <<live, hook, made>>

\* A tile that goes takes the alerts on it along.
DeleteDashboard(i) ==
    /\ dashboards' = Without(dashboards, {i})
    /\ live' = Without(live, {j \in DOMAIN live : live[j].dash = i})
    /\ UNCHANGED <<hook, made>>

PostHook ==
    /\ made.hooks < MaxHooks
    /\ made' = [made EXCEPT !.hooks = @ + 1]
    /\ hook' = made'.hooks
    /\ UNCHANGED <<live, dashboards>>

HyperDXTypeOK ==
    /\ DOMAIN live \subseteq AlertIds /\ \A i \in DOMAIN live : live[i] \in LiveAlert
    /\ DOMAIN dashboards \subseteq DashboardIds /\ \A i \in DOMAIN dashboards : dashboards[i] \in Dashboard
    /\ hook \in HookIds \cup {None}
    /\ made \in [alerts : 0 .. MaxAlerts, dashboards : 0 .. MaxDashboards, hooks : 0 .. MaxHooks]

=============================================================================
