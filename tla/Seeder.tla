-------------------------------- MODULE Seeder --------------------------------
(***************************************************************************)
(* The seeder (internal/controllers/alert/seed.go): a started process      *)
(* lists the Alerts, again every interval until their CRD is established,  *)
(* and then creates each default Alert it did not see.  People create and  *)
(* delete Alerts beside it.                                                *)
(***************************************************************************)
EXTENDS Budget

CONSTANT Defaults       \* the names in DEFAULT_ALERTS_JSON

VARIABLES
    crd,        \* whether the Alert CRD is established
    alerts,     \* the Alert of each default name
    seeder,     \* the running seeder
    known       \* the defaults this process has listed, created or failed to create

seedVars == <<crd, alerts, seeder, known>>

Seeding == [pc : {"stopped", "listing", "creating", "done"}, todo : SUBSET Defaults]
Stopped == [pc |-> "stopped", todo |-> {}]

SeederInit ==
    /\ crd = FALSE
    /\ alerts = [d \in Defaults |-> "absent"]
    /\ seeder = Stopped
    /\ known = {}

\* The process starts its runnables, and ends with them.
SeederStarts == seeder' = [Stopped EXCEPT !.pc = "listing"] /\ known' = {}
SeederStops == seeder' = Stopped /\ known' = {}

Existing == {d \in Defaults : alerts[d] # "absent"}

\* Fault: a list that fails ends the seeding.
NotReady_Done == [Stopped EXCEPT !.pc = "done"]

\* The list failed: it is tried again after the interval.
NotReady == seeder

\* The list past the cache, which fails until the CRD is established.
SeederList ==
    /\ seeder.pc = "listing"
    /\ \/ /\ crd
          /\ seeder' = [pc |-> "creating", todo |-> Defaults \ Existing]
          /\ known' = known \cup Existing
          /\ UNCHANGED left
       \/ ~crd /\ seeder' = NotReady /\ UNCHANGED <<known, left>>
       \/ crd /\ CallFails /\ seeder' = NotReady /\ UNCHANGED known
    /\ UNCHANGED <<crd, alerts>>

Skipped(d) == [seeder EXCEPT !.todo = @ \ {d}]

\* Fault: a create that failed sends the seeder back to its list.
CreateFailed_Again(d) == [Stopped EXCEPT !.pc = "listing"]

\* One bad seed does not block the rest, and is not tried again.
CreateFailed(d) == Skipped(d)

\* The create of one default, which the API server refuses when somebody has created it since
\* the list.
SeederCreate ==
    /\ seeder.pc = "creating"
    /\ \E d \in seeder.todo :
         /\ known' = known \cup {d}
         /\ \/ /\ alerts[d] = "absent"
               /\ alerts' = [alerts EXCEPT ![d] = "seeded"]
               /\ seeder' = Skipped(d)
               /\ UNCHANGED left
            \/ /\ alerts[d] # "absent"
               /\ seeder' = CreateFailed(d)
               /\ UNCHANGED <<alerts, left>>
            \/ /\ CallFails
               /\ seeder' = CreateFailed(d)
               /\ \/ alerts[d] = "absent" /\ alerts' = [alerts EXCEPT ![d] = "seeded"]
                  \/ UNCHANGED alerts
    /\ UNCHANGED crd

SeederDone ==
    /\ seeder.pc = "creating"
    /\ seeder.todo = {}
    /\ seeder' = [seeder EXCEPT !.pc = "done"]
    /\ UNCHANGED <<crd, alerts, known, left>>

Seeds == SeederList \/ SeederCreate \/ SeederDone

-----------------------------------------------------------------------------
(* Everyone else. *)

\* Helm's apply of the CRD reaches the API server.
EstablishCRD ==
    /\ ~crd
    /\ crd' = TRUE
    /\ UNCHANGED <<alerts, seeder, known, left>>

PersonCreates ==
    /\ crd
    /\ Spend("moves")
    /\ \E d \in Defaults :
         alerts[d] = "absent" /\ alerts' = [alerts EXCEPT ![d] = "theirs"]
    /\ UNCHANGED <<crd, seeder, known>>

PersonDeletes ==
    /\ Spend("moves")
    /\ \E d \in Defaults :
         alerts[d] # "absent" /\ alerts' = [alerts EXCEPT ![d] = "absent"]
    /\ UNCHANGED <<crd, seeder, known>>

SeederOthers == EstablishCRD \/ PersonCreates \/ PersonDeletes

\* Calls return or fail, the interval passes, and Helm's apply establishes the CRD.
SeederFairness ==
    /\ WF_<<seedVars, left>>(Seeds)
    /\ WF_<<seedVars, left>>(EstablishCRD)

-----------------------------------------------------------------------------
(* Properties. *)

SeederTypeOK ==
    /\ crd \in BOOLEAN
    /\ alerts \in [Defaults -> {"absent", "seeded", "theirs"}]
    /\ seeder \in Seeding
    /\ known \subseteq Defaults

\* A default that somebody deletes after the seeder has seen it, made it or failed to make it
\* stays deleted until the process starts again, and one of somebody else is never replaced.
DeletedStaysDeleted ==
    [][\A d \in Defaults :
         alerts'[d] = "seeded" /\ alerts[d] # "seeded" => alerts[d] = "absent" /\ d \notin known]_seedVars

\* A process that keeps running comes to an end with its seeding, and has then seen, made or
\* tried every default: a CRD that is late does not leave the installation without its alerts.
SeedsArrive ==
    seeder.pc = "listing" ~> (seeder.pc = "done" /\ known = Defaults) \/ seeder.pc = "stopped"

=============================================================================
