------------------------------ MODULE Bootstrap ------------------------------
(***************************************************************************)
(* The Job that provisions the HyperDX keys (internal/bootstrap): one run  *)
(* waits for HyperDX, registers its first admin or logs in, reads the      *)
(* team's key and the user's key, and writes both into a Secret.  A run    *)
(* that fails is started again from the beginning, BackoffLimit times; a   *)
(* new release brings a new Job.                                           *)
(*                                                                         *)
(* HyperDX and the Secret have other users: somebody registers first,      *)
(* HyperDX is upgraded to a version that has user keys, it is installed    *)
(* anew, the Secret is deleted.  A team is named by its number, 1 for the  *)
(* first that HyperDX ever had; its keys and its sessions by the same      *)
(* number, and 0 is no team, no key, no session.                           *)
(***************************************************************************)
EXTENDS Integers, Budget

CONSTANTS
    Tries,          \* Config.Tries: polls before a run gives up
    BackoffLimit,   \* the Job's backoffLimit
    LoginFields     \* the fields of the login's body that HyperDX reads as the user's name

Fields == {"email", "username"}

ASSUME BootstrapAssumption ==
    /\ Tries \in Nat \ {0}
    /\ BackoffLimit \in Nat
    /\ LoginFields \subseteq Fields
    /\ LoginFields # {}

VARIABLES
    server,     \* HyperDX: its team, teams made so far, whether the admin is ours, has user keys
    secret,     \* the Secret: token (0: there is no Secret) and accessKey (0: it has none)
    job,        \* the Job's current run
    disturbed   \* what happened since the Job was created that a run may fail of

bootVars == <<server, secret, job, disturbed>>

Server == [team : Nat, made : Nat, ours : BOOLEAN, v2 : BOOLEAN]
Secret == [token : Nat, access : Nat]
Absent == [token |-> 0, access |-> 0]
Ended == {"complete", "failed"}
Phases == {"polling", "registering", "loggingIn", "readingTeam", "readingMe", "creating",
           "patching"} \cup Ended
Job == [pc : Phases, polls : 0 .. Tries - 1, field : Fields, login : {"first", "explicit"}, session : Nat,
        teamKey : Nat, userKey : Nat, restarts : 0 .. BackoffLimit]
NewRun == [pc |-> "polling", polls |-> 0, field |-> "email", login |-> "first", session |-> 0,
           teamKey |-> 0, userKey |-> 0, restarts |-> 0]
Calm == [faulted |-> FALSE, moved |-> FALSE]

BootstrapInit ==
    /\ \E v2 \in BOOLEAN : server = [team |-> 0, made |-> 0, ours |-> FALSE, v2 |-> v2]
    /\ secret = Absent
    /\ job = NewRun
    /\ disturbed = Calm

-----------------------------------------------------------------------------
(* One run. *)

\* Fault: one restart more than the Job allows.
Restarted_OneMore(j) ==
    IF j.restarts <= BackoffLimit
    THEN [NewRun EXCEPT !.restarts = j.restarts + 1]
    ELSE [j EXCEPT !.pc = "failed"]

\* Fault: restarts are not counted.
Restarted_Uncounted(j) == [NewRun EXCEPT !.restarts = j.restarts]

\* The run ended with an error: the kubelet starts it again, until the Job has failed.
Restarted(j) ==
    IF j.restarts < BackoffLimit
    THEN [NewRun EXCEPT !.restarts = j.restarts + 1]
    ELSE [j EXCEPT !.pc = "failed"]

\* A failing call of the run, after which the job is j.
Fault(j) ==
    /\ CallFails
    /\ job' = j
    /\ disturbed' = [disturbed EXCEPT !.faulted = TRUE]

\* The run goes on as j, no call having failed.
Goes(j) == job' = j /\ UNCHANGED <<disturbed, left>>

LogsIn(j, login) == [j EXCEPT !.pc = "loggingIn", !.field = "email", !.login = login]

\* GET /api/installation: an answer says whether there is a team; else the poll is repeated.
Poll ==
    /\ job.pc = "polling"
    /\ \/ Goes(IF server.team # 0 THEN LogsIn(job, "first") ELSE [job EXCEPT !.pc = "registering"])
       \/ Fault(IF job.polls + 1 < Tries THEN [job EXCEPT !.polls = @ + 1] ELSE Restarted(job))
    /\ UNCHANGED <<server, secret>>

\* An accepted register or login: with the session of its cookie the run reads the keys, without
\* one it logs in explicitly, once, and goes on with whatever that gives.
Authenticated(j, session) ==
    IF session # 0 \/ j.login = "explicit"
    THEN [j EXCEPT !.pc = "readingTeam", !.session = session]
    ELSE LogsIn(j, "explicit")

NewTeam(ours) == [server EXCEPT !.team = server.made + 1, !.made = @ + 1, !.ours = ours]

\* Fault: a refused or failed registration ends the run.
RegisterFailed_Ends(j) == Restarted(j)

\* Somebody may have registered between the check and now.
RegisterFailed(j) == LogsIn(j, "first")

\* POST /api/register/password, which HyperDX refuses once it has a team.
Register ==
    /\ job.pc = "registering"
    /\ \/ /\ server.team = 0
          /\ server' = NewTeam(TRUE)
          /\ \E session \in {0, server.made + 1} : Goes(Authenticated(job, session))
       \/ /\ server.team # 0
          /\ Goes(RegisterFailed(job))
          /\ UNCHANGED server
       \/ /\ Fault(RegisterFailed(job))
          /\ \/ server.team = 0 /\ server' = NewTeam(TRUE)
             \/ UNCHANGED server
    /\ UNCHANGED secret

\* A login without success: the next field, else the run goes on without a session when this was
\* the explicit login, and ends when it was not.
LoginFailed(j) ==
    CASE j.field = "email" -> [j EXCEPT !.field = "username"]
      [] j.field # "email" /\ j.login = "explicit" -> Authenticated(j, 0)
      [] OTHER -> Restarted(j)

\* POST /api/login/password.  An answer without a cookie counts as a failing call.
Login ==
    /\ job.pc = "loggingIn"
    /\ LET accepted == server.team # 0 /\ server.ours /\ job.field \in LoginFields
       IN  \/ accepted /\ Goes(Authenticated(job, server.team))
           \/ ~accepted /\ Goes(LoginFailed(job))
           \/ Fault(LoginFailed(job))
           \/ accepted /\ Fault(Authenticated(job, 0))
    /\ UNCHANGED <<server, secret>>

\* The session is one of the team HyperDX has; else it redirects to the login page.
LoggedIn == job.session # 0 /\ job.session = server.team

\* GET /api/team: team.apiKey.
ReadTeam ==
    /\ job.pc = "readingTeam"
    /\ \/ LoggedIn /\ Goes([job EXCEPT !.pc = "readingMe", !.teamKey = server.team])
       \/ ~LoggedIn /\ Goes(Restarted(job))
       \/ Fault(Restarted(job))
    /\ UNCHANGED <<server, secret>>

\* GET /api/me: user.accessKey, which an older HyperDX does not have.
ReadMe ==
    /\ job.pc = "readingMe"
    /\ \/ /\ LoggedIn
          /\ Goes([job EXCEPT !.pc = "creating", !.userKey = IF server.v2 THEN server.team ELSE 0])
       \/ ~LoggedIn /\ Goes(Restarted(job))
       \/ Fault(Restarted(job))
    /\ UNCHANGED <<server, secret>>

Complete(j) == [j EXCEPT !.pc = "complete"]

\* Fault: a Secret that exists is taken for written.
AlreadyExists_Complete(j) == Complete(j)

AlreadyExists(j) == [j EXCEPT !.pc = "patching"]

\* The create of the Secret.
Create ==
    /\ job.pc = "creating"
    /\ LET written == [token |-> job.teamKey, access |-> job.userKey]
           exists == secret # Absent
       IN  \/ ~exists /\ secret' = written /\ Goes(Complete(job))
           \/ exists /\ Goes(AlreadyExists(job)) /\ UNCHANGED secret
           \/ /\ Fault(Restarted(job))
              /\ \/ ~exists /\ secret' = written
                 \/ UNCHANGED secret
    /\ UNCHANGED server

\* Fault: the patch leaves the user's key alone.
Patched_TokenOnly(s, j) == [s EXCEPT !.token = j.teamKey]

\* The merge patch: accessKey is in it only if there is one.
Patched(s, j) ==
    [token |-> j.teamKey, access |-> IF j.userKey # 0 THEN j.userKey ELSE s.access]

\* The patch of the Secret, which somebody may have deleted meanwhile.
Patch ==
    /\ job.pc = "patching"
    /\ LET exists == secret # Absent
       IN  \/ exists /\ secret' = Patched(secret, job) /\ Goes(Complete(job))
           \/ ~exists /\ Goes(Restarted(job)) /\ UNCHANGED secret
           \/ /\ Fault(Restarted(job))
              /\ \/ exists /\ secret' = Patched(secret, job)
                 \/ UNCHANGED secret
    /\ UNCHANGED server

\* The run's pod is evicted or killed.
Killed ==
    /\ job.pc \notin Ended
    /\ Fault(Restarted(job))
    /\ UNCHANGED <<server, secret>>

Runs == Poll \/ Register \/ Login \/ ReadTeam \/ ReadMe \/ Create \/ Patch

-----------------------------------------------------------------------------
(* Everyone else. *)

Moves == Spend("moves") /\ disturbed' = [disturbed EXCEPT !.moved = TRUE]

\* Somebody registers first: an earlier installation of the same credentials, or another admin.
SomeoneRegisters ==
    /\ server.team = 0
    /\ \/ server' = NewTeam(TRUE) /\ Spend("moves") /\ UNCHANGED disturbed
       \/ server' = NewTeam(FALSE) /\ Moves
    /\ UNCHANGED <<secret, job>>

\* HyperDX 2.28 and later have user keys.  It is not taken back to an older version.
Upgrade ==
    /\ ~server.v2
    /\ server' = [server EXCEPT !.v2 = TRUE]
    /\ Moves
    /\ UNCHANGED <<secret, job>>

\* HyperDX is installed anew, without its data.
Reinstall ==
    /\ server.team # 0
    /\ server' = [server EXCEPT !.team = 0, !.ours = FALSE]
    /\ Moves
    /\ UNCHANGED <<secret, job>>

DropSecret ==
    /\ secret # Absent
    /\ secret' = Absent
    /\ Moves
    /\ UNCHANGED <<server, job>>

\* A new release: its Job replaces the previous one, whose pod is gone with it.
Release ==
    /\ Spend("moves")
    /\ job' = NewRun
    /\ disturbed' = Calm
    /\ UNCHANGED <<server, secret>>

BootstrapOthers == SomeoneRegisters \/ Upgrade \/ Reinstall \/ DropSecret \/ Release

BootstrapNext == Runs \/ Killed \/ BootstrapOthers

\* Every call of a run returns or fails by its timeout, and the kubelet starts a run again.
BootstrapFairness == WF_<<bootVars, left>>(Runs)

-----------------------------------------------------------------------------
(* Properties. *)

BootstrapTypeOK ==
    /\ server \in Server
    /\ secret \in Secret
    /\ job \in Job
    /\ disturbed \in [faulted : BOOLEAN, moved : BOOLEAN]

\* The two keys of the Secret are of one team, whatever runs wrote it, were cut short or lost
\* their answer, and however often HyperDX was installed anew between them (writeSecret patches
\* accessKey only when /api/me had one).
KeysBelongTogether == secret.access # 0 => secret.access = secret.token

\* A complete Job has written the keys of the team HyperDX has, and the user's key if it has any:
\* unless HyperDX or the Secret changed under it, nobody need run it again.
CompleteMeansProvisioned ==
    job.pc = "complete" /\ ~disturbed.moved =>
        /\ secret.token = server.team
        /\ server.v2 => secret.access = server.team

\* A run fails only of a failing call, of a team that is not ours, or of a change under it: that
\* somebody registered between its check and its registration does not end it.
RaceIsAbsorbed ==
    job.restarts > 0 \/ job.pc = "failed" =>
        disturbed.faulted \/ disturbed.moved \/ (server.team # 0 /\ ~server.ours)

\* The Job ends, complete or failed, however HyperDX answers.
JobEnds == job.pc \notin Ended ~> job.pc \in Ended

=============================================================================
