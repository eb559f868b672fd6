----------------------------- MODULE ProviderProofs -----------------------------
(***************************************************************************)
(* What holds of the provider around its controllers, for any bounds,      *)
(* callers, lifetimes, login fields, defaults and answers.  Each component *)
(* has an inductive invariant of its own, which the others' steps leave    *)
(* alone: JobInv, JWTInv, SeedInv, CompInv.                                *)
(***************************************************************************)
EXTENDS Provider, WellFoundedInduction, FiniteSetTheorems, SequenceTheorems, TLAPS

-----------------------------------------------------------------------------
(* The Job. *)

\* What a run has read is of one team, and is never less than what the Secret holds.
ReadsOneTeam ==
    /\ job.pc \in {"readingMe", "creating", "patching"} => job.teamKey # 0
    /\ job.pc = "readingMe" => job.teamKey = job.session
    /\ job.pc \in {"creating", "patching"} =>
         /\ job.userKey \in {0, job.teamKey}
         /\ job.userKey # 0 => server.v2
         /\ secret.access # 0 => job.userKey # 0
    /\ secret.access # 0 => server.v2
    /\ job.pc \in {"polling", "registering"} => job.login = "first"

\* Unless HyperDX or the Secret changed under the run, what it has read is HyperDX's.
ReadsTheTeam ==
    ~disturbed.moved =>
        /\ job.session # 0 => job.session = server.team
        /\ job.pc \in {"readingMe", "creating", "patching", "complete"} =>
             job.teamKey = server.team /\ server.team # 0
        /\ job.pc \in {"creating", "patching", "complete"} /\ server.v2 => job.userKey = server.team

SomeoneElses == server.team # 0 /\ ~server.ours
Blamed == disturbed.faulted \/ disturbed.moved \/ SomeoneElses

\* A run that nothing disturbed finds what its next call needs.
GoesWell ==
    ~Blamed =>
        /\ job.pc = "loggingIn" =>
             server.team # 0 /\ (job.field = "username" => "email" \notin LoginFields)
        /\ job.pc = "readingTeam" => job.session # 0
        /\ job.pc = "patching" => secret # Absent

JobInv ==
    /\ BootstrapTypeOK
    /\ KeysBelongTogether /\ CompleteMeansProvisioned /\ RaceIsAbsorbed
    /\ ReadsOneTeam /\ ReadsTheTeam /\ GoesWell

\* Every proof of this part unfolds these.
USE DEF KeysBelongTogether, CompleteMeansProvisioned, RaceIsAbsorbed, ReadsOneTeam,
        ReadsTheTeam, GoesWell, Blamed, SomeoneElses

LEMMA NewRuns ==
    ASSUME NEW n \in 0 .. BackoffLimit
    PROVE  LET r == [NewRun EXCEPT !.restarts = n]
           IN  r \in Job /\ r.pc = "polling" /\ r.session = 0 /\ r.restarts = n
               /\ r.login = "first"
  <1>1. 0 \in 0 .. Tries - 1
    BY BootstrapAssumption
  <1>2. "polling" \in Phases
    BY DEF Phases
  <1> DEFINE r == [NewRun EXCEPT !.restarts = n]
  <1>3. r \in Job
    BY <1>1, <1>2 DEF NewRun, Fields, Job
  <1>4. r.pc = "polling" /\ r.session = 0 /\ r.restarts = n
    BY DEF NewRun
  <1>5. r.login = "first"
    BY DEF NewRun
  <1> QED
    BY <1>3, <1>4, <1>5

\* A run goes on in another phase.
LEMMA PhaseChanges ==
    ASSUME NEW j \in Job, NEW pc \in Phases
    PROVE  [j EXCEPT !.pc = pc] \in Job
  BY DEF Job

LEMMA LogsInTyped ==
    ASSUME NEW j \in Job, NEW login \in {"first", "explicit"}
    PROVE  LET l == LogsIn(j, login)
           IN  /\ l \in Job /\ l.pc = "loggingIn" /\ l.field = "email"
               /\ l.session = j.session /\ l.restarts = j.restarts
  BY DEF LogsIn, Job, Fields, Phases

\* With a session the run reads the team; it may also do without one after its explicit login.
LEMMA AuthenticatedTyped ==
    ASSUME NEW j \in Job, NEW session \in Nat
    PROVE  LET r == Authenticated(j, session)
           IN  /\ r \in Job /\ r.restarts = j.restarts
               /\ \/ /\ r.pc = "readingTeam" /\ r.session = session
                     /\ session # 0 \/ j.login = "explicit"
                  \/ /\ r.pc = "loggingIn" /\ r.field = "email" /\ r.session = j.session
                     /\ session = 0
  <1>1. CASE session # 0 \/ j.login = "explicit"
    BY <1>1 DEF Authenticated, Job, Phases
  <1>2. CASE ~(session # 0 \/ j.login = "explicit")
    BY <1>2, LogsInTyped DEF Authenticated
  <1> QED
    BY <1>1, <1>2

LEMMA JobInit == BootstrapInit => JobInv
  <1> SUFFICES ASSUME BootstrapInit PROVE JobInv
    OBVIOUS
  <1>1. job = [NewRun EXCEPT !.restarts = 0] /\ 0 \in 0 .. BackoffLimit
    BY BootstrapAssumption DEF BootstrapInit, NewRun
  <1>2. job \in Job /\ job.pc = "polling" /\ job.session = 0 /\ job.restarts = 0
        /\ job.login = "first"
    BY <1>1, NewRuns
  <1> QED
    BY <1>2 DEF BootstrapInit, JobInv, BootstrapTypeOK, Absent, Calm, Server, Secret

\* A run that ends with an error leaves nothing behind but its count.
LEMMA RunEnds ==
    ASSUME JobInv, job' = Restarted(job), UNCHANGED server, Blamed',
           disturbed.moved => disturbed'.moved, disturbed' \in [faulted : BOOLEAN, moved : BOOLEAN],
           secret' \in Secret, secret'.access # 0 => secret'.access = secret'.token /\ server.v2
    PROVE  JobInv'
  <1>1. /\ job' \in Job
        /\ (job'.pc = "polling" /\ job'.login = "first") \/ job'.pc = "failed"
        /\ job'.session # 0 => job'.session = job.session
    <2>1. CASE job.restarts < BackoffLimit
      <3>1. job' = [NewRun EXCEPT !.restarts = job.restarts + 1]
        BY <2>1 DEF Restarted
      <3>2. job.restarts + 1 \in 0 .. BackoffLimit
        BY <2>1, BootstrapAssumption DEF JobInv, BootstrapTypeOK, Job
      <3> QED
        BY <3>1, <3>2, NewRuns
    <2>2. CASE ~(job.restarts < BackoffLimit)
      <3>1. job' = [job EXCEPT !.pc = "failed"] /\ "failed" \in Phases
        BY <2>2 DEF Restarted, Phases, Ended
      <3> QED
        BY <3>1, PhaseChanges DEF JobInv, BootstrapTypeOK, Job
    <2> QED
      BY <2>1, <2>2
  <1> QED
    BY <1>1 DEF JobInv, BootstrapTypeOK

LEMMA PollStep == JobInv /\ Poll => JobInv'
  <1> SUFFICES ASSUME JobInv, Poll PROVE JobInv'
    OBVIOUS
  <1>1. CASE Goes(IF server.team # 0 THEN LogsIn(job, "first") ELSE [job EXCEPT !.pc = "registering"])
    <2>1. /\ job' \in Job
          /\ job'.session = job.session /\ job'.restarts = job.restarts
          /\ \/ job'.pc = "loggingIn" /\ job'.field = "email" /\ server.team # 0
             \/ job'.pc = "registering" /\ job'.login = "first"
      <3>1. job \in Job /\ job.login = "first"
        BY DEF JobInv, BootstrapTypeOK, Poll
      <3>2. CASE server.team # 0
        BY <1>1, <3>1, <3>2, LogsInTyped DEF Goes
      <3>3. CASE server.team = 0
        <4>1. job' = [job EXCEPT !.pc = "registering"] /\ "registering" \in Phases
          BY <1>1, <3>3 DEF Goes, Phases
        <4> QED
          BY <3>1, <4>1, PhaseChanges DEF Job
      <3> QED
        BY <3>2, <3>3
    <2> QED
      BY <1>1, <2>1 DEF JobInv, BootstrapTypeOK, Poll, Goes
  <1>2. CASE Fault(IF job.polls + 1 < Tries THEN [job EXCEPT !.polls = @ + 1] ELSE Restarted(job))
    <2>1. CASE job.polls + 1 < Tries
      <3>1. job' = [job EXCEPT !.polls = @ + 1]
        BY <1>2, <2>1 DEF Fault
      <3>2. job.polls + 1 \in 0 .. Tries - 1
        BY <2>1, BootstrapAssumption DEF JobInv, BootstrapTypeOK, Job
      <3>3. job' \in Job /\ job'.pc = "polling" /\ job'.session = job.session /\ job'.login = "first"
        BY <3>1, <3>2 DEF JobInv, BootstrapTypeOK, Job, Poll
      <3> QED
        BY <1>2, <3>3 DEF JobInv, BootstrapTypeOK, Poll, Fault
    <2>2. CASE ~(job.polls + 1 < Tries)
      BY <1>2, <2>2, RunEnds DEF JobInv, BootstrapTypeOK, Poll, Fault
    <2> QED
      BY <2>1, <2>2
  <1> QED
    BY <1>1, <1>2 DEF Poll

LEMMA NewTeamTyped ==
    ASSUME server \in Server, NEW ours \in BOOLEAN
    PROVE  LET s == NewTeam(ours)
           IN  /\ s \in Server /\ s.team = server.made + 1 /\ s.team # 0
               /\ s.ours = ours /\ s.v2 = server.v2
  <1>1. server.made + 1 \in Nat /\ server.made + 1 # 0
    BY DEF Server
  <1> QED
    BY <1>1 DEF NewTeam, Server

LEMMA RegisterStep == JobInv /\ Register => JobInv'
  <1> SUFFICES ASSUME JobInv, Register PROVE JobInv'
    OBVIOUS
  <1> USE DEF JobInv, BootstrapTypeOK
  <1>0. /\ job \in Job /\ server \in Server /\ job.pc = "registering" /\ job.login = "first"
        /\ UNCHANGED secret
    BY DEF Register
  <1>1. ASSUME server.team = 0, server' = NewTeam(TRUE),
               NEW session \in {0, server.made + 1}, Goes(Authenticated(job, session))
        PROVE  JobInv'
    <2>1. server' \in Server /\ server'.team = server.made + 1 /\ server'.team # 0
          /\ server'.ours /\ server'.v2 = server.v2
      BY <1>0, <1>1, NewTeamTyped
    <2>0. session \in Nat
      BY <1>0, <1>1 DEF Server
    <2>2. /\ job' \in Job /\ job'.restarts = job.restarts
          /\ \/ job'.pc = "readingTeam" /\ job'.session = session
             \/ job'.pc = "loggingIn" /\ job'.field = "email" /\ job'.session = job.session
      BY <1>0, <1>1, <2>0, AuthenticatedTyped DEF Goes
    <2>3. ~disturbed.moved => job.session = 0
      BY <1>1
    <2>4. job'.pc = "readingTeam" => session # 0
      BY <1>0, <1>1, <2>0, AuthenticatedTyped DEF Goes
    <2> QED
      BY <1>0, <1>1, <2>1, <2>2, <2>3, <2>4 DEF Goes
  <1>2. CASE server.team # 0 /\ Goes(RegisterFailed(job)) /\ UNCHANGED server
    <2>1. /\ job' \in Job /\ job'.pc = "loggingIn" /\ job'.field = "email"
          /\ job'.session = job.session /\ job'.restarts = job.restarts
      BY <1>0, <1>2, LogsInTyped DEF Goes, RegisterFailed
    <2> QED
      BY <1>0, <1>2, <2>1 DEF Goes
  <1>3. ASSUME Fault(RegisterFailed(job)),
               \/ server.team = 0 /\ server' = NewTeam(TRUE)
               \/ UNCHANGED server
        PROVE  JobInv'
    <2>1. /\ job' \in Job /\ job'.pc = "loggingIn" /\ job'.session = job.session
      BY <1>0, <1>3, LogsInTyped DEF Fault, RegisterFailed
    <2>2. /\ server' \in Server /\ server'.v2 = server.v2
          /\ server' = server \/ server.team = 0
      BY <1>0, <1>3, NewTeamTyped
    <2> QED
      BY <1>0, <1>3, <2>1, <2>2 DEF Fault
  <1> QED
    BY <1>1, <1>2, <1>3 DEF Register

\* What a login comes to, by whether the next field is still to try.
LEMMA LoginFailedTyped ==
    ASSUME NEW j \in Job, j.pc = "loggingIn"
    PROVE  LET r == LoginFailed(j)
           IN  \/ /\ j.field = "email"
                  /\ r \in Job /\ r.pc = "loggingIn" /\ r.field = "username"
                  /\ r.session = j.session /\ r.restarts = j.restarts
               \/ /\ j.field = "username"
                  /\ r \in Job /\ r.pc = "readingTeam" /\ r.session = 0
                  /\ r.restarts = j.restarts
               \/ j.field = "username" /\ r = Restarted(j)
  <1>1. CASE j.field = "email"
    BY <1>1 DEF LoginFailed, Job, Fields
  <1>2. CASE j.field = "username" /\ j.login = "explicit"
    <2>1. LoginFailed(j) = Authenticated(j, 0)
      BY <1>2 DEF LoginFailed
    <2>2. Authenticated(j, 0) = [j EXCEPT !.pc = "readingTeam", !.session = 0]
      BY <1>2 DEF Authenticated
    <2>3. [j EXCEPT !.pc = "readingTeam", !.session = 0] \in Job
      BY DEF Job, Phases
    <2> QED
      BY <1>2, <2>1, <2>2, <2>3 DEF Job
  <1>3. CASE j.field = "username" /\ j.login # "explicit"
    BY <1>3 DEF LoginFailed
  <1> QED
    BY <1>1, <1>2, <1>3 DEF Job, Fields

LEMMA LoginStep == JobInv /\ Login => JobInv'
  <1> SUFFICES ASSUME JobInv, Login PROVE JobInv'
    OBVIOUS
  <1> USE DEF JobInv, BootstrapTypeOK
  <1> DEFINE accepted == server.team # 0 /\ server.ours /\ job.field \in LoginFields
  <1>0. /\ job \in Job /\ server \in Server /\ server.team \in Nat /\ job.pc = "loggingIn"
        /\ UNCHANGED <<server, secret>>
    BY DEF Login, Server
  <1>1. CASE accepted /\ Goes(Authenticated(job, server.team))
    <2>1. /\ job' \in Job /\ job'.restarts = job.restarts
          /\ job'.pc = "readingTeam" /\ job'.session = server.team
      BY <1>0, <1>1, AuthenticatedTyped DEF Goes
    <2> QED
      BY <1>0, <1>1, <2>1 DEF Goes
  <1>2. CASE ~accepted /\ Goes(LoginFailed(job))
    <2>1. ~Blamed => job.field = "email" /\ job.field \notin LoginFields
      BY <1>0, <1>2, BootstrapAssumption DEF Job, Fields
    <2>2. CASE job.field = "email"
      <3>1. /\ job' \in Job /\ job'.pc = "loggingIn" /\ job'.field = "username"
            /\ job'.session = job.session /\ job'.restarts = job.restarts
        BY <1>0, <1>2, <2>2, LoginFailedTyped DEF Goes
      <3> QED
        BY <1>0, <1>2, <2>1, <3>1 DEF Goes
    <2>3. CASE job' \in Job /\ job'.pc = "readingTeam" /\ job'.session = 0 /\ Blamed
               /\ job'.restarts = job.restarts
      BY <1>0, <1>2, <2>3 DEF Goes
    <2>4. CASE job' = Restarted(job) /\ Blamed
      BY <1>0, <1>2, <2>4, RunEnds DEF Goes
    <2> QED
      BY <1>0, <1>2, <2>1, <2>2, <2>3, <2>4, LoginFailedTyped DEF Goes
  <1>3. CASE Fault(LoginFailed(job))
    <2>1. CASE job' = Restarted(job)
      BY <1>0, <1>3, <2>1, RunEnds DEF Fault
    <2>2. CASE job' \in Job /\ job'.pc \in {"loggingIn", "readingTeam"}
               /\ job'.session \in {0, job.session}
      BY <1>0, <1>3, <2>2 DEF Fault
    <2> QED
      BY <1>0, <1>3, <2>1, <2>2, LoginFailedTyped DEF Fault
  <1>4. CASE accepted /\ Fault(Authenticated(job, 0))
    <2>1. job' \in Job /\ job'.pc \in {"loggingIn", "readingTeam"} /\ job'.session \in {0, job.session}
      BY <1>0, <1>4, AuthenticatedTyped DEF Fault
    <2> QED
      BY <1>0, <1>4, <2>1 DEF Fault
  <1> QED
    BY <1>1, <1>2, <1>3, <1>4 DEF Login

LEMMA ReadTeamStep == JobInv /\ ReadTeam => JobInv'
  <1> SUFFICES ASSUME JobInv, ReadTeam PROVE JobInv'
    OBVIOUS
  <1> USE DEF JobInv, BootstrapTypeOK
  <1>0. /\ job \in Job /\ server.team \in Nat /\ job.pc = "readingTeam"
        /\ UNCHANGED <<server, secret>>
    BY DEF ReadTeam, Server
  <1>1. CASE LoggedIn /\ Goes([job EXCEPT !.pc = "readingMe", !.teamKey = server.team])
    <2>1. /\ job' \in Job /\ job'.pc = "readingMe" /\ job'.teamKey = server.team
          /\ job'.session = job.session /\ job'.restarts = job.restarts
      BY <1>0, <1>1 DEF Goes, Job, Phases
    <2> QED
      BY <1>0, <1>1, <2>1 DEF Goes, LoggedIn
  <1>2. CASE ~LoggedIn /\ Goes(Restarted(job))
    <2>1. Blamed
      BY <1>0, <1>2 DEF LoggedIn
    <2> QED
      BY <1>0, <1>2, <2>1, RunEnds DEF Goes
  <1>3. CASE Fault(Restarted(job))
    BY <1>0, <1>3, RunEnds DEF Fault
  <1> QED
    BY <1>1, <1>2, <1>3 DEF ReadTeam

LEMMA ReadMeStep == JobInv /\ ReadMe => JobInv'
  <1> SUFFICES ASSUME JobInv, ReadMe PROVE JobInv'
    OBVIOUS
  <1> USE DEF JobInv, BootstrapTypeOK
  <1>0. /\ job \in Job /\ server.team \in Nat /\ job.pc = "readingMe"
        /\ UNCHANGED <<server, secret>>
    BY DEF ReadMe, Server
  <1>1. CASE /\ LoggedIn
             /\ Goes([job EXCEPT !.pc = "creating", !.userKey = IF server.v2 THEN server.team ELSE 0])
    <2> DEFINE userKey == IF server.v2 THEN server.team ELSE 0
    <2>1. userKey \in Nat
      BY <1>0
    <2>2. /\ job' \in Job /\ job'.pc = "creating" /\ job'.userKey = userKey
          /\ job'.session = job.session /\ job'.restarts = job.restarts
          /\ job'.teamKey = job.teamKey
      BY <1>0, <1>1, <2>1 DEF Goes, Job, Phases
    <2>3. job.teamKey = server.team /\ server.team # 0
      BY <1>0, <1>1 DEF LoggedIn
    <2> QED
      BY <1>0, <1>1, <2>2, <2>3 DEF Goes, LoggedIn
  <1>2. CASE ~LoggedIn /\ Goes(Restarted(job))
    <2>1. Blamed
      BY <1>0, <1>2 DEF LoggedIn
    <2> QED
      BY <1>0, <1>2, <2>1, RunEnds DEF Goes
  <1>3. CASE Fault(Restarted(job))
    BY <1>0, <1>3, RunEnds DEF Fault
  <1> QED
    BY <1>1, <1>2, <1>3 DEF ReadMe

\* What a create or a patch may write: keys of one team.
Writable(s) ==
    /\ s \in Secret
    /\ s.token = job.teamKey
    /\ s.access = IF job.userKey # 0 THEN job.userKey ELSE 0

LEMMA Completes ==
    ASSUME JobInv, job.pc \in {"creating", "patching"}, job' = Complete(job), UNCHANGED <<server, disturbed>>,
           Writable(secret')
    PROVE  JobInv'
  <1> USE DEF JobInv, BootstrapTypeOK
  <1>1. /\ job' \in Job /\ job'.pc = "complete" /\ job'.teamKey = job.teamKey
        /\ job'.userKey = job.userKey /\ job'.session = job.session /\ job'.restarts = job.restarts
    BY DEF Complete, Job, Phases, Ended
  <1> QED
    BY <1>1 DEF Writable

LEMMA CreateStep == JobInv /\ Create => JobInv'
  <1> SUFFICES ASSUME JobInv, Create PROVE JobInv'
    OBVIOUS
  <1> USE DEF JobInv, BootstrapTypeOK
  <1> DEFINE written == [token |-> job.teamKey, access |-> job.userKey]
             exists == secret # Absent
  <1>0. job \in Job /\ job.pc = "creating" /\ UNCHANGED server
    BY DEF Create
  <1>1. Writable(written)
    BY <1>0 DEF Writable, Secret, Job
  <1>2. CASE ~exists /\ secret' = written /\ Goes(Complete(job))
    BY <1>0, <1>1, <1>2, Completes DEF Goes, Writable
  <1>3. CASE exists /\ Goes(AlreadyExists(job)) /\ UNCHANGED secret
    <2>1. /\ job' \in Job /\ job'.pc = "patching" /\ job'.teamKey = job.teamKey
          /\ job'.userKey = job.userKey /\ job'.session = job.session
          /\ job'.restarts = job.restarts
      BY <1>0, <1>3 DEF Goes, AlreadyExists, Job, Phases
    <2> QED
      BY <1>0, <1>3, <2>1 DEF Goes
  <1>4. ASSUME Fault(Restarted(job)), \/ ~exists /\ secret' = written
                                     \/ UNCHANGED secret
        PROVE  JobInv'
    <2>1. secret' \in Secret /\ (secret'.access # 0 => secret'.access = secret'.token /\ server.v2)
      BY <1>0, <1>1, <1>4 DEF Writable
    <2> QED
      BY <1>0, <1>4, <2>1, RunEnds DEF Fault
  <1> QED
    BY <1>2, <1>3, <1>4 DEF Create

LEMMA PatchStep == JobInv /\ Patch => JobInv'
  <1> SUFFICES ASSUME JobInv, Patch PROVE JobInv'
    OBVIOUS
  <1> USE DEF JobInv, BootstrapTypeOK
  <1> DEFINE exists == secret # Absent
  <1>0. job \in Job /\ job.pc = "patching" /\ UNCHANGED server
    BY DEF Patch
  <1>1. Writable(Patched(secret, job))
    BY <1>0 DEF Writable, Patched, Secret, Job
  <1>2. CASE exists /\ secret' = Patched(secret, job) /\ Goes(Complete(job))
    BY <1>0, <1>1, <1>2, Completes DEF Goes, Writable
  <1>3. CASE ~exists /\ Goes(Restarted(job)) /\ UNCHANGED secret
    <2>1. Blamed
      BY <1>0, <1>3
    <2> QED
      BY <1>0, <1>3, <2>1, RunEnds DEF Goes
  <1>4. ASSUME Fault(Restarted(job)), \/ exists /\ secret' = Patched(secret, job)
                                     \/ UNCHANGED secret
        PROVE  JobInv'
    <2>1. secret' \in Secret /\ (secret'.access # 0 => secret'.access = secret'.token /\ server.v2)
      BY <1>0, <1>1, <1>4 DEF Writable
    <2> QED
      BY <1>0, <1>4, <2>1, RunEnds DEF Fault
  <1> QED
    BY <1>2, <1>3, <1>4 DEF Patch

LEMMA KilledStep == JobInv /\ Killed => JobInv'
  BY RunEnds DEF JobInv, BootstrapTypeOK, Killed, Fault

LEMMA OthersStep == JobInv /\ BootstrapOthers => JobInv'
  <1> SUFFICES ASSUME JobInv, BootstrapOthers PROVE JobInv'
    OBVIOUS
  <1> USE DEF JobInv, BootstrapTypeOK
  <1>1. CASE SomeoneRegisters
    <2>1. ASSUME NEW ours \in BOOLEAN, server' = NewTeam(ours)
          PROVE  /\ server' \in Server /\ server'.v2 = server.v2 /\ server'.team # 0
                 /\ server'.ours = ours
      BY <2>1, NewTeamTyped
    <2>2. CASE server' = NewTeam(TRUE) /\ UNCHANGED disturbed
      <3>1. server' \in Server /\ server'.v2 = server.v2 /\ server'.ours
        BY <2>1, <2>2
      <3> QED
        BY <1>1, <2>2, <3>1 DEF SomeoneRegisters
    <2>3. CASE server' = NewTeam(FALSE) /\ Moves
      <3>1. server' \in Server /\ server'.v2 = server.v2
        BY <2>1, <2>3
      <3> QED
        BY <1>1, <2>3, <3>1 DEF SomeoneRegisters, Moves
    <2> QED
      BY <1>1, <2>2, <2>3 DEF SomeoneRegisters
  <1>2. CASE Upgrade
    <2>1. server' \in Server /\ server'.v2
      BY <1>2 DEF Upgrade, Server
    <2> QED
      BY <1>2, <2>1 DEF Upgrade, Moves
  <1>3. CASE Reinstall
    <2>1. server' \in Server /\ server'.v2 = server.v2
      BY <1>3 DEF Reinstall, Server
    <2> QED
      BY <1>3, <2>1 DEF Reinstall, Moves
  <1>4. CASE DropSecret
    BY <1>4 DEF DropSecret, Moves, Absent, Secret
  <1>5. CASE Release
    <2>1. job' = [NewRun EXCEPT !.restarts = 0] /\ 0 \in 0 .. BackoffLimit
      BY <1>5, BootstrapAssumption DEF Release, NewRun
    <2>2. /\ job' \in Job /\ job'.pc = "polling" /\ job'.session = 0 /\ job'.restarts = 0
          /\ job'.login = "first"
      BY <2>1, NewRuns
    <2> QED
      BY <1>5, <2>2 DEF Release, Calm
  <1> QED
    BY <1>1, <1>2, <1>3, <1>4, <1>5 DEF BootstrapOthers

LEMMA JobInvUnchanged == JobInv /\ UNCHANGED bootVars => JobInv'
  BY DEF JobInv, BootstrapTypeOK, bootVars

LEMMA JobInvInductive == JobInv /\ [Next]_vars => JobInv'
  <1> SUFFICES ASSUME JobInv, [Next]_vars PROVE JobInv'
    OBVIOUS
  <1>1. CASE BootstrapSteps
    BY <1>1, PollStep, RegisterStep, LoginStep, ReadTeamStep, ReadMeStep, CreateStep, PatchStep,
       KilledStep, OthersStep
       DEF BootstrapSteps, BootstrapNext, Runs
  <1>2. CASE ProcessStarts \/ ProcessEnds
    BY <1>2, JobInvUnchanged DEF ProcessStarts, ProcessEnds
  <1>3. CASE SeederSteps \/ JWTSteps \/ ComparisonSteps
    BY <1>3, JobInvUnchanged DEF SeederSteps, JWTSteps, ComparisonSteps
  <1>4. CASE UNCHANGED vars
    BY <1>4, JobInvUnchanged DEF vars
  <1> QED
    BY <1>1, <1>2, <1>3, <1>4 DEF Next

LEMMA JobInvariant == Spec => []JobInv
  <1>1. Init => JobInv
    BY JobInit DEF Init
  <1> QED
    BY <1>1, JobInvInductive, PTL DEF Spec

\* The keys of the Secret are of one team, for any limits, login fields and numbers of moves.
THEOREM KeysAreOfOneTeam == Spec => []KeysBelongTogether
  <1>1. JobInv => KeysBelongTogether
    BY DEF JobInv
  <1> QED
    BY <1>1, JobInvariant, PTL

\* A complete Job has provisioned the keys of the team that HyperDX has.
THEOREM CompleteJobProvisioned == Spec => []CompleteMeansProvisioned
  <1>1. JobInv => CompleteMeansProvisioned
    BY DEF JobInv
  <1> QED
    BY <1>1, JobInvariant, PTL

\* A run fails only of what disturbed it.
THEOREM RunsFailForAReason == Spec => []RaceIsAbsorbed
  <1>1. JobInv => RaceIsAbsorbed
    BY DEF JobInv
  <1> QED
    BY <1>1, JobInvariant, PTL

-----------------------------------------------------------------------------
(* The service JWT. *)

\* Whoever exchanges holds the lock, and holds it because the JWT in the cache is not to be used.
OneExchange ==
    /\ \A c \in Callers : get[c].pc = "exchanging" => holder = c
    /\ holder # Nobody => ~Fresh(cached)

JWTInv == JWTTypeOK /\ OneFreshJWT /\ OneExchange

LEMMA JWTInitial == JWTInit => JWTInv
  BY ServiceJWTAssumption
     DEF JWTInit, JWTInv, JWTTypeOK, OneFreshJWT, OneExchange, NotCalling, NoJWT, JWT, Call, Fresh

LEMMA NoJWTIsStale == ~Fresh(NoJWT) /\ NoJWT \in JWT
  BY DEF Fresh, NoJWT, JWT

\* A caller gets a record that says it does not exchange, and has no JWT.
LEMMA NoneGiven ==
    ASSUME NEW c \in Callers, JWTInv, NEW r \in Call, r.jwt = NoJWT, r.pc # "exchanging",
           get' = [get EXCEPT ![c] = r], cached' = cached, clock' = clock, issued' = issued,
           holder' = holder \/ holder' = Nobody,
           \A d \in Callers \ {c} : get[d].pc = "exchanging" => holder' = holder
    PROVE  JWTInv'
  <1>1. JWTTypeOK'
    BY ServiceJWTAssumption DEF JWTInv, JWTTypeOK
  <1>2. OneFreshJWT'
    BY NoJWTIsStale DEF JWTInv, JWTTypeOK, OneFreshJWT, Fresh
  <1>3. OneExchange'
    BY DEF JWTInv, JWTTypeOK, OneExchange, Fresh
  <1> QED
    BY <1>1, <1>2, <1>3 DEF JWTInv

LEMMA CallGetStep == ASSUME NEW c \in Callers, JWTInv, CallGet(c) PROVE JWTInv'
  <1>1. [NotCalling EXCEPT !.pc = "waiting"] = [pc |-> "waiting", jwt |-> NoJWT]
    BY DEF NotCalling
  <1>2. PICK r : r \in Call /\ r.jwt = NoJWT /\ r.pc # "exchanging" /\ get' = [get EXCEPT ![c] = r]
    BY <1>1, NoJWTIsStale DEF CallGet, Answered, Call
  <1> QED
    BY <1>2, NoneGiven DEF CallGet

LEMMA CallOverStep == ASSUME NEW c \in Callers, JWTInv, CallOver(c) PROVE JWTInv'
  <1>1. NotCalling \in Call /\ NotCalling.jwt = NoJWT /\ NotCalling.pc # "exchanging"
    BY NoJWTIsStale DEF NotCalling, Call
  <1> QED
    BY <1>1, NoneGiven DEF CallOver

LEMMA LockStep == ASSUME NEW c \in Callers, JWTInv, Lock(c) PROVE JWTInv'
  <1> USE DEF JWTInv, JWTTypeOK
  <1>1. CASE Fresh(cached)
    <2>1. Answered(cached) \in Call /\ Answered(cached).jwt = cached /\ Answered(cached).pc = "answered"
      BY DEF Answered, Call
    <2>2. get' = [get EXCEPT ![c] = Answered(cached)] /\ UNCHANGED <<clock, issued, cached, holder>>
      BY <1>1 DEF Lock
    <2> QED
      BY <2>1, <2>2 DEF OneFreshJWT, OneExchange, Fresh
  <1>2. CASE ~Fresh(cached)
    <2>1. get' = [get EXCEPT ![c].pc = "exchanging"] /\ holder' = c /\ holder = Nobody
          /\ UNCHANGED <<clock, issued, cached>>
      BY <1>2 DEF Lock
    <2>2. get' \in [Callers -> Call] /\ \A d \in Callers : get'[d].jwt = get[d].jwt
      BY <2>1 DEF Call
    <2>3. \A d \in Callers : get'[d].pc = "exchanging" => d = c
      BY <2>1, ServiceJWTAssumption DEF OneExchange, Call
    <2> QED
      BY <1>2, <2>1, <2>2, <2>3 DEF OneFreshJWT, OneExchange, Fresh
  <1> QED
    BY <1>1, <1>2

LEMMA ExchangeStep == ASSUME NEW c \in Callers, JWTInv, Exchange(c) PROVE JWTInv'
  <1> USE DEF JWTInv, JWTTypeOK
  <1>0. holder = c /\ ~Fresh(cached) /\ c # Nobody /\ clock' = clock
    BY ServiceJWTAssumption DEF Exchange, OneExchange
  <1>1. ASSUME NEW lifetime \in Lifetimes, issued' = issued + 1, cached' = Issued(lifetime),
               get' = [get EXCEPT ![c] = Answered(Issued(lifetime))],
               holder' = Released(Issued(lifetime))
        PROVE  JWTInv'
    <2>1. Issued(lifetime) \in JWT
      BY ServiceJWTAssumption DEF Issued, JWT
    <2>2. /\ Answered(Issued(lifetime)) \in Call /\ Answered(Issued(lifetime)).jwt = Issued(lifetime)
          /\ Answered(Issued(lifetime)).pc = "answered"
      BY <2>1 DEF Answered, Call
    <2>3. \A d \in Callers \ {c} : get'[d] = get[d] /\ ~Fresh(get[d].jwt)
      BY <1>0, <1>1 DEF OneFreshJWT
    <2> QED
      BY <1>0, <1>1, <2>1, <2>2, <2>3 DEF OneFreshJWT, OneExchange, Fresh, Released
  <1>2. CASE /\ get' = [get EXCEPT ![c] = Answered(NoJWT)]
             /\ holder' = Released(NoJWT)
             /\ UNCHANGED <<issued, cached>>
    <2>1. Answered(NoJWT) \in Call /\ Answered(NoJWT).jwt = NoJWT /\ Answered(NoJWT).pc # "exchanging"
      BY NoJWTIsStale DEF Answered, Call
    <2>2. \A d \in Callers \ {c} : get[d].pc # "exchanging"
      BY <1>0 DEF OneExchange
    <2> QED
      BY <1>0, <1>2, <2>1, <2>2, NoneGiven DEF Released
  <1> QED
    BY <1>1, <1>2 DEF Exchange

\* Time makes no JWT fresh again.
LEMMA TickStep == ASSUME JWTInv, JWTTick PROVE JWTInv'
  <1> USE DEF JWTInv, JWTTypeOK
  <1>1. clock' = clock + 1 /\ UNCHANGED <<issued, cached, holder, get>>
    BY DEF JWTTick
  <1>2. \A j \in JWT : clock' < j.exp - Margin => clock < j.exp - Margin
    BY <1>1, ServiceJWTAssumption DEF JWT
  <1>3. \A c \in Callers : get[c].jwt \in JWT
    BY DEF Call
  <1> QED
    BY <1>1, <1>2, <1>3 DEF OneFreshJWT, OneExchange, Fresh

LEMMA StopsStep == ASSUME JWTInv, JWTStops PROVE JWTInv'
  <1>1. NotCalling \in Call /\ NotCalling.jwt = NoJWT /\ NotCalling.pc # "exchanging"
    BY NoJWTIsStale DEF NotCalling, Call
  <1> QED
    BY <1>1, NoJWTIsStale DEF JWTStops, JWTInv, JWTTypeOK, OneFreshJWT, OneExchange, Fresh

LEMMA JWTInvUnchanged == JWTInv /\ UNCHANGED jwtVars => JWTInv'
  BY DEF JWTInv, JWTTypeOK, OneFreshJWT, OneExchange, Fresh, jwtVars

LEMMA JWTInvInductive == JWTInv /\ [Next]_vars => JWTInv'
  <1> SUFFICES ASSUME JWTInv, [Next]_vars PROVE JWTInv'
    OBVIOUS
  <1>1. CASE ProcessStarts
    BY <1>1, JWTInvUnchanged DEF ProcessStarts, comparisonVars
  <1>2. CASE ProcessEnds
    BY <1>2, StopsStep DEF ProcessEnds
  <1>3. CASE BootstrapSteps \/ SeederSteps
    BY <1>3, JWTInvUnchanged DEF BootstrapSteps, SeederSteps, comparisonVars
  <1>4. CASE JWTSteps
    BY <1>4, LockStep, ExchangeStep, CallGetStep, CallOverStep, TickStep
       DEF JWTSteps, RCACalls, RCACallers
  <1>5. CASE ComparisonSteps
    <2>1. CASE StartComparison \/ ReadRows \/ KeyKnown \/ PickGoesOn
      BY <2>1, JWTInvUnchanged DEF StartComparison, ReadRows, KeyKnown, PickGoesOn
    <2>2. CASE Endpoint
      BY <2>2, JWTInvUnchanged, CallGetStep, ComparisonAssumption DEF Endpoint
    <2>3. CASE Completion
      BY <2>3, JWTInvUnchanged, CallOverStep, ComparisonAssumption DEF Completion
    <2> QED
      BY <1>5, <2>1, <2>2, <2>3 DEF ComparisonSteps, Compares
  <1>6. CASE UNCHANGED vars
    BY <1>6, JWTInvUnchanged DEF vars, comparisonVars
  <1> QED
    BY <1>1, <1>2, <1>3, <1>4, <1>5, <1>6 DEF Next

\* Concurrent calls use one good JWT, for any callers, margin and lifetimes.
THEOREM OneJWTInUse == Spec => []OneFreshJWT
  <1>1. Init => JWTInv
    BY JWTInitial DEF Init
  <1>2. JWTInv => OneFreshJWT
    BY DEF JWTInv
  <1> QED
    BY <1>1, <1>2, JWTInvInductive, PTL DEF Spec

-----------------------------------------------------------------------------
(* The seeder. *)

\* What the seeder has yet to create, this process has neither seen, made nor tried; before its
\* list it knows of none.
NotTriedYet ==
    /\ seeder.todo \cap known = {}
    /\ seeder.pc = "listing" => known = {} /\ seeder.todo = {}

SeedInv == SeederTypeOK /\ NotTriedYet

LEMMA SeedInit == SeederInit => SeedInv
  <1> SUFFICES ASSUME SeederInit PROVE SeedInv
    OBVIOUS
  <1>1. Stopped \in Seeding /\ Stopped.todo = {}
    BY DEF Stopped, Seeding
  <1>2. SeederTypeOK
    BY <1>1 DEF SeederInit, SeederTypeOK
  <1> QED
    BY <1>1, <1>2 DEF SeederInit, SeedInv, NotTriedYet

LEMMA SeedInvUnchanged == SeedInv /\ UNCHANGED seedVars => SeedInv'
  BY DEF SeedInv, SeederTypeOK, NotTriedYet, seedVars

LEMMA SeederStopsStep ==
    SeedInv /\ (SeederStarts \/ SeederStops) /\ UNCHANGED <<crd, alerts>> => SeedInv'
  BY DEF SeedInv, SeederTypeOK, NotTriedYet, SeederStarts, SeederStops, Stopped, Seeding

LEMMA SeederListStep == SeedInv /\ SeederList => SeedInv'
  BY DEF SeedInv, SeederTypeOK, NotTriedYet, SeederList, NotReady, Existing, Seeding

\* The default that is tried goes from the ones to create to the known ones.
LEMMA SeederCreateStep == SeedInv /\ SeederCreate => SeedInv'
  <1> SUFFICES ASSUME SeedInv, SeederCreate PROVE SeedInv'
    OBVIOUS
  <1>1. seeder.pc = "creating" /\ UNCHANGED crd
    BY DEF SeederCreate
  <1>2. PICK d \in seeder.todo :
          /\ known' = known \cup {d}
          /\ seeder' = Skipped(d)
          /\ alerts' = alerts \/ alerts' = [alerts EXCEPT ![d] = "seeded"]
    BY DEF SeederCreate, CreateFailed
  <1>3. Skipped(d) = [pc |-> "creating", todo |-> seeder.todo \ {d}] 
    BY <1>1 DEF Skipped, SeedInv, SeederTypeOK, Seeding
  <1>4. SeederTypeOK'
    BY <1>1, <1>2, <1>3 DEF SeedInv, SeederTypeOK, Seeding
  <1>5. NotTriedYet'
    BY <1>2, <1>3 DEF SeedInv, NotTriedYet
  <1> QED
    BY <1>4, <1>5 DEF SeedInv

LEMMA SeederDoneStep == SeedInv /\ SeederDone => SeedInv'
  BY DEF SeedInv, SeederTypeOK, NotTriedYet, SeederDone, Seeding

LEMMA SeederOthersStep == SeedInv /\ SeederOthers => SeedInv'
  BY DEF SeedInv, SeederTypeOK, NotTriedYet, SeederOthers, EstablishCRD, PersonCreates, PersonDeletes

LEMMA SeedInvInductive == SeedInv /\ [Next]_vars => SeedInv'
  <1> SUFFICES ASSUME SeedInv, [Next]_vars PROVE SeedInv'
    OBVIOUS
  <1>1. CASE SeederSteps
    BY <1>1, SeederListStep, SeederCreateStep, SeederDoneStep, SeederOthersStep
       DEF SeederSteps, Seeds
  <1>2. CASE ProcessStarts \/ ProcessEnds
    BY <1>2, SeederStopsStep DEF ProcessStarts, ProcessEnds
  <1>3. CASE BootstrapSteps \/ JWTSteps \/ ComparisonSteps
    BY <1>3, SeedInvUnchanged DEF BootstrapSteps, JWTSteps, ComparisonSteps
  <1>4. CASE UNCHANGED vars
    BY <1>4, SeedInvUnchanged DEF vars
  <1> QED
    BY <1>1, <1>2, <1>3, <1>4 DEF Next

LEMMA SeedInvariant == Spec => []SeedInv
  <1>1. Init => SeedInv
    BY SeedInit DEF Init
  <1> QED
    BY <1>1, SeedInvInductive, PTL DEF Spec

\* Only the seeder's create makes an Alert a seeded one, and it makes one of an absent default
\* that this process has not tried.
OnlySeeds ==
    \A d \in Defaults :
         alerts'[d] = "seeded" /\ alerts[d] # "seeded" => alerts[d] = "absent" /\ d \notin known

LEMMA OnlyCreateSeeds == SeedInv /\ [Next]_vars => [OnlySeeds]_seedVars
  <1> SUFFICES ASSUME SeedInv, [Next]_vars PROVE OnlySeeds \/ UNCHANGED seedVars
    OBVIOUS
  <1>1. CASE SeederCreate
    <2>1. PICK d \in seeder.todo :
            \/ alerts' = alerts
            \/ alerts[d] = "absent" /\ alerts' = [alerts EXCEPT ![d] = "seeded"]
      BY <1>1 DEF SeederCreate
    <2>2. d \notin known
      BY DEF SeedInv, NotTriedYet
    <2> QED
      BY <2>1, <2>2 DEF OnlySeeds, SeedInv, SeederTypeOK, Seeding
  <1>2. CASE SeederOthers
    BY <1>2 DEF SeederOthers, EstablishCRD, PersonCreates, PersonDeletes, OnlySeeds, SeedInv,
                SeederTypeOK
  <1>3. CASE SeederList \/ SeederDone
    BY <1>3 DEF SeederList, SeederDone, OnlySeeds
  <1>4. CASE SeederSteps
    BY <1>1, <1>2, <1>3, <1>4 DEF SeederSteps, Seeds
  <1>5. CASE ProcessStarts \/ ProcessEnds
    BY <1>5 DEF ProcessStarts, ProcessEnds, OnlySeeds
  <1>6. CASE BootstrapSteps \/ JWTSteps \/ ComparisonSteps
    BY <1>6 DEF BootstrapSteps, JWTSteps, ComparisonSteps
  <1>7. CASE UNCHANGED vars
    BY <1>7 DEF vars
  <1> QED
    BY <1>4, <1>5, <1>6, <1>7 DEF Next

\* A default somebody deleted stays deleted as long as the process runs, and nobody's Alert is
\* replaced, for any defaults, failures and moves of people.
THEOREM DeletionsStand == Spec => DeletedStaysDeleted
  <1>1. SeedInv /\ [Next]_vars
        => [\A d \in Defaults :
              alerts'[d] = "seeded" /\ alerts[d] # "seeded"
              => alerts[d] = "absent" /\ d \notin known]_seedVars
    BY OnlyCreateSeeds DEF OnlySeeds
  <1> QED
    BY <1>1, SeedInvariant, PTL DEF Spec, DeletedStaysDeleted

-----------------------------------------------------------------------------
(* The comparison: the order of the candidates. *)

\* A set of naturals has a least member.
LEMMA LeastOf ==
    ASSUME NEW S, S \subseteq Nat, S # {}
    PROVE  \E i \in S : \A j \in S : i <= j
  <1> DEFINE R == {ss \in Nat \X Nat : ss[1] < ss[2]}
  <1>1. IsWellFoundedOn(R, Nat)
    BY NatLessThanWellFounded DEF OpToRel
  <1> HIDE DEF R
  <1>2. PICK i \in S : \A j \in S : <<j, i>> \notin R
    BY <1>1, WFMin
  <1>3. ASSUME NEW j \in S PROVE i <= j
    <2>1. i \in Nat /\ j \in Nat /\ <<j, i>> \notin R
      BY <1>2
    <2>2. <<j, i>> \in R <=> j < i
      BY <2>1 DEF R
    <2> QED
      BY <2>1, <2>2
  <1> QED
    BY <1>3

\* A sequence of the members of S, each once, from the greatest to the least.
Falling(S, s) ==
    s \in [1 .. Cardinality(S) -> S] /\ \A m, n \in DOMAIN s : m < n => s[m] > s[n]

\* Below the least that could not be put in order, there is one less its least, and that can.
LEMMA FallingExists ==
    ASSUME NEW S \in SUBSET Nat, IsFiniteSet(S)
    PROVE  \E s : Falling(S, s)
  <1> DEFINE Unordered == {n \in Nat : \E T \in SUBSET S : Cardinality(T) = n /\ ~\E s : Falling(T, s)}
  <1> SUFFICES ASSUME ~\E s : Falling(S, s) PROVE FALSE
    OBVIOUS
  <1>1. Cardinality(S) \in Unordered
    BY FS_CardinalityType
  <1>2. Unordered \subseteq Nat /\ Unordered # {}
    BY <1>1
  <1>3. PICK n \in Unordered : \A j \in Unordered : n <= j
    <2> HIDE DEF Unordered
    <2> QED
      BY <1>2, LeastOf
  <1>4. PICK T \in SUBSET S : Cardinality(T) = n /\ ~\E s : Falling(T, s)
    BY <1>3
  <1>5. IsFiniteSet(T) /\ n \in Nat
    BY <1>2, FS_Subset
  <1>6. T # {}
    <2> SUFFICES ASSUME T = {} PROVE FALSE
      OBVIOUS
    <2>1. Cardinality(T) = 0
      BY FS_EmptySet
    <2>2. Falling(T, [k \in 1 .. 0 |-> 0])
      BY <2>1 DEF Falling
    <2> QED
      BY <2>2, <1>4
  <1>7. PICK i \in T : \A j \in T : i <= j
    BY <1>6, LeastOf
  <1> DEFINE U == T \ {i}
  <1>8. Cardinality(U) = n - 1 /\ IsFiniteSet(U) /\ n > 0 /\ n - 1 \in Nat
    <2>1. Cardinality(U) = n - 1 /\ IsFiniteSet(U)
      BY <1>4, <1>5, <1>7, FS_RemoveElement
    <2>2. Cardinality(U) \in Nat
      BY <2>1, FS_CardinalityType
    <2> QED
      BY <1>5, <2>1, <2>2
  <1>9. PICK u : Falling(U, u)
    <2>1. n - 1 \notin Unordered
      <3> HIDE DEF Unordered
      <3> QED
        BY <1>3, <1>5, <1>8
    <2> QED
      BY <2>1, <1>8
  <1> DEFINE s == [k \in 1 .. n |-> IF k = n THEN i ELSE u[k]]
  <1>10. u \in [1 .. n - 1 -> U] /\ \A m, k \in 1 .. n - 1 : m < k => u[m] > u[k]
    BY <1>8, <1>9 DEF Falling
  <1>11. s \in [1 .. n -> T]
    BY <1>5, <1>8, <1>10
  <1>12. ASSUME NEW m \in 1 .. n, NEW k \in 1 .. n, m < k PROVE s[m] > s[k]
    <2>1. m \in 1 .. n - 1 /\ s[m] = u[m] /\ u[m] \in U
      BY <1>5, <1>10, <1>12
    <2>2. CASE k = n
      <3>1. u[m] # i /\ i <= u[m] /\ i \in Nat /\ u[m] \in Nat
        BY <1>7, <2>1
      <3> QED
        BY <2>1, <2>2, <3>1
    <2>3. CASE k # n
      BY <1>5, <1>10, <1>12, <2>1, <2>3
    <2> QED
      BY <2>2, <2>3
  <1>13. Falling(T, s)
    <2> HIDE DEF s
    <2>1. DOMAIN s = 1 .. n
      BY <1>11
    <2>2. \A m, k \in DOMAIN s : m < k => s[m] > s[k]
      BY <1>12, <2>1
    <2> QED
      BY <1>4, <1>11, <2>2 DEF Falling
  <1> QED
    BY <1>4, <1>13

LEMMA RankedTyped ==
    ASSUME NEW S \in SUBSET (1 .. MaxIncidents)
    PROVE  Ranked(S) \in Seq(1 .. MaxIncidents)
  <1>1. IsFiniteSet(S) /\ S \subseteq Nat
    <2>1. IsFiniteSet(1 .. MaxIncidents) /\ 1 .. MaxIncidents \subseteq Nat
      BY FS_Interval, ComparisonAssumption
    <2>2. IsFiniteSet(S)
      BY <2>1, FS_Subset
    <2> QED
      BY <2>1, <2>2
  <1>2. \E s \in [1 .. Cardinality(S) -> S] : \A m, n \in DOMAIN s : m < n => s[m] > s[n]
    BY <1>1, FallingExists DEF Falling
  <1>3. Ranked(S) \in [1 .. Cardinality(S) -> S]
    BY <1>2 DEF Ranked
  <1>4. Cardinality(S) \in Nat
    BY <1>1, FS_CardinalityType
  <1>5. Ranked(S) \in [1 .. Cardinality(S) -> 1 .. MaxIncidents]
    BY <1>3
  <1> DEFINE c == Cardinality(S)
  <1> QED
    <2>1. c \in Nat /\ Ranked(S) \in [1 .. c -> 1 .. MaxIncidents]
      BY <1>4, <1>5
    <2> HIDE DEF c
    <2>2. Ranked(S) \in UNION {[1 .. n -> 1 .. MaxIncidents] : n \in Nat}
      BY <2>1
    <2> QED
      BY <2>2, SeqDef

-----------------------------------------------------------------------------
(* The comparison: the verdict. *)

Verdicts == {NoVerdict, NoneOfThem} \cup {Match(i) : i \in 1 .. MaxIncidents}

\* The incidents a number names among names.
Named(n, names) == {Prompt(names)[k] : k \in {n} \cap DOMAIN Prompt(names)}

\* VerdictIsTheModels, of any text, names and verdict.
Agrees(text, names, verdict) ==
    LET said == IF text.fenced = <<>> THEN <<text.whole>> ELSE text.fenced
        usable == {k \in DOMAIN said : said[k] = Null \/ Named(said[k], names) # {}}
        last == CHOOSE k \in usable : \A m \in usable : m <= k
    IN  CASE usable = {} -> verdict = NoVerdict
          [] usable # {} /\ said[last] = Null -> verdict = NoneOfThem
          [] OTHER -> /\ verdict.kind = "match"
                      /\ Named(said[last], names) = {verdict.of}

LEMMA BodiesAreIntegers == Bodies \subseteq Int /\ Unusable \in Bodies /\ Null \in Bodies
  BY ComparisonAssumption DEF Bodies, Unusable, Null

LEMMA NamedIsOne ==
    ASSUME NEW names \in Seq(1 .. MaxIncidents), NEW b \in Bodies
    PROVE  /\ Named(b, names) # {} <=> b \in 1 .. Len(names)
           /\ b \in 1 .. Len(names) => Named(b, names) = {names[b]}
  <1>1. Len(names) \in Nat
    OBVIOUS
  <1>2. Prompt(names) = [n \in 1 .. Len(names) |-> names[n]]
    BY DEF Prompt
  <1>3. DOMAIN Prompt(names) = 1 .. Len(names)
    BY <1>2
  <1> QED
    BY <1>2, <1>3 DEF Named

LEMMA TextTyped ==
    ASSUME NEW text \in Texts
    PROVE  /\ text.fenced \in Seq(Bodies) /\ text.whole \in Bodies
           /\ text.fenced # <<>> => text.whole = Unusable
           /\ Len(text.fenced) < 1 => text.fenced = <<>>
  <1>1. PICK n \in 0 .. MaxFenced : text.fenced \in [1 .. n -> Bodies]
    BY DEF Texts
  <1>2. text.fenced \in UNION {[1 .. m -> Bodies] : m \in Nat}
    BY <1>1, ComparisonAssumption DEF ComparisonAssumption
  <1>3. text.fenced \in Seq(Bodies)
    BY <1>2, SeqDef
  <1> QED
    BY <1>3 DEF Texts

LEMMA NoTextTyped == NoText \in Texts
  <1>1. <<>> \in [1 .. 0 -> Bodies]
    OBVIOUS
  <1>2. <<>> \in UNION {[1 .. n -> Bodies] : n \in 0 .. MaxFenced}
    BY <1>1, ComparisonAssumption DEF ComparisonAssumption
  <1> QED
    BY <1>2, BodiesAreIntegers DEF NoText, Texts

\* The bodies in the order they are tried are what the model said, from the end.
LEMMA TriedFromTheEnd ==
    ASSUME NEW text \in Texts, NEW said,
           said = IF text.fenced = <<>> THEN <<text.whole>> ELSE text.fenced
    PROVE  /\ said \in Seq(Bodies)
           /\ Len(said) >= 1
           /\ DOMAIN InOrder(text) = 1 .. Len(text.fenced) + 1
           /\ Len(said) <= Len(text.fenced) + 1
           /\ \A k \in 1 .. Len(said) : InOrder(text)[k] = said[Len(said) + 1 - k]
           /\ \A k \in 1 .. Len(text.fenced) + 1 : k > Len(said) => InOrder(text)[k] = Unusable
  <1> DEFINE n == Len(text.fenced)
  <1>1. n \in Nat /\ text.fenced \in Seq(Bodies) /\ text.whole \in Bodies
    BY TextTyped
  <1>2. InOrder(text) = [k \in 1 .. n + 1 |-> IF k <= n THEN text.fenced[n + 1 - k] ELSE text.whole]
    BY DEF InOrder
  <1>3. CASE text.fenced = <<>>
    <2>1. n = 0 /\ said = <<text.whole>> /\ Len(said) = 1
      BY <1>3
    <2>2. \A k \in 1 .. 1 : InOrder(text)[k] = text.whole
      BY <1>2, <2>1
    <2> QED
      BY <1>1, <1>2, <2>1, <2>2
  <1>4. CASE text.fenced # <<>>
    <2>1. n >= 1 /\ said = text.fenced /\ text.whole = Unusable
      BY <1>1, <1>4, TextTyped
    <2>2. \A k \in 1 .. n : InOrder(text)[k] = text.fenced[n + 1 - k]
      BY <1>1, <1>2
    <2>3. InOrder(text)[n + 1] = Unusable
      BY <1>1, <1>2, <2>1
    <2> QED
      BY <1>1, <1>2, <2>1, <2>2, <2>3
  <1> QED
    BY <1>3, <1>4

LEMMA VerdictHolds ==
    ASSUME NEW text \in Texts, NEW names \in Seq(1 .. MaxIncidents)
    PROVE  ParseVerdict(text, names) \in Verdicts /\ Agrees(text, names, ParseVerdict(text, names))
  <1> DEFINE said == IF text.fenced = <<>> THEN <<text.whole>> ELSE text.fenced
             bodies == InOrder(text)
             L == Len(said)
             tried == {k \in DOMAIN bodies : bodies[k] = Null \/ bodies[k] \in 1 .. Len(names)}
             usable == {k \in DOMAIN said : said[k] = Null \/ Named(said[k], names) # {}}
             first == CHOOSE k \in tried : \A m \in tried : k <= m
             last == CHOOSE k \in usable : \A m \in usable : m <= k
  <1>1. /\ said \in Seq(Bodies) /\ L \in Nat
        /\ \A k \in 1 .. L : bodies[k] = said[L + 1 - k]
        /\ tried \subseteq 1 .. L
    <2>1. /\ said \in Seq(Bodies) /\ L >= 1
          /\ DOMAIN bodies = 1 .. Len(text.fenced) + 1
          /\ L <= Len(text.fenced) + 1
          /\ \A k \in 1 .. L : bodies[k] = said[L + 1 - k]
          /\ \A k \in 1 .. Len(text.fenced) + 1 : k > L => bodies[k] = Unusable
      BY TriedFromTheEnd
    <2> HIDE DEF said, bodies
    <2>2. Len(text.fenced) \in Nat /\ L \in Nat
      BY <2>1, TextTyped
    <2>3. ASSUME NEW k \in tried PROVE k \in 1 .. L
      <3>1. k \in 1 .. Len(text.fenced) + 1 /\ bodies[k] # Unusable
        BY <2>1 DEF Unusable, Null
      <3> QED
        BY <2>1, <2>2, <3>1
    <2> QED
      BY <2>1, <2>2, <2>3
  <1>2. ParseVerdict(text, names) = CASE tried = {} -> NoVerdict
                                      [] tried # {} /\ bodies[first] = Null -> NoneOfThem
                                      [] OTHER -> Match(names[bodies[first]])
    BY DEF ParseVerdict
  <1>3. \A verdict : Agrees(text, names, verdict)
          <=> CASE usable = {} -> verdict = NoVerdict
                [] usable # {} /\ said[last] = Null -> verdict = NoneOfThem
                [] OTHER -> verdict.kind = "match" /\ Named(said[last], names) = {verdict.of}
    BY DEF Agrees
  <1> HIDE DEF said, bodies
  <1>4. DOMAIN said = 1 .. L /\ \A k \in 1 .. L : said[k] \in Bodies
    BY <1>1
  <1>5. DOMAIN bodies = 1 .. Len(text.fenced) + 1 /\ L <= Len(text.fenced) + 1
    BY TriedFromTheEnd DEF bodies, said
  <1>6. \A k \in 1 .. L : k \in tried <=> L + 1 - k \in usable
    <2> TAKE k \in 1 .. L
    <2>1. L + 1 - k \in 1 .. L /\ k \in DOMAIN bodies /\ bodies[k] = said[L + 1 - k]
      BY <1>1, <1>5, TextTyped
    <2> QED
      BY <2>1, <1>4, NamedIsOne
  <1>7. usable \subseteq 1 .. L
    BY <1>4
  <1>8. CASE tried = {}
    <2>1. usable = {}
      <3> SUFFICES ASSUME NEW k \in usable PROVE FALSE
        OBVIOUS
      <3>1. L + 1 - k \in 1 .. L /\ L + 1 - (L + 1 - k) = k
        BY <1>1, <1>7
      <3> QED
        BY <1>6, <1>8, <3>1
    <2> QED
      BY <1>2, <1>3, <1>8, <2>1 DEF Verdicts
  <1>9. CASE tried # {}
    <2>0. L \in Nat /\ tried \subseteq 1 .. L
      BY <1>1
    <2> HIDE DEF tried, usable, L
    <2>1. first \in tried /\ \A m \in tried : first <= m
      <3>1. tried \subseteq Nat
        BY <2>0
      <3>2. \E k \in tried : \A m \in tried : k <= m
        BY <3>1, <1>9, LeastOf
      <3> QED
        BY <3>2
    <2> HIDE DEF first
    <2> DEFINE z == L + 1 - first
    <2>2. z \in usable /\ first \in 1 .. L /\ z \in 1 .. L
      <3>1. first \in 1 .. L
        BY <2>0, <2>1
      <3> QED
        BY <2>0, <1>6, <2>1, <3>1
    <2>3. ASSUME NEW m \in usable PROVE m <= z
      <3>1. L + 1 - m \in 1 .. L /\ L + 1 - (L + 1 - m) = m /\ m \in 1 .. L
        BY <1>1, <1>7
      <3>2. L + 1 - m \in tried
        BY <1>6, <3>1
      <3> QED
        BY <1>1, <2>1, <2>2, <3>1, <3>2
    <2>4. last = z
      <3>1. last \in usable /\ \A m \in usable : m <= last
        BY <2>2, <2>3
      <3> HIDE DEF last
      <3>2. last \in 1 .. L /\ z \in 1 .. L /\ last <= z /\ z <= last
        BY <1>7, <2>2, <2>3, <3>1
      <3> HIDE DEF z
      <3> QED
        BY <2>0, <3>2
    <2>5. said[last] = bodies[first] /\ said[last] \in Bodies
      BY <1>1, <1>4, <2>2, <2>4
    <2>6. CASE bodies[first] = Null
      BY <1>2, <1>3, <1>9, <2>2, <2>5, <2>6 DEF Verdicts
    <2>7. CASE bodies[first] # Null
      <3> DEFINE b == bodies[first]
      <3>1. b \in 1 .. Len(names)
        BY <2>1, <2>7 DEF tried
      <3>2. Named(b, names) = {names[b]} /\ names[b] \in 1 .. MaxIncidents
        <4>1. b \in Bodies
          BY <2>5
        <4> HIDE DEF b
        <4>2. names[b] \in 1 .. MaxIncidents
          BY <3>1, ElementOfSeq
        <4> QED
          BY <3>1, <4>1, <4>2, NamedIsOne
      <3>3. ParseVerdict(text, names) = Match(names[b])
        BY <1>2, <1>9, <2>7
      <3>4. Match(names[b]).kind = "match" /\ Match(names[b]).of = names[b]
        BY DEF Match
      <3>5. Agrees(text, names, Match(names[b]))
        BY <1>3, <2>2, <2>5, <2>7, <3>2, <3>4
      <3> QED
        BY <3>2, <3>3, <3>5 DEF Verdicts
    <2> QED
      BY <2>6, <2>7
  <1> QED
    BY <1>8, <1>9

-----------------------------------------------------------------------------
(* The comparison: its calls. *)

Comparing == [pc : {"idle", "reading", "resolving", "asking", "calling", "judged"},
              candidates : Seq(1 .. MaxIncidents), passthrough : BOOLEAN, text : Texts,
              verdict : Verdicts]

\* A judged comparison has the verdict of its text among its candidates.
JudgedAgrees ==
    comparison.pc = "judged" => Agrees(comparison.text, comparison.candidates, comparison.verdict)

CompInv == comparison \in Comparing /\ JudgedAgrees

LEMMA JudgedIsVerdict == JudgedAgrees <=> VerdictIsTheModels
  BY DEF JudgedAgrees, VerdictIsTheModels, Agrees, Named, Shown

LEMMA NotComparingTyped == NotComparing \in Comparing /\ NotComparing.pc = "idle"
  <1>1. <<>> \in Seq(1 .. MaxIncidents)
    OBVIOUS
  <1> QED
    BY <1>1, NoTextTyped DEF NotComparing, Comparing, Verdicts

LEMMA IdleStep == comparison' = NotComparing => CompInv'
  BY NotComparingTyped DEF CompInv, JudgedAgrees

LEMMA NoTextAgrees == ASSUME NEW names PROVE Agrees(NoText, names, NoVerdict)
  <1> DEFINE usable == {k \in {1} : Unusable = Null \/ Named(Unusable, names) # {}}
  <1>1. Named(Unusable, names) = {}
    BY DEF Named, Prompt, Unusable
  <1>2. NoText.fenced = <<>> /\ <<NoText.whole>> = <<Unusable>>
    BY DEF NoText
  <1>3. DOMAIN <<Unusable>> = {1} /\ <<Unusable>>[1] = Unusable
    OBVIOUS
  <1>4. {k \in DOMAIN <<Unusable>> : <<Unusable>>[k] = Null \/ Named(<<Unusable>>[k], names) # {}} = {}
    BY <1>1, <1>3 DEF Unusable, Null
  <1> QED
    BY <1>2, <1>4 DEF Agrees

LEMMA JudgedStep ==
    ASSUME CompInv, NEW text \in Texts, NEW verdict \in Verdicts, Judged(text, verdict),
           Agrees(text, comparison.candidates, verdict)
    PROVE  CompInv'
  <1> DEFINE new == [comparison EXCEPT !.pc = "judged", !.text = text, !.verdict = verdict]
  <1>1. /\ new \in Comparing /\ new.text = text /\ new.candidates = comparison.candidates
        /\ new.verdict = verdict
    BY DEF CompInv, Comparing
  <1>2. comparison' = new
    BY DEF Judged
  <1> HIDE DEF new
  <1> QED
    BY <1>1, <1>2 DEF CompInv, JudgedAgrees

LEMMA NotJudgedYet ==
    ASSUME CompInv, NEW new \in Comparing, comparison' = new, new.pc # "judged"
    PROVE  CompInv'
  BY DEF CompInv, JudgedAgrees

LEMMA GoesOnStep ==
    ASSUME CompInv, NEW pc \in {"resolving", "calling"}, Step(pc)
    PROVE  CompInv'
  <1>1. [comparison EXCEPT !.pc = pc] \in Comparing /\ [comparison EXCEPT !.pc = pc].pc # "judged"
    BY DEF CompInv, Comparing
  <1> QED
    BY <1>1, NotJudgedYet DEF Step

LEMMA StartStep == CompInv /\ StartComparison => CompInv'
  <1> SUFFICES ASSUME CompInv, StartComparison PROVE CompInv'
    OBVIOUS
  <1>1. PICK S \in SUBSET (1 .. MaxIncidents) :
          comparison' = [NotComparing EXCEPT !.pc = "reading", !.candidates = Ranked(S)]
    BY DEF StartComparison
  <1> DEFINE new == [NotComparing EXCEPT !.pc = "reading", !.candidates = Ranked(S)]
  <1>2. Ranked(S) \in Seq(1 .. MaxIncidents)
    BY RankedTyped
  <1>3. new \in Comparing /\ new.pc # "judged"
    BY <1>2, NotComparingTyped DEF Comparing
  <1> HIDE DEF new
  <1> QED
    BY <1>1, <1>3, NotJudgedYet DEF new

LEMMA EndpointStep == CompInv /\ Endpoint => CompInv'
  <1> SUFFICES ASSUME CompInv, Endpoint PROVE CompInv'
    OBVIOUS
  <1>1. CASE comparison' = [comparison EXCEPT !.pc = "asking", !.passthrough = TRUE]
    <2> DEFINE new == [comparison EXCEPT !.pc = "asking", !.passthrough = TRUE]
    <2>1. new \in Comparing /\ new.pc # "judged"
      BY DEF CompInv, Comparing
    <2> HIDE DEF new
    <2> QED
      BY <1>1, <2>1, NotJudgedYet DEF new
  <1>2. CASE Step("calling")
    BY <1>2, GoesOnStep
  <1>3. CASE Judged(NoText, NoVerdict)
    BY <1>3, JudgedStep, NoTextAgrees, NoTextTyped DEF Verdicts
  <1> QED
    BY <1>1, <1>2, <1>3 DEF Endpoint

LEMMA CompletionStep == CompInv /\ Completion => CompInv'
  <1> SUFFICES ASSUME CompInv, Completion PROVE CompInv'
    OBVIOUS
  <1>1. ASSUME NEW text \in Texts, Judged(text, ParseVerdict(text, comparison.candidates))
        PROVE  CompInv'
    <2>1. comparison.candidates \in Seq(1 .. MaxIncidents)
      BY DEF CompInv, Comparing
    <2> QED
      BY <1>1, <2>1, VerdictHolds, JudgedStep
  <1>2. CASE Judged(NoText, NoVerdict)
    BY <1>2, JudgedStep, NoTextAgrees, NoTextTyped DEF Verdicts
  <1> QED
    BY <1>1, <1>2 DEF Completion

LEMMA CompInvInductive == CompInv /\ [Next]_vars => CompInv'
  <1> SUFFICES ASSUME CompInv, [Next]_vars PROVE CompInv'
    OBVIOUS
  <1>1. CASE ComparisonSteps
    <2>1. CASE ReadRows
      BY <2>1, GoesOnStep, JudgedStep, NoTextAgrees, NoTextTyped DEF ReadRows, Verdicts
    <2>2. CASE KeyKnown
      BY <2>2, GoesOnStep DEF KeyKnown
    <2>3. CASE PickGoesOn
      BY <2>3, IdleStep DEF PickGoesOn
    <2> QED
      BY <1>1, <2>1, <2>2, <2>3, StartStep, EndpointStep, CompletionStep
         DEF ComparisonSteps, Compares
  <1>2. CASE ProcessEnds
    BY <1>2, IdleStep DEF ProcessEnds, ComparisonStops
  <1>3. CASE UNCHANGED comparison
    BY <1>3 DEF CompInv, JudgedAgrees
  <1>4. CASE ProcessStarts \/ BootstrapSteps \/ SeederSteps \/ JWTSteps \/ UNCHANGED vars
    BY <1>3, <1>4 DEF ProcessStarts, BootstrapSteps, SeederSteps, JWTSteps, vars, comparisonVars
  <1> QED
    BY <1>1, <1>2, <1>4 DEF Next

LEMMA CompInvariant == Spec => []CompInv
  <1>1. Init => CompInv
    BY NotComparingTyped DEF Init, ComparisonInit, CompInv, JudgedAgrees
  <1> QED
    BY <1>1, CompInvInductive, PTL DEF Spec

\* The verdict of a comparison is what the model said last, for any answers, candidates, callers
\* and failures.
THEOREM VerdictsAreTheModels == Spec => []VerdictIsTheModels
  <1>1. CompInv => VerdictIsTheModels
    BY JudgedIsVerdict DEF CompInv
  <1> QED
    BY <1>1, CompInvariant, PTL

-----------------------------------------------------------------------------
(* The process and the budget: the types of all of it. *)

\* A step spends one of a kind, or nothing.
Spending == UNCHANGED left \/ \E kind \in Kinds : Spend(kind)

LEMMA KindsOf == {"faults", "moves", "crashes", "asks", "firings", "ticks"} = Kinds
  BY DEF Kinds

LEMMA BootstrapSpends == BootstrapNext => Spending
  BY KindsOf
     DEF BootstrapNext, Runs, Poll, Register, Login, ReadTeam, ReadMe, Create, Patch, Killed, Goes,
         Fault, CallFails, BootstrapOthers, SomeoneRegisters, Upgrade, Reinstall, DropSecret, Release,
         Moves, Spending

LEMMA SeederSpends == Seeds \/ SeederOthers => Spending
  BY KindsOf
     DEF Seeds, SeederList, SeederCreate, SeederDone, SeederOthers, EstablishCRD, PersonCreates,
         PersonDeletes, CallFails, Spending

LEMMA JWTSpends == JWTSteps => Spending
  BY KindsOf DEF JWTSteps, Lock, Exchange, RCACalls, JWTTick, CallFails, Spending

LEMMA ComparisonSpends == ComparisonSteps => Spending
  BY KindsOf
     DEF ComparisonSteps, StartComparison, Compares, ReadRows, Endpoint, KeyKnown, Completion,
         PickGoesOn, CallFails, Spending

LEMMA NextSpends == [Next]_vars => Spending
  BY BootstrapSpends, SeederSpends, JWTSpends, ComparisonSpends, KindsOf
     DEF Next, ProcessStarts, ProcessEnds, BootstrapSteps, SeederSteps, vars, Spending

ProcessInv == process \in {"down", "up"} /\ left \in [Kinds -> Nat]

LEMMA ProcessInvInductive == ProcessInv /\ [Next]_vars => ProcessInv'
  <1> SUFFICES ASSUME ProcessInv, [Next]_vars PROVE ProcessInv'
    OBVIOUS
  <1>1. left' \in [Kinds -> Nat]
    BY NextSpends DEF Spending, Spend, ProcessInv
  <1>2. process' \in {"down", "up"}
    BY DEF Next, ProcessStarts, ProcessEnds, BootstrapSteps, SeederSteps, JWTSteps, ComparisonSteps,
           vars, ProcessInv
  <1> QED
    BY <1>1, <1>2 DEF ProcessInv

\* Every variable of the provider has its type; the Job is restarted BackoffLimit times at most.
THEOREM ProviderTypes == Spec => []TypeOK
  <1>1. Init => ProcessInv /\ JWTInv
    BY BudgetsAssumption, JWTInitial DEF Init, ProcessInv
  <1>2. ProcessInv /\ JobInv /\ SeedInv /\ JWTInv /\ CompInv => TypeOK
    <2>1. ASSUME CompInv PROVE ComparisonTypeOK
      <3>1. comparison.candidates \in Seq(1 .. MaxIncidents)
        BY <2>1 DEF CompInv, Comparing
      <3>2. \A n \in DOMAIN comparison.candidates : comparison.candidates[n] \in 1 .. MaxIncidents
        BY <3>1, LenProperties, ElementOfSeq
      <3> QED
        BY <2>1, <3>2 DEF CompInv, Comparing, ComparisonTypeOK, Verdicts
    <2> QED
      BY <2>1 DEF ProcessInv, JobInv, SeedInv, JWTInv, TypeOK
  <1> QED
    BY <1>1, <1>2, ProcessInvInductive, JobInvariant, SeedInvariant, JWTInvInductive, CompInvariant,
       PTL DEF Spec

=============================================================================
