# A TLA+ model of the Krateo alert provider

The provider (`main.go`) turns `Alert` resources into HyperDX alerts, and the firings of those
alerts into `Incident` resources, each analyzed once by an RCA agent. This directory models the
parts of it whose correctness depends on order: the incident writer, the Alert controller with its
shared webhook, one analysis from the agent's stream to the report that is published, and the
process around them: the bootstrap Job it waits for, the seeder, the service JWT its calls share
and the comparison of a firing with open incidents. TLC checks the models on small instances,
TLAPS proves for every size every safety invariant and every action property that a passing run
checks; liveness is TLC's alone.

Contents: [inventory](#inventory), [modules](#modules), [runs](#runs), [proofs](#proofs),
[divergences](#divergences-between-the-code-and-its-words), [plan](#plan).

## Inventory

| Component | State it keeps | Operations | What is hard | What makes it correct |
|---|---|---|---|---|
| incident writer, `internal/incident/writer.go` | `firing` (one lock per alert), `slots` (a channel of `MaxConcurrentAnalyses`), the Incidents in the API server | `RecoverInterrupted`, `Fire` (`openOrCover`, `pick`), `RunAnalysis`, `finish` | an RCA of minutes outside the lock; conditioned and unconditioned writes beside the incident controller, humans and another replica; restarts | one problem is one incident with one RCA; every incident leaves `Analyzing`; the writer never moves an incident past `Open` |
| Alert controller, `internal/controllers/alert/alert.go` | `status.hyperdxAlertId`, `hyperdxDashboardId`, `phase`; per pass the `plan` | `Connect`, `Observe` (`release`), `Update` (`create`, `push`), `Delete` | the external objects and the ids that name them are written separately; caches lag; several Alerts may claim one HyperDX alert | an Alert settles on one HyperDX alert of its own, on a tile of its own, with its spec |
| shared webhook, `webhook.go` | the webhook id kept for one interval | `ensure`, `reset` | a reset touches every Alert, call by call | every alert notifies the webhook there is |
| firing throttle, `firings` in `alert.go` | `last`, when an alert last fired | `start`, `forget` | in memory only | one firing per interval |
| HyperDX client, `internal/hyperdx` | none (a client per pass) | `Ensure*`, `Update*`, `Delete*`, `List*`, `TileWhere`, `RecordCounts` | it looks before it posts; a delete of a dashboard takes its alerts along | adopts what it finds, makes nothing twice |
| comparison, `internal/compare`, `incident/llm.go` | none (a call per firing) | `records`, `Prompt`, `endpoint`, `complete`, `ParseVerdict` | an unusable answer must not open or cover anything; the last of several answers counts; a key that is another component's | the verdict is what the model said last of the incidents it was shown; no verdict is not "none of them" |
| report parser and evidence policy, `internal/report` | none | `Parse`, `applyEvidencePolicy` | which block wins; lists cut at their limits; ceilings from three signals in any order | nothing is claimed above what was retrieved, and references name their sources |
| A2A client, `incident/a2a.go` | one stream: `out`, `ledger` | `Analyze` | snapshots, deltas and repeats told apart by their texts; a stream that breaks or falls silent | the answer is what the agent said, its conclusion the last block |
| service JWT, `incident/authn.go` | a JWT, its expiry and the mutex over both | `Get` | concurrent callers; an exchange that fails or hangs while others wait; a clock that runs meanwhile | callers share one JWT, none exchanges one while another is good, and every call returns |
| seeder, `controllers/alert/seed.go` | what it listed and has still to create | `Start` | the CRD may be late; people create and delete Alerts between the list and the create | every default is tried once per process, and what somebody deleted stays deleted |
| bootstrap, `internal/bootstrap` | a HyperDX session, two keys, a Secret | `Run`: wait, register or log in, read the keys, `writeSecret` | a Job restarted at any step, calls that fail after their effect, HyperDX reinstalled or upgraded, somebody who registers first | a complete Job has written the keys of the team HyperDX has, both of one team |
| process, `main.go` | none | start, end | it starts only once the Secret has an `accessKey`, and forgets everything when it ends | what starts again finds what it needs in the cluster |
| formatting, RCA prompt, HTTP helper, webhook sink, generated code, charts | none | | | not modelled but for the charts' Job and key: no state, wording or deployment files |

How they interact: a reconcile of an `Alert` runs `Connect` (which calls `webhook.ensure`), then
`Observe`, which calls `firings.start`; that starts `Writer.Fire` in a goroutine of its own, which
calls the comparison and, for a new incident, the A2A client. The writer and the controller share
nothing but the alert's name: a firing carries a copy of the spec. So they are two models, and the
writer's `Fire` action has the throttle of `firings` as its guard. The bootstrap Job is a pod of
its own that meets the provider only in the Secret, whose `accessKey` is in the environment of the
provider's pod. Inside a process the seeder meets the controller only through the Alerts, while the
RCA calls and the comparison meet in the service JWT's mutex; those four are one model, `Provider`.
The writer sees the comparison as its step `Compare`, with every verdict `Comparison` can end in.

## Modules

| Module | Models | Lines |
|---|---|---|
| `IncidentWriter` | the incident writer, per process, with the API server and the others who write Incidents | the state machine and its properties |
| `IncidentLifecycle` | what the writer promises of an alert's incidents, with no locks, calls, slots or restarts | the abstract specification `IncidentWriter` implements |
| `IncidentWriterProofs`, `IncidentInvariantProofs`, `IncidentLifecycleProofs`, `IncidentTimingProofs` | theorems about `IncidentWriter`: types and slots; what is left in an incident; the refinement and its consequences; the grace and the hold | each extends the one before |
| `HyperDX` | the HyperDX objects and the calls that change them (external, as the client uses them) | extended by the next |
| `Rules` | the threshold rules, as operators | extended by the next |
| `RulesProofs` | theorems about `Rules` | |
| `AlertReconciler` | the Alert controller and the shared webhook, with the informer cache and people | the state machine and its properties |
| `AlertReconcilerProofs` | theorems about `AlertReconciler` | |
| `EvidencePolicy` | `report.Parse` and the evidence policy, as operators | extended by the next |
| `AnalysisStream` | `A2A.Analyze` over the agent's stream, then `Parse` | the state machine and its properties |
| `AnalysisProofs` | theorems about `AnalysisStream` | |
| `Budget` | the bounds that the next four spend together | |
| `Bootstrap` | the Job, HyperDX's installation (external) and the Secret | part of `Provider` |
| `Seeder` | the alert seeder, the CRD and the default Alerts | part of `Provider` |
| `ServiceJWT` | `authnJWT.Get` and its callers | part of `Provider` |
| `Comparison` | one comparison: its candidates, its key, its answer, its verdict | part of `Provider`, on top of `ServiceJWT` |
| `Provider` | the four together with the life of the process | the state machine of the run |
| `ProviderProofs` | theorems about `Provider` | |
| `MCIncidentWriter`, `MCAlertReconciler`, `MCAnalysisStream`, `MCProvider` | the constants and the symmetry of the runs | |

### IncidentWriter

State: `incidents` is the API server's Incident of each name (`<alert>-<second>`, so a pair);
`fresh[p]` is the set of incidents whose copy in process `p` still has the current
`resourceVersion`, so a conditioned write is accepted exactly when `i \in fresh[p]`, and every
write, of anybody, takes `i` out of every process's set. `eval[p][a]` is the evaluation that holds
the firing lock of `a` (`idle` when nobody does), `rca[p][i]` the `RunAnalysis` call, `slots[p]`
the tokens in the channel, `sweep[p]` what `RecoverInterrupted` has left to patch, `lastFired` is
`firings.last`. `lost` is a history variable: the incidents for which the code logs that a write,
or a sweep of them, was lost.

Actions, each one call of somebody else or one stretch between two calls:

| Code | Action |
|---|---|
| `RecoverInterrupted`: the list; each patch; the end | `RecoverList`, `RecoverPatch`, `Serve` |
| `firings.start` and `Fire` up to the lock | `Fire` (guard `Due`) |
| `openOrCover`: list and what `pick` derives; the comparison; a covered firing; the create; the mark | `List`, `Compare`, `Covered`, `Create`, `Mark` |
| `RunAnalysis`: the slot; the agent's answer | `AcquireSlot`, `Analyze` |
| `finish`: the read; the patch, with its `WriteAttempts` attempts (five in the code, two in the runs) | `FinishRead`, `FinishWrite` |
| the process | `Start`, `Crash` (`SIGTERM` is one: its cancelled context fails every later call) |
| incident controller and humans | `Close`, `Verify`, `Reopen`, `Resolve`, `Touch` (any other write) |

A failing call is a request lost before its effect or a response lost after it; both are there for
every write. An answer of the RCA is abstracted to the four bits that decide anything: whether the
call failed, and whether it left a root cause, prose and a `howToFix`.

Assumed of the API server: the Incident CRD refuses, with a 422, to take an ended incident back
(`Resolved` can only become `Closed`, `Closed` is final: `fake_test.go:23`, enforced at
`fake_test.go:228`; the CRD itself is not in this repository). `Mark` relies on it, since it is not
conditioned on a `resourceVersion`, and so do `OnlyOthersMovePastOpen` and `KeepsPromise` with
their theorems: without the rule a mark could take an incident that a human has resolved back to
`Analyzing`.

Left out: names over 63 characters (`Fire` returns), deletion of Incidents, Alerts in namespaces
other than the release's (the cache holds only that one).

### AlertReconciler

State: the HyperDX objects (`live`, `dashboards`, `hook`), the Alerts (`alerts`) and the
informer's view of them (`cache`), the id `webhook.ensure` keeps (`hookCache`), and `pass`, the one
pass in progress (`MaxConcurrentReconciles` is 1): the copy in memory, the copy it was read as, and
the `plan`. The order Connect, Observe, AddFinalizer, Update, status write, or Delete,
RemoveFinalizer, is provider-runtime's, as the harness of `alert_test.go` runs it. The status
write and the finalizer's update are conflicts unless the Alert is still as read.

| Code | Action |
|---|---|
| `Connect`, `webhook.ensure`, `reset` | `Begin`, `Connect`, `ResetList`, `ResetDelete`, `ResetPatch`, `ResetDone` |
| `Observe` with `release`, then `TileWhere` | `Refuse` (a tautology), `List`, `ReadTile` |
| `Update`, `create`, `push` | `DeleteShared`, `EnsureTile`, `EnsureAlert`, `PushWhere`, `PushFields` |
| `Delete` | `RemoveAlert`, `RemoveDashboard` |
| provider-runtime | `AddFinalizer`, `WriteStatus`, `RemoveFinalizer` |
| the informer, the interval's end, a restart | `Sync`, `Expire`, `Crash` |
| people | `EditAlert`, `RemoveCR`, `CreateCR`, `DropAlert`, `DropHook` |

`Init` starts either with nothing in HyperDX, or with one alert that every Alert's status claims,
as `alert_test.go` inherits it from the earlier provider (its id is `Legacy`, its dashboard's
`LegacyDash`). The threshold, interval and message are one value (`Bounds`), `where` another. A
dashboard stands for its one tile. A deleted Alert that has one id only is deleted all the same
(`Exists`, from `Observe`'s answer); a pass over one that has none goes straight to the finalizer.
A GET and the POST that follows it in one `Ensure` function are one step, since nobody else makes
those objects. `state`, `okSince` and the conditions are display only and left out.
`pass.owned` is a history variable: the alerts that the pass, when it listed, saw to be named after
another Alert which claims them. `NamedStays` is about those; a pass to which the informer shows
the other's claim too late does take the alert.

### EvidencePolicy and AnalysisStream

`EvidencePolicy` keeps the code's names: `buildRetrievalLedger` unions what the block declares, the
`missingContext` lines that read as a refusal, an error or an empty result, and the results of the
tools; `worstByClass` picks the outcome that governs each class; `applyEvidencePolicy` bounds the
confidence and tells of the gap; `Parse` does it to the last usable block and adds the notes on the
scripts. A text is the record of what the policy's patterns find in it (a refusal and whom it
names, the first person, an error, emptiness), a confidence a percentage, `NaN` (which the code
passes through) or `Unstated`.

An `Entry` of the retrieval ledger has the code's key: class, scope, outcome. The scope that the
agent declares of a read is free text, here any of `Scopes`, so as many declared entries stay apart
as the agent gives scopes; a tool's result has the tool's name for a scope. `Distinct(found, s, key)`
is the loop over a `seen` map that both the client and the policy have: it joins to `found` the
members of `s` that have a key and whose key is not there yet. A line of the agent's
`missingContext` says whether it is word for word the sentence the policy would put there (`gap`);
the policy then leaves it where it is (`GapFirst`). A published line is `"missing"`, `"gap"`,
`"noFix"` or `"note"`. `sources(b)` are the places, in the agent's list, of the sources kept;
`steps(b)` are the steps that have a statement, each read up to `MaxRefs` references. The list of
entries is no longer than that of `missingContext` (`PolicyAssumption`; both are 64 in the code,
`MaxRefs` and `MaxLedger` are 32).

`AnalysisStream` is one call of `Analyze`. `earlier` and `current` are what the agent has said,
`returned` what its tools returned; `out` and `ledger` are the variables of the code's loop, which
sees neither of the others. Pieces of the answer are prose (0) or a block. The model takes them to
be whole and distinct texts none of which begins or ends another.

| Code | Action |
|---|---|
| one line of the stream with a text, as a snapshot of its message or as a delta | `Say`, `SayAgain` |
| one line with tool results, the new one or all so far | `ToolReturns` |
| the agent's next message, whose snapshots leave out the earlier ones | `NextMessage` |
| the end of the stream, `Parse` | `End` |
| a refused request, a broken stream, the read timeout | `Fail` |

`IncidentWriter` has this call as one step, `Analyze`, whose answers are all that `fields` may
leave of it; the two modules meet there and share no state.

### Provider

`Next` is a step of the process, of the Job, of the seeder, of the JWT or of the comparison; each
part names its variables and leaves the others'. `process` is `"down"` or `"up"`; its end, a crash
or `SIGTERM`, drops what only memory holds (the seeder's progress, the cached JWT, the calls), and
its start waits for `secret.access`.

| Code | Action |
|---|---|
| `Bootstrap`: `waitReady`; register; login; `/api/team`; `/api/me` | `Poll`, `Register`, `Login`, `ReadTeam`, `ReadMe` |
| `writeSecret`: the create, the patch of one that exists | `Create`, `Patch` |
| the Job's pod ends in an error, is killed; the Job's `backoffLimit` | `Restarted` in each of these, `Killed` |
| people, Helm | `SomeoneRegisters`, `Reinstall`, `Upgrade`, `DropSecret`, `Release` |
| `seeder.Start`: the list, each create, the end | `SeederList`, `SeederCreate`, `SeederDone` |
| Helm's CRD; people | `EstablishCRD`, `PersonCreates`, `PersonDeletes` |
| `authnJWT.Get`: the call, the lock with the look at the cache, the exchange with the unlock | `CallGet`, `Lock`, `Exchange` |
| the call that used the JWT; the clock | `CallOver`, `JWTTick` |
| `pick`'s call: `records`, `endpoint`, the key, the completion, the verdict | `StartComparison`, `ReadRows`, `Endpoint`, `KeyKnown`, `Completion`, `PickGoesOn` |

A HyperDX installation is the number of its team (`team`, 0 for none; `made` counts them, so a
reinstallation is told apart), whether its credentials are ours, and whether its version has user
keys (`v2`). A key is the team it belongs to. An answer of the comparison model is the numbers in
its fenced blocks, `MaxFenced` of them at most, and in the text as a whole; `ParseVerdict` reads
them in the code's order and only inside `1 .. n`. A JWT is its number and its expiry; a lifetime of
0 is a JWT that names none, for which the code assumes `NoExp`. The token file and the URL are
configured or not (`Enabled`).

Assumed: HyperDX is not taken back to a version without user keys; the pod of an old Job is gone
when the new one's starts (Helm deletes the Job first), so at most one run is in progress.

## Runs

All bounds are spent in guards: `MaxTime` ticks of the clock, `MaxFaults` failing calls,
`MaxTouches` foreign writes that change no state, `MaxCrashes` ends of a process, `MaxMoves` acts
of people. The writer's runs set `CHECK_DEADLOCK FALSE`: with the clock at its bound an alert that
has fired cannot fire again and the system stops. So do that of the analysis, a call that
returns, and that of the provider, whose Job completes and whose budgets run out. The reconciler's runs check deadlock.

| Run | Instance | Shows |
|---|---|---|
| `writer_pick` | 1 alert, 2 incidents, 3 seconds, no faults; hold and grace of 2 | `OneInProgressPerAlert`, `GraceRespected`, `HoldRespected`: whatever happens between the list and the create, an alert has one incident in progress; one just resolved keeps its late rows; a failed one holds its alert until its hold is over |
| `writer_faults` | 1 alert, 2 seconds, 1 failing call, 1 touch, 1 crash, 2 attempts, 1 slot, fair | `TypeOK`; `OrphansAreLogged`: an incident is left in progress with nobody to finish it only with an error line; `RunningWithinLimit`; `OnlyOthersMovePastOpen`; `KeepsPromise`: the writer implements `IncidentLifecycle`; `LeavesAnalyzing`: no slot is leaked, so every incident leaves `Analyzing` unless a lost write was logged |
| `rollout` | 2 processes, 2 crashes, 1 failing call, all four answers | `ErrorIffNoScripts`: sweeps and RCAs of two processes may write one incident in any order, and `error` is still set exactly when there is no `howToFix` |
| `reconciler` | 2 Alerts, both starts, 2 `where`s, 1 move, 1 failing call | `TypeOK`; `OwnTile`; `OneAlertPerName`; `NamedStays`: a pass that saw whose a shared alert is leaves it alone; `OwnWrites`: whatever ids and dashboards a pass holds, it changes and deletes no alert of another name, but in a reset or on the inherited dashboard; `DeletionIsComplete`: however passes are cut short or conflict, an Alert goes, or forgets an id, only when what the id names is gone from HyperDX |
| `reconciler_live` | 1 Alert, `above 1`, `below_or_equal 0` and `above 0`, counts up to 2, 2 moves, 1 failing call, 1 crash, fair | `Converges`: it settles on its spec, is refused exactly if no count could ever change its state, or is gone |
| `inherited_live` | 2 Alerts that claim one inherited alert, 1 move, fair | `Converges`: each settles on an alert of its own |
| `analysis` | 5 blocks, 3 pieces, 6 tool results of which 3 return, 3 declared scopes; limits of 3 list entries, 2 references, 4 retrievals, 3 lines of `missingContext` | `TypeOK`; `AnswerOnce` and `ConclusionKept`: what the client makes of snapshots, deltas and repeats; `DenialBounds`: a refusal a tool reports bounds the confidence in any order of results, if it is the first of its tool and text and the ledger is not cut; `NeverRaised`; `GapsTold` |
| `provider` | 1 restart of the Job, 2 polls, 2 defaults, 2 RCA calls and the comparison, lifetimes none and 3, 2 incidents, 2 fenced blocks; one of 7 budgets of faults, moves, crashes, calls, firings and ticks; fair | `TypeOK`; `KeysBelongTogether`, `CompleteMeansProvisioned`, `RaceIsAbsorbed` and `JobEnds` of the Job; `DeletedStaysDeleted` and `SeedsArrive` of the seeder; `OneFreshJWT` and `GetReturns` of the JWT; `VerdictIsTheModels` of the comparison |
| `lost_mark`, `rollout_orphan`, `dead_channel`, `shifted_refs` | see below | a violation each |

Why the bounds are enough: the writer's rules relate an incident to the next one of its alert, so
two incidents (`TwoIncidents`) reach all of them; three seconds give an incident before, at and
after the end of a hold or a grace of two; `WriteAttempts` of 2 has a retry and an exhausted loop
as 5 has, and one failing call or touch is spent at every point of every call in turn. Two
claimants are enough for every branch of `release`. The limits of the analysis are small enough
that its blocks overrun them. One block declares three reads of one class, each of a scope of its
own: with one tool's result the ledger of four is exactly full, and a refusal in it must bound the
confidence; with two results a tool's is cut. One has its `missingContext` of three taken and two
notes to add; one writes the gap itself first, one in the place the note takes. Its six results are
the ways `fromToolLedger` reads a result, in two classes, with one text both failed and not. In `provider` what moves together is in one budget: three moves of people
and Helm around one Job (register, reinstall, upgrade), two failing calls of one run, a crash of
the process while two calls wait for the lock one of them holds, a comparison that waits for an RCA
call's exchange; two fenced blocks tell the last from the first, two incidents the numbers from the
ranks, and answers reach one past either end of what a prompt shows. Only
`rollout` and `reconciler`, which check no liveness, use symmetry.

Fairness. The writer's `FairSpec` is weakly fair to the restart and sweep of a process, to each
step of an evaluation and to each step of an RCA: every API call has a client timeout, the
comparison has `COMPARE_TIMEOUT`, and the A2A stream has a timeout per read. That an RCA which
keeps streaming ends at all is an assumption on the agent. Nothing forces a firing, a crash, a
foreign write or the clock. The reconciler's `FairSpec` is weakly fair to the steps of a pass, the
informer and the interval's end, and strongly fair to the start of each Alert's pass, since the
work queue is first-in first-out: an Alert that finds another pass running still gets its turn.
Nothing forces people or a crash. `Provider`'s `FairSpec` is weakly fair to the calls of the Job
(each has a timeout, and the kubelet restarts a run), of the seeder and of the comparison, to the
end of an exchange, to Helm's CRD and to the start of the process, and strongly fair to `Lock`: a
Go mutex hands itself over in the order of arrival once a waiter has waited a millisecond. Nothing
forces a firing, an RCA call, people, a crash or the clock.

Every property of a passing run has a fault in the model's own terms that breaks it: the operators
named `<definition>_<Fault>` beside the definition they replace.

What the properties do not see: `ErrorIffNoScripts` not the state a late mark overwrites, only
`error` and `howToFix`; `HoldRespected` not a hold that lasts too long; `DeletionIsComplete` not an
id that only a lost status write held; `NeverRaised` and `DenialBounds` not a `NaN`. The run of
`OneInProgressPerAlert` has no restart; its theorem, `OneAnalysisPerAlert`, is for any.

## Proofs

`IncidentWriterProofs` proves, for all values of the constants that satisfy
`ConstantsAssumption`:

- `TypeCorrect`: `Spec => []TypeOK`. Not only types: it includes that `slots` stays within
  `0 .. MaxConcurrentAnalyses` and `tries` below `WriteAttempts`, which no step's guard says of
  `Analyze`, the step that gives a slot back.
- `SlotLimit`: `Spec => []RunningWithinLimit`, from the same invariant.

`TypeOK` is not inductive. `TypeInv` adds what its steps rely on: `MarksCreated` (an evaluation
about to mark has created its incident), `AnalysisExists` (an RCA is of an incident there is),
`MarksOnce` (nor does an RCA of it run before the mark) and `SlotsCountRunning` (the tokens of a
process are exactly its RCAs in `running`, a finite set), which makes the count positive whenever
an RCA ends. The proof has one lemma per action: a step that leaves `rca` and `slots` alone keeps
`SlotsCountRunning`; a step that moves one incident into or out of `running` changes the
cardinality by one (`FS_AddElement`, `FS_RemoveElement`), and `slots` with it. `Alerts` need not
be finite.

`IncidentInvariantProofs` goes on from `TypeInv`:

- `ErrorExplains`: `Spec => []ErrorIffNoScripts`, for any number of processes. The invariant,
  `ErrorInv`, says what a process relies on between its read and its write: a copy that is still
  fresh says what it said when it was read (`FreshIsCurrent`: a sweep's incident is in progress, and
  `working` is what `finish` saw); a process that sweeps neither evaluates nor analyzes
  (`PhaseKept`); one process at most handles an incident, the one that created it (`OneHandler`,
  through the 409 of the second create); and an incident with `howToFix` is handled by nobody and
  not in progress (`NoFixYet`), so neither a late sweep nor a second analysis writes beside it.
- `OneAnalysisPerAlert`: `Spec => []OneInProgressPerAlert` when there is one process
  (`OneProcess`). Between the list and the create the property rests on what the evaluation found:
  `OnlyMine` says that while it is about to create none of the alert is in progress, and while it
  is about to mark only its own; `FallbackNone` (no fallback means nothing in progress, as such an
  incident is no candidate and holds every firing: `UnsetHasNothing`) starts it, the firing lock
  keeps it.

`IncidentLifecycleProofs` proves the rest of one process's promise:

- `PromiseKept`: `Spec => KeepsPromise`. `StepKeepsPromise` maps each step to `Opens`, `Starts`,
  `Concludes`, `Interrupts`, `Moves` or a stutter, under `PromiseInv`: nobody who is still to write
  an incident finds an outcome in it (`NotYet`), and the incident about to be marked is new or
  closed (`MarksUnset`).
- `OthersMoveThePast`: `Spec => OnlyOthersMovePastOpen`, from the same invariant.
- `NoSilentOrphan`: `Spec => []OrphansAreLogged`, by cases of who stops attending the incident.

`IncidentTimingProofs` goes on from `PromiseInv` to the two properties over timestamps, again for
one process: `GraceKept` and `HoldKept`. Both compare a firing whose evaluation began some time ago
with incidents as they are when the new one exists, so `TimeInv` says what cannot have changed in
between: every incident of the alert is older than its evaluation but the one it made (`EvalLater`);
an answer is later than its incident (`AnsweredLater`), and what makes an incident comparable is
written with the outcome and stays (`NothingBeforeOutcome`). While an evaluation is to create, every
open incident found without an analysis had already been held long enough (`HeldLongAgo`), and the
latest one, if resolved, is past its grace or was resolved after the evaluation began (`GraceOver`).

The last six assume `OneProcess`: with two, evaluations of one alert, and a sweep, may be in
progress beside each other (`rollout_orphan` shows one way this goes wrong). Calls may fail and the
process may restart at any step in all of them.

`AlertReconcilerProofs` proves, for any Alerts, any number of moves of people, failing calls and
crashes, both starts and any contents of the cache: `ReconcilerTypes`, `TilesAreOwn`, `NamesAreOwn`
and the action properties `NamesakesStay`, `PassesWriteTheirOwn` and `DeletionsAreComplete`. One
invariant, `IInv`, serves all six:

- `PlanOK`: what a pass may hold at each of its steps: it has a dashboard when it is about to make
  an alert, no target when it creates, neither plan nor dashboard before `Observe`; its target and
  the shared alert it is to delete are none of those it saw owned (`SparesTheOwned`); a deletion
  works on the ids it read (`DeletesWhatItRead`).
- `Numbered` and `RefsNamed`: HyperDX's ids are never used again, so an id that a status, a cached
  copy or a pass refers to is that of an alert of its own name, of the inherited one, or of one
  that is gone. A stale id can then not hit another Alert's alert.
- `TileFree`: the tile a pass is about to make or use is no other alert's. Between `List` and
  `EnsureTile` the tiles taken are known from the list, and only this pass makes alerts.
- `GoneSoFar`: as long as no call has failed, what a deletion has gone past is gone.

`OwnTile` and `OneAlertPerName` are conjuncts: the first follows from `TileFree` at `EnsureAlert`,
the second because that step looks for the name before it posts.

`PassesWriteTheirOwn` (`OwnWrites`) needs `OwnInv` besides, of dashboards what `RefsNamed` is of
alerts: a dashboard that a status, a cached copy or a pass refers to bears its Alert's name and has
nobody else's alert on it, is the inherited alert's, or is gone (`DashesNamed`, `LegacyStays`). For
this a create must be on a dashboard that is still there (`CreatesItsOwn`), and must not move the
inherited alert: nobody has the Alert's name when `EnsureAlert` runs. So the lookup in
`hyperdx.go:411` never finds an alert while one process reconciles; it guards against others.

`AnalysisProofs` proves, for any agent, tools, blocks, results and limits, the six invariants of
its run, all from `AnalysisInv`:

- `AnswerIsWhole` and `ConclusionStands`: the three ways `Received` takes a text in come to one
  where the last block is concerned (`ReceivedHolds`): the answer goes on to end on the text's last
  block if it has one. So the answer's last block is the agent's last, whatever was repeated.
- `DenialsBound`: the ledger holds the first result of each tool and text (`LedgerInv`); each
  refusal in it has its entry among the retrievals, one of each class, scope and outcome
  (`DenialIsRetrieved`), which are not cut as long as they fit `MaxLedger`; it governs its class
  (`DenialGoverns`), and so is among the ceilings whose least bounds the confidence (`ParseHolds`).
  The scopes a block declares are any set, and so is how many of them it declares.
- `GapsAreTold`: the gap is put first unless the agent wrote it (`GapFirstHolds`), the notes last,
  each with the list cut to leave it room; a cut keeps the places before it (`CutIsPrefix`), the
  agent's own gap among them.
- `AnalysisTypes`, of all of these.
- `ConfidenceNeverRaised`: what is published is the declared confidence or the reported ceiling, and
  then below the declared one; the lines `WithNotes` adds after the bound do not touch it
  (`Governed`). It says nothing of `NaN`, which is above no ceiling and published as it is.

What `Distinct` returns is shown by induction over a set of naturals (`UpFromZero`, from the
well-foundedness of `<`): the set of the lengths up to which the recursive function has the
property (`DistinctHolds`). No induction theorem that takes an operator is needed for that.

`ProviderProofs` proves, for any budgets, backoff, polls, login fields, callers and lifetimes:

- `KeysAreOfOneTeam`, `CompleteJobProvisioned`, `RunsFailForAReason`: the properties of the Job,
  from `JobInv`: what a run has read is of one team and never less than the Secret holds
  (`ReadsOneTeam`), is HyperDX's while nothing moved under it (`ReadsTheTeam`), and a run nothing
  disturbed finds what its next call needs (`GoesWell`).
- `OneJWTInUse`: `Spec => []OneFreshJWT`, from `JWTInv`: whoever exchanges holds the lock, and
  holds it because the cached JWT is not to be used (`OneExchange`).
- `DeletionsStand`: `Spec => DeletedStaysDeleted`, from `SeedInv`: what the seeder has still to
  create, this process has neither listed, created nor tried (`NotTriedYet`).
- `VerdictsAreTheModels`: `Spec => []VerdictIsTheModels`. The bodies in the order `InOrder` tries
  them are what the model said from the end (`TriedFromTheEnd`), so the first usable one is the last
  it said; a number names one incident of the prompt, or none (`NamedIsOne`).
- `ProviderTypes`: `Spec => []TypeOK`, from these four and from `NextSpends`, that every step spends
  one of a kind or nothing. The candidates have a type because a finite set of naturals can be
  listed from its greatest to its least (`FallingExists`), as `Ranked` says.

`RulesProofs` proves of the threshold rules, for every threshold (in halves, so that fractions are
between two counts) and every count: `RefusesOnlyDecided`, what `Tautology` refuses could never
change state, and `RefusesEveryDecided`, it refuses all such alerts of the three types it judges.
`reconciler_live` asks the same of the Alerts that are refused in the end.

Four properties were false as first stated, which the attempts to prove them showed and TLC
confirmed; the model's statements are now what the code does keep:

- `NamedStays` held only of passes that saw the other Alert's claim; with two moves of people a
  pass with an older view renames its namesake's alert. Hence `pass.owned`.
- `DenialBounds` did not hold of a refusal that repeats the text of an earlier result. Hence
  `First`; the case is under [divergences](#divergences-between-the-code-and-its-words). Nor does it
  hold of a ledger that is cut, which its premise excludes.
- `OwnWrites` does not hold of the inherited alert's dashboard. Hence `LegacyDash`.
- `GapsTold` needs room for the retrieval's own lines. Hence `MaxEntries <= MaxContext`; both
  are 64 in the code.

Only model-checked: what needs fairness (`LeavesAnalyzing`, `Converges`, `JobEnds`, `SeedsArrive`,
`GetReturns`), for which the provers have no rules here; and the four violations.

## Divergences between the code and its words

Four runs show a statement of the repository that the code does not keep:

- `lost_mark`: when the patch to `Analyzing` fails after the create, the incident stays without a
  state, no RCA runs, and every later firing of the alert is covered by it until a restart;
  `writer.go:445` says the write "loses this firing, not the next one".
- `rollout_orphan`: the new process of a rolling update sweeps while the old one still serves; an
  incident the old one opens afterwards stays `Analyzing` until another restart;
  `docs/overview.md:100` says the sweep opens "every incident a restart left `Analyzing`".
- `dead_channel`: `reset` runs only in the pass that made the webhook; what it did not reach keeps
  the old webhook, since the next `ensure` finds the new one and drift does not compare channels;
  `docs/overview.md:29` says a recreated webhook "resets every Alert".
- `shifted_refs`: `sources` drops the sources without a ref or an excerpt, `trace` keeps the
  agent's numbers that fit what is left; a step then cites a source it did not name;
  `instructions.txt:22` says they are "0-based indices into "sources"".

Also met while modelling, with no run of their own:

- An Alert deleted while the pass that creates its HyperDX alert runs leaves that alert behind: its
  id is only in the status write, which conflicts (`alert.go:420`). `DeletionIsComplete` is of the
  ids the status names; it excepts a deletion while a webhook's reset takes the alerts away.
- An Alert that reads the inherited id it released, once nobody else claims it, renames that alert
  beside its own (`alert.go:273`; `OneAlertPerName` excepts it).
- The deletion of a claimant of a shared alert deletes it for the others (`alert.go:464`). Nor need
  it be shared any more: when another claimant has released and deleted it and made its own alert
  on the dashboard, which bears its name, the deletion of a claimant whose status still names that
  dashboard takes the new alert along (`alert.go:467`). The next pass makes another. `OwnWrites`
  excepts this and was false without the exception.
- A dashboard that outlived its alert is reused with its old `where`, while the phase is `Synced`,
  until the next pass (`hyperdx.go:307`).
- An incident closed while a comparison runs still takes that firing (`writer.go:306`).
- The mark of a new incident is unconditioned: in a rollout it may follow the sweep's `Open`
  (`writer.go:334`); the RCA opens it again.
- A write that moves nothing makes the sweep skip an incident as if another writer had moved it
  (`writer.go:386`).
- `Tautology` has no case for `above_exclusive -1`, which fires always, nor for `equal -1` or
  `not_equal -1`, which never change state either, and the CRD admits all three; `rules.go:12` says
  it is "why the alert can never change state, or "" if it can".
- `examples/alerts/README.md:35` says `above` is strictly greater, so that `threshold: 0` fires on
  the first row; `rules.go:17` and the CRD say `value >= 0`, and `above 0` is refused.
- Past 32 retrievals the ledger drops the tools' results, which come last (`policy.go:266`).
  Retrievals are told apart by class, scope and outcome (`policy.go:259`), and an agent that declares
  each read with its scope, as `instructions.txt:25` asks, makes as many: 33 reads of one class that
  worked, and a tool's refusal beside them is not counted, the confidence not bounded.
  `policy.go:244` calls the tools' results "the one layer a model cannot opt out of". The run reaches
  this; `DenialBounds` is about the ledgers that are not cut.
- A gap that the agent wrote itself stays where it is in `missingContext` (`policy.go:478`), where
  the comment at `policy.go:404` has it "as the first missingContext entry"; in the last place of a
  full list it is replaced by the note on the scripts (`report.go:548`).
- A declared `NaN` is above no ceiling (`policy.go:461`); a success lifts an error of its class
  (`policy.go:302`), which `policy.go:271` wants and `policy.go:245` excludes.
- `Analyze` drops a result whose tool and text it has seen, whether or not the call failed
  (`a2a.go:107`). A refusal of a failed call is thus lost when an earlier call of the tool that
  worked returned the same text, in which a refusal is not the analyzer's own; `policy.go:244` says
  "a later signal can only add a constraint". `DenialBounds` is about the first of its tool and text.
- The snapshots of a second message are appended one after the other, and a delta that repeats the
  last one is dropped (`a2a.go:129`); only the last block is kept in every case.
- A Job that completes against a HyperDX without user keys leaves the provider's pod waiting for an
  `accessKey` only a later release's Job writes (`deployment.yaml:170`); a running process keeps
  the key it read at its start (`main.go:100`), also when a later Job replaces it.
- Who waits for the JWT while authn hangs waits for the exchanges of everyone before, 15 seconds
  each, before its own (`authn.go:75`).

## Not modelled

The RCA prompt (wording), `pyfmt` (how Python formats and compares JSON values: the models say
where a value counts as absent or changed), the HTTP helper (one request, its status and its body),
the webhook sink (it logs what HyperDX posts and answers the health probe), the golden test helper
and the generated code keep no state and decide nothing the properties tell apart. Of the charts
only the Job's backoff and the pod's wait for the key are. Partly: the HyperDX client's
`RecordCounts` and `TileWhere` (queries and their granularity; the reconciler takes their answers),
the threshold rules (`okSince` is display only, and `between` needs a second threshold an Alert
does not have), the parts of `Parse` that rewrite texts (`howToFix` targets, steps' wording).

## Plan

1. An abstract specification of what the controller promises of each name's HyperDX alert (made
   once, rewritten, released, gone with its Alert), as `IncidentLifecycle` is for incidents, and
   that `AlertReconciler` implements it, from `IInv`.
2. `Parse`'s targets of `howToFix` and its checks of the scripts, as operators of `EvidencePolicy`.
