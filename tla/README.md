# Verification of rollops

TLA+ models of the parts of rollops that decide what runs on a target, the TLC
runs that check them on small instances, and TLAPS proofs of the properties that
matter most for every instance. `PROJECT.json` maps every definition to the lines
of Go it stands for.

## The system

rollopsd watches Git repositories, plans what each declared target needs, and
deploys it as a progressive, health-gated rollout that can be approved, paused,
aborted, promoted and rolled back. Replicas share one Store.

| component | code | state it keeps | operations |
|---|---|---|---|
| lifecycle | `internal/rollout` | phase of a rollout | `Send` of an event, guarded edges |
| engine | `internal/engine` | in-process lock per target | `Apply`, `Tick`, `Pause`, `Resume`, `Abort`, `Approve`, `Reject`, `VerifyOrRollback`, `Promote`, `RollbackLast`, `Schedule`, `FireDueSchedules`, `Freeze`, `Lift` |
| store | `internal/store/sqlite` | rollouts, history, schedules, leases, freeze | upserts, newest-first lists, `AcquireLease`, `ReleaseLease` |
| reconciler | `internal/reconcile/reconcile.go` | none | `Reconcile`: tick what is in flight, else plan and apply, then `finalize` |
| watcher | `internal/reconcile/{watch,fail,reap}.go` | repo locks, failure streaks, absences, last declared configs | one tick of every repo; `logOutcomes` |
| image automation | `internal/reconcile/imageauto.go`, `internal/imageupdate`, `internal/git` | checkout, proposal branches | scan tags, pin, commit, push, propose |
| stepper | `internal/progressive` | step cursor, time of entry | advance, snapshot, restore |
| gates | `internal/analysis`, `engine.runGates`, `engine/smoke.go` | streak of failed measurements | pass or fail a rollout |
| admission | `internal/security`, `internal/risk`, `internal/governance`, the surfaces | policy, tokens, freeze, budgets | identify, authorise, refuse, ask for approval |
| artifact gate | `internal/security/{artifact,provenance,sourcegate}.go` | none | vouch for an image |
| credentials | `internal/api/{jwks,oidc}.go`, `internal/git/githubapp.go` | key set, installation token | find a key, judge a token, mint |
| targets | `internal/target`, `internal/step`, `pkg/target` | live state, stamp, labels | `Apply`, `Diff`, prune, `ReapTarget` |
| plugin host | `internal/pluginhost`, `internal/target/plugin`, `internal/cli/plugin.go` | installed binary, process groups | launch, judge, close; install, update |

Interaction. The watcher runs image automation, then the reconciler, which calls
the engine; API, gRPC, MCP, console, webhooks and the schedule loop call the engine
from other goroutines, other replicas and one-shot processes, after admission. The
engine asks the artifact gate, then builds a target (a plugin process, perhaps),
applies, steps the canary and runs the gates. They meet in the Store (rows without
versions: the last writer wins), in the target lease, in the in-process lock, and
on the target itself, which people edit too.

What is hard here:

- an operation loads a row, then takes the lock, then works on the row it loaded;
  some operations take no lock at all;
- a canary spans many calls and holds neither lock nor lease between them;
- a replica may die between the save of a row, the deploy, the shift of traffic and
  the snapshot; between kubectl's apply and the stamp; between firing a schedule and
  deleting it;
- "the prior manifest" and "the newest rollout" depend on the order of saves;
- a lease has a lifetime that calls do not extend, and an owner that may be shared;
- the watcher's memory of failures and absences is fed by ticks of several callers,
  partly after the repo lock is released, and is lost on restart;
- registry, Git host, identity provider and plugins change between two calls of one
  operation: a tag moves, a proposal is closed, keys rotate, a binary is replaced;
- each daemon has its own copy of the policy, the freeze and the agent budget;
- waits (`dependsOn`, holds, bakes, recovery, handshakes, key fetches) have to end,
  and some HTTP and RPC calls have no deadline.

What makes each part correct: operations on a target exclude one another; one
canary at a time, exposed no further than its gates passed; stored phases follow the
statechart; a rollback restores what ran; a promoted rollout is what runs; a verdict
is earned; nothing ships that is not vouched for, admitted and approved; an
interrupted rollout does not occupy its target for ever; a target's checksum never
promises more than was sent; only what was refused for good is held, and not for
ever; only what is gone, and one's own, is deleted; automation moves forward and
through Git; a quiet repository converges.

## Modules

| module | models | state |
|---|---|---|
| `Lifecycle` | `buildMachine`, `ResumeLifecycle`, `Send` | none: operators on phases |
| `RolloutEngine` | the engine, the reconciler's use of it, the Store it shares | `rows` and `pos` (rollouts, newest first), `lease`, `held` (keyedLocks), `live` (target), `queue` (schedules), `op` (each caller's program point and locals), `faults`; history `cleared`, `ran` |
| `RolloutEngineProofs`, `WatcherProofs`, `TargetsProofs`, `ImagesProofs`, `CredentialsProofs`, `AdmissionProofs` | theorems about the module each is named after | |
| `DeliveryProofs`, `SupplyProofs` | theorems about `Canary` and `Gates`; about `Artifacts` and `Plugins` | |
| `Watcher` | ticks of one repo, `failStreak`, `reaper` | `head`, `moved`, `tree` (Git), `lock`, `fail`, `seen`, `absent`, `lastSeen`, `status`, `stale`, `running` (abstract rollouts), `op`, `due`; history `clean`, `latest` |
| `Canary` | the step machine and the driver that restores it; router and flag | `plan`, `canary` (the row), `drive` (the call and its copy), `traffic`, `flag`; history `passed`, `baked`, `before`, `undone` |
| `Exposure` | abstract: what a canary promises about traffic | `level`, `pos`, `mode` |
| `Gates` | `runGates`, `healthWithRetry`, the smoke test, the sampling loop | `gs`, `gate`, `results`; history `seen` |
| `Artifacts` | `ArtifactVerifier` and its three authorities | `settings`, `tag`, `attached`, `ship` |
| `Targets` | `Apply`, stamp, diff, prune, reap, retries; Kubernetes and file targets of one namespace | `declared`, `retired`, `live`, `label`, `stamp`, `rows`, `job`; history `whole` |
| `Plugins` | launch, handshake, policy, use, close; install, update | `disk`, `pin`, `installer`, `use`; history `vetted` |
| `Images` | the bump phase of a tick, with registry, Git host and people | `policy`, `published`, `tracked`, `proposal`, `pr`, `checked`, `clone`, `bump`, `decided`, `deployed`; history `carried`, `offered` |
| `Credentials` | `JWKS.Key`, `OIDCAuth`, `GitHubApp.Token` | `clock`, `provider`, `oidc`, `jwks`, `app`, `asking`; history `since`, `gone` |
| `Admission` | surfaces, RBAC, guardrails, risk, governance, approvals, freeze, schedules, reload | `policyFile`, `tokenFile`, `daemon`, `frozen`, `rollouts`, `records`, `busy`, `call`, `queue`; history `onDisk` |
| `MCEngine`, `MCWatcher`, `MCDelivery`, `MCControl` | instances for TLC | `subject` in the last two |

**RolloutEngine.** One target: every lock, lease and query is keyed by the target
ref. A manifest is its checksum. A caller is a process whose program counter stops
between two calls to the Store, the lock or the target, so that other callers,
other replicas and a crash can come in between; `Holding` is the set of points
between `acquireTarget` and the deferred release. Each `Start...` action is the
part of an operation before its first such point, the others are one step each:
`Acquire`/`Release` (`acquireTarget`), `ApplyInFlight`, `ApplyBaseline`,
`ApplyCreate`, `ApplyDeploy`; `RecordStep`, `Bake`, `AdvanceStep` (`driveStepper`);
`Fail`, `Revert`, `StoreReverted`, `StoreFailed` (`failProgressive` and
`applyRollback`); `TickLoad`, `TickRecover`, `TickStep`; `PauseOrResume`, `Abort`;
`ApproveLocked`, `ApproveDeploy`, `ApproveStore`; `StoreRejected`; `Finalize`,
`Gates`, `PromoteLoad`, `PromoteSave`; `RollbackLoad`, `RollbackLocked`;
`ScheduledCreate`, `ScheduledDeploy`, `ScheduledStore`, `Unschedule`. `StoreError`
fails a write, `Crash` takes a replica with its lock but not its lease,
`LeaseExpires` is the TTL, `EditTarget` an edit from outside. What admission, gates
and targets answer is nondeterministic here; the modules below are their inside.

**Watcher.** One repo on the replica that leads; preflight is on, as in the daemon.
Callers are the goroutines that tick: `Loop` is `Run`, whose outcomes go to
`logOutcomes` after the lock is released; the others drop theirs. A tick is
`StartTick`, then `PullFails`, `LoadFails` or `Read` (dedupe, `observe`, report and
reap), `PreflightHeld`, `PreflightRefused` or `PreflightPasses`, one of `Skip`,
`ReconcileFails` or `Reconcile` per config in dependency order, `Finish`, and
`logOutcomes`. `Commit`, `Interval` and `Restart` are the world. An error is its
text, of which five are told apart; time is counted in reconcile intervals. A
rollout is its status only. The initial state chooses one of `Worlds`: who calls,
what Git may hold, which refusals and read errors happen, whether it restarts.

**Canary.** One call of the engine at a time (their interleavings are
`RolloutEngine`'s), but a crash may end it anywhere and a write of the row may be
lost. `StartStepper`, `RecordStep` or `AlreadyRecorded`, `Shift`, `Advance`, and
`SaveSnapshot` are `driveStepper`; `RevertFailed`, `StoreReverted` and `MarkFailed`
are `failProgressive` with its `applyRollback`; `TickBaking`, `TickDue` and
`RecoverInterrupted` are what a tick finds; `PauseCanary`, `ResumeCanary`,
`AbortCanary` are the operators; `PromoteCanary` and `RollbackVerified` follow the
gates. A rollback resets traffic and flag and only then stores the row: `AbortCanary`
and `RollbackVerified` do the first, `StoreRolledBack` the second, and a crash or a
refused write may come in between. `RecordStep` saves the number of a new step beside
the snapshot of the step before it, as `recordStep` does. Time is the age of a bake,
capped at the longest pause. `Exposure` is what the router's side may rely on: traffic
goes only to weights of steps that passed, steps pass one at a time and in order,
nothing is raised while held or settled. The refinement maps `traffic` to `level`, the
number of steps that passed their gate to `pos` and the row's phase to `mode`.

**Gates.** Each gate is a step per answer it waits for. The path (auto, verify,
promote) decides where the settings come from. A target that cannot be built and a
call cancelled between two attempts fail the gate, a target of unknown health passes
it. An answer of a backend is the samples of a series, so that an empty series,
several series, every aggregation and a sample that is not a number
(`strconv.ParseFloat` takes "NaN") are told apart.

**Artifacts.** One action per call of cosign. Attestations are attached and tags
move between the calls; what the target pulls is resolved last.

**Targets.** A content is one rendering of a source and its documents are resources
of the namespace. `Plan` is the drift verdict that starts an apply; `ApplyStep` is
check, diff, send, prune, stamp and retry; a rollback re-applies the prior's bytes.
Nothing makes `labelValue` one-to-one, so targets may share a label: `Kin` is what the
targets of one label own together, `Alone` a target that shares its label with none.

**Plugins.** A binary stands for its sha256. A launch is a process group: the leader
may die and helpers may have been forked before anybody kills the group. Install, by
name from the index or from a path or URL with or without a checksum, and update verify
what they fetched, truncate the installed file, write it and re-pin. Nothing hashes the
file again when it is executed: one that was cut short may start, shake hands and
declare any manifest. `killLaunch` kills the group of a failed handshake,
`ManifestTimeout` closes a plugin that does not declare itself, `Release` is the end of
the call.

**Images.** One action per call to registry, Git or Git host. The checkout is
modelled with the branch it is on and what it has not pushed. The initial state
chooses a setup: policies, references, tags, and bounds on what others do. Each config
has a proposal branch of its own; `prBranchName` (imageauto.go:281) maps other characters
than letters, digits, `-` and `_` to `-`, and the configs here are those whose names it
keeps apart.

**Credentials.** `AskCredential` is a request with a token or a git command; a call
finds a key, waits for another's fetch, or fetches outside the mutex. A token's
signature is the key that made it. Time is a clock. A fetch of the key set takes at most
`Timeout` (jwks.go:27, 68). A mint has no limit: its client has no timeout
(githubapp.go:76), main.go sets none and the watcher's context has no deadline.

**Admission.** A request is identified by its surface, authorised against its
daemon's policy and passed to the engine, whose guardrails, risk gate and governor
are evaluated in the code's order; then the row is stored and, if nothing gates it,
deployed. A scenario chooses which requests are made and what else happens.
`ROLLOPS_ALLOW_SELF_APPROVE` is unset.

**MCDelivery, MCControl.** The components of each share no state. A behaviour
chooses one (`subject`) and leaves the others in one fixed initial state, so one run
explores the sum of their state spaces, not the product; each property speaks of one
component and holds of the resting ones trivially.

## Runs

Runs that pass:

| run | instance | shows |
|---|---|---|
| `serial` | one caller, all operations, 2 manifests, 2 rollouts, 1 fault | types, `AtMostOneCanary`, `PhasesFollowLifecycle`, `BlockedIsSticky` |
| `rollback` | reconcile loop, 2 manifests, 3 rollouts, 1 fault, edits from outside | `RestoresWhatRan`, `PromotedIsLive` |
| `replicas` | leader and API caller in two replicas, 1 fault | `MutualExclusion`, `AtMostOneInFlight` |
| `recovery` | API caller in one replica, loop in the other, 2 faults, fairness | `InterruptedIsRecovered` |
| `watchTicks` | `Run` alone with both refusals, both read errors and restarts; `Run` and a webhook with a config that comes and goes, load errors and restarts | `HeldWasRefused`, `SerialTicks`, `ReapsAfterCleanAbsence`, `ReapsUndeclared` |
| `watchConverge` | `Run`, a dependency, errors that pass, fairness | `Converges` |
| `delivery` | see below, fairness | artifacts: `ShipsVouched`; canary: `ExposureWithinGate`, `ShiftSurvivesCrash`, `BakesFully`, `ImplementsExposure`, `CanaryEnds`; gates: `VerdictIsEarned`; targets: `SuccessIsInPlace`, `StampNeverLeads`, `DeletesOnlyOwn`, `SelfHeals`; plugins: `NoStrayProcess`, `OnlyAdmittedRuns`, `EveryLaunchEnds` |
| `control` | see below, fairness | images: `CurrentIsNewest`, `ClusterFollowsGit`, `OnlyForward`, `AdoptsOrConflicts`; credentials: `CredentialsAreFresh`, `EveryCallAnswered`; admission: `FreezeHolds`, `GatedWaits`, `FailuresEscalate`, `PolicyIsWhole`, `ScheduleNotLost` |

Runs that end in a counterexample, each against a sentence of the repository:

| run | property | what the trace shows |
|---|---|---|
| `approveOver` | `CanaryOwnsTarget` | `Approve` deploys over a baking canary |
| `uncleared` | `OnlyClearedRuns` | a rollback restores a rejected manifest |
| `staleTick` | `RecoversOnlyInterrupted` | a tick recovers a canary from a stale copy |
| `watchHeldForever` | `HoldExpires` | a hold renews itself |

The passing runs say what does hold; each leaves out what a neighbouring
counterexample needs. Changing a constant, a world or a premise brings it back:

| change | property violated | what the trace shows |
|---|---|---|
| `rollback`, `PromotedIsLive` without `faults = 0` | `PromotedIsLive` | a crash before the deploy: `recoverInterrupted` (stepper.go:126) sends the row to a gate that looks at health only, and it is promoted though it never ran |
| `replicas` with `Owner <- SameOwner` | `MutualExclusion` | replicas with the default instance id (boot.go:76) share a lease: `AcquireLease` grants it to its own owner |
| `replicas` with `LeaseOutlives = FALSE` | `MutualExclusion` | a deploy longer than the two-minute TTL (locks.go:61) runs on after its lease |
| `replicas` with `Home <- SharedHome`, `CanRun <- AbortRace`, checking `PhasesFollowLifecycle` | `PhasesFollowLifecycle` | `holdTarget` (stepper.go:475) loads before it locks, and writes a phase the row has left |
| `watchTicks`, the second world with `"pull"` among its read errors | `ReapsAfterCleanAbsence` | a failed pull (watch.go:261) returns before `observe`, although reap.go:64 has errors reset progress |
| `watchTicks` with `Worlds <- Relocated` | `ReapsUndeclared` | absence is counted by file and deletion selects by target ref: a moved config has its target reaped |
| `watchTicks`, a world with `{loop, hook}` and refusals | `HeldWasRefused` | `Run` notes its outcomes after the lock is released (watch.go:583) and overwrites a later success |
| `delivery`, `PromotedIsShifted` | `PromotedIsShifted` | abort and rollback reset the traffic (stepper.go:462, engine.go:1750) before they store the row (466, 1761): after a crash or a refused write in between, the row is still deploying or verifying, and is stepped on and promoted without its traffic, although engine.go:206 says that such a canary must not be promoted |
| `delivery`, `EverySeriesMeasured` | `EverySeriesMeasured` | max keeps a NaN only if it comes first (analysis.go:55-62), so a series without a number passes behind a healthy one |
| `delivery`, `DeletesNothingForeign` | `DeletesNothingForeign` | two refs that `labelValue` (prune.go:20-30) maps to one label select each other's resources: they prune one another on every apply and never come to rest |
| `delivery`, `ServesWhole` | `ServesWhole` | the binary is hashed, then an install truncates it in place (cli/plugin.go:632), then it is executed: what serves need not be what was verified |
| `delivery`, `EveryCallEnds` | `EveryCallEnds` | `Client.Invoke` (pluginhost/client.go:43-49) has no timeout and its callers' contexts no deadline: a plugin that goes silent once it serves is waited for for ever |
| `delivery`, `SetMeansAsked` | `SetMeansAsked` | builders without a cosign key or identity, and gates without a key, are logged and no verifier is built (boot.go:152-158, 170-178); the daemon starts and ships unverified images, although docs/image-automation.md:229-231 says that they are refused at startup |
| `delivery` with a `"flat"` source | `SuccessIsInPlace` | helm, kustomize and OCI sources are rendered again (kubernetes.go:150-156): a rollback applies what the source is now |
| `delivery`, `FileSuccessIsInPlace` | `FileSuccessIsInPlace` | SSH and FTP believe their stamp (ssh.go:69-83): a payload edited meanwhile is not restored |
| `delivery`, `ShipsVouched` without `OneCommit` or `~ship.dark` | `ShipsVouched` | `buildCommit` (sourcegate.go:285) takes the first statement that names a commit, a refused builder's too, and skips the join when its own read fails |
| `control` with `Setups <- MCMixedSetups` | `ClusterFollowsGit` | one config proposes, the next one pushes: after a failed return to the tracked branch (repo.go:212) the push path commits on the proposal's branch, pushes the unchanged tracked one (repo.go:185) and deploys what it does not carry, although imageauto.go:40-41 says of "bumped" that the tracked branch now carries the bump |
| `control`, `ProposalIsRefreshed` | `ProposalIsRefreshed` | a proposal that already carries the bump is left on its old base (imageauto.go:214), although repo.go:194-196 has a stale head refreshed each call |
| `control`, `MigrationUnpins` | `MigrationUnpins` | a semver policy on a pinned reference keeps or renews the digest (imageauto.go:331-343, 405-427, with a test that says so, imageauto_test.go:207), although docs/image-automation.md:131-132 has the migration strip it and leave `repo:v1.2.3`; `OnlyForward` is what the code and its tests say |
| `control`, `EveryCommandAnswered` | `EveryCommandAnswered` | a mint that GitHub never answers (githubapp.go:76, main.go:484) keeps the mutex, and every git command of the daemon waits behind it |
| `control`, `RejectedStays` | `RejectedStays` | `Approve` decides on the row it loaded before it took the lock (engine.go:1373) and `Reject` takes none (1460): a rollout rejected in between is deployed |

Further consequences of the code that the models show and that are not stated as
properties: a rejected or failed rollout is stored as rolled back under the manifest
that does not run (`StoreRejected`, `StoreFailed`); a hold on the repo's own key
(`PreflightHeld`) returns before a canary in flight is stepped; two daemons, or a
crash before `DeleteSchedule`, fire a schedule twice (main.go:354, engine.go:2048);
a schedule's policy floor sees only the target's ref (engine.go:2068), which is why
`GatedWaits` exempts schedules; a moving tag is resolved again by every call, which
is why `ShipsVouched` speaks of digests; the circuit breaker of `internal/step` is
rebuilt with every target (engine.go:284) and so never opens; `JWKS.Key` serves an
expired key to the call whose own fetch failed (jwks.go:126-131) while those that
waited fetch again, and fetches for an expired cache are not rate limited; who approved
or rejected a rollout is not stored with it, because the upsert (sqlite.go:172-182) never
writes the initiator of a row that exists; `killLaunch` (launch.go:162-171) does not wait
for the leader it kills, which stays a zombie until the daemon ends; a minted token may be
near its end when the mint took nearly its whole life.

Bounds. *Engine*: two manifests tell "this one" from "the other"; a stale copy needs
two rollouts, a prior of a prior three. A one-step plan has every kind of step (first,
last, baking, complete); the theorems cover every length. One fault puts a crash or a
failed write at any single point; recovery has two, so that the recovery is itself
interrupted. Two callers suffice for every pairwise interleaving. *Watcher*: `After =
2` and `HoldFor = 2` separate the first observation, the one that decides, and a hold
that is running from one that is over. *Canary*: two steps that bake for different
times, one that does not bake, one that ends at full weight and a plan without steps;
one hold, one crash, one lost write, of one rollout. *Gates*: limits of none, one and
a negative one, up to three measurements, one or two metrics, all aggregations, an
unknown one included; answers of no, one and two samples, one that is no number first
and behind another. *Artifacts*: two images, two commits, settings with each authority
on and off, one attestation more, one move, one outage. *Targets*: three of a cluster
with prune, reap and both depths of verification, two of which share a label, and a
host; two contents that differ in documents; two attempts, one commit, one fault, one
edit, one rollback. *Plugins*: two callers, four binaries of which each fails another
check, one install, from any kind of source, and one that is cut short. *Images*: two
configs in six setups, five tags on two pages of which one is published later, one
edit, one fault. *Credentials*: two calls, three key sets of which one cannot be read,
a clock as long as the longest life. *Admission*: two daemons, two requests, three
callers, two services, and a scenario for each kind of conflict. Manifests are
interchangeable (`Perms`), except in the liveness run, which uses no symmetry.
`NoHistory` and `NoClearance` drop history variables from the view of runs whose
properties do not read them. Deadlock is checked in the engine's and the watcher's
runs; in `delivery` and `control` a deploy, a verdict or a bounded scenario ends.

Fairness. `RolloutEngine`: a call that has begun goes on, time passes, and the loop's
tick of a row in flight is strongly fair, because `Reconcile` asks `InFlight` first on
every pass and the lock it tries is free again and again. Goroutines are scheduled by
the runtime; that a target's calls return is an assumption on the environment, since
not all of them have a deadline of their own (cluster_kubectl.go:95 has none).
`Watcher`: a tick that has begun goes on, `Run` ticks on every interval, intervals
pass; reading the repo, preflight and each target's rollout succeed some time if they
are tried again and again, which is what "failures that pass" means. `Canary`: a call
runs on, the loop ticks, time passes; operators may do nothing. `Targets`: the watcher
plans on and an apply it began runs to its end. `Plugins`: a launch goes on, because
the handshake, the manifest and the close each have a timeout; a call that a plugin
serves need not end, since `Invoke` has none, and so `Release` is not fair. `Images`:
the loop ticks; checks finish and a proposal that passed them is merged, by auto-merge
or a reviewer, if it is left alone. `Credentials`: goroutines run on, fetches of the
key set time out, and Go's mutex starves nobody (strong fairness of the lock); nothing
says that a mint ends, so the part of `EveryCallAnswered` on git commands has that for
a premise. Nothing else is assumed: neither that a caller starts an operation nor that
Git is quiet, which `Converges` has as a premise.

## Proofs

`RolloutEngineProofs`, for any numbers of callers, replicas, manifests, steps,
rollouts and faults, from `EngineAssumption` (the types of the constants):

- `TypeCorrect`: `Spec => []TypeOK`. `TypeOK` is not inductive: that `Revert` deploys
  a manifest depends on the caller's locals. `TypeInv` adds `Good`: a caller holds
  the id of a stored row unless it is still to create one, a row unless it has yet
  to load one, and a manifest wherever it is about to deploy one.
- `ReplicaExclusion`: within a replica, calls on the target exclude one another,
  whatever happens to the lease. Invariant `LocalLock`: a caller in its critical
  section has its replica's lock and no other caller of the replica is in its own.
- `Exclusion`: `MutualExclusion` of the runs, provided `SafeLeases` (owner ids differ
  and a lease outlives the calls under it). Invariant `LeaseLock`: a caller in its
  critical section owns the lease. Both provisos are needed: `replicas` with `SameOwner`,
  or with `LeaseOutlives = FALSE`, refutes the conclusion.

- `OneCanary`: `AtMostOneCanary`, provided `SafeLeases` and `OneDriver` (the operations
  that act on a canary between its calls are one caller's; any number of others apply,
  approve, reject, verify, promote and fire schedules). `AllAble` says what the
  callers' copies and the rows have to do with each other (`Fits`): a copy with a
  snapshot that may be stored in flight is of a row that bakes, a row a call created
  is as that call left it, and a row that was past its flight when a call read it
  still is. `Unbaked`: nothing bakes while an Apply is between its check of `InFlight`
  and its first snapshot.
- `OneInFlight`: `AtMostOneInFlight`, provided in addition that nothing is scheduled,
  since `applyScheduled` does not ask `InFlight`. `Alone`: what is in flight while an
  Apply is on its way is the row it created.
- `BlockStays`: `BlockedIsSticky`, provided `SafeLeases` and `OneKeeper` (one caller
  works on stored rollouts, the others create them by Apply or from a schedule).
  `AllAgreeOnBlock`: every copy that may be stored agrees with the row on whether
  rollback is blocked.
- `LifecycleFollowed`: `PhasesFollowLifecycle`, provided `OneCaller`, and with no
  proviso on leases. `AllAgreeOnPhase`: the same of the phase. A second caller refutes
  it, even one that only applies: with `CanRun <- TickRace` a tick that loaded the row
  before the other's Apply failed stores a rolled-back rollout as verifying.

- `RestoresBaseline`: `RestoresWhatRan`, provided `LoneLoop` (one caller, which applies,
  ticks and verifies) and `Verified` (every config asks for auto-rollback and the target
  can be diffed, so that `rollbackBaseline` checks every rollout). The property is about
  the order of the rows: `Steady` has that `ListRollouts` is a strict order of the stored
  rows (`Ordered`), that what is in flight is the newest row (`Leads`) and that the loop
  works on the newest row with a copy of it; `Vouched` that the newest row, while it may
  still be rolled back, has for its prior what was live when its baseline was checked.
  `Backed` adds that the loop has the same in hand where it is about to create that row
  or to roll it back.
- `PromotedRuns`: `PromotedIsLive`, provided `LoneLoop`; no proviso on rollbacks is
  needed. `Lives` says that, as long as there was no fault, what is in flight or judged
  by the gate runs on the target unless somebody edited it, but for the points between
  the row and its deploy and between a failure and the store of it.

Nearly every action is shown once to be a `Local` step (types kept, locks untouched,
one caller moved, no entry into the critical section); the lock invariants then look
at `Acquire`, `Release`, `Crash` and `LeaseExpires` only. In the same way each action
is shown once to satisfy `Does` (which rows a step may write, by its locals) and
`Copies` (whether it keeps, drops, loads, creates or stores its copy), and the four
theorems about rows reason about those two.

`WatcherProofs`, for any keys, thresholds, callers and worlds, from
`WatcherAssumption`:

- `TicksAreSerial`: `LockInv` says the lock is taken exactly while one caller is in
  the middle of a tick.
- `CleanReaping`, given that pulls do not fail: `CleanInv` bounds each file's count of
  absences by the history's count of its clean absences, which a failed pull would
  break, and has it zero for a file that is not remembered.
- `UndeclaredReaping`, given `StableHomes` (a config keeps its file): `HomeInv` says
  that what the reaper last saw in a file was declared there by some tree.
- `HoldsAreEarned`, given that `Run` ticks alone or nothing is refused for good:
  `RunKnows` says that what `Run` still has to note agrees with the latest attempt,
  `NothingForGood` that no streak is of the kind that holds.

The three premises are the ones the table of counterexamples breaks.

`DeliveryProofs`. Of `Canary`, for every set of plans and any numbers of crashes,
holds and lost writes, from `CanaryAssumption`. `CanaryInv` has: a call in progress
works on the deploying row, at or after its snapshot (`Working`); what is recorded,
shifted or persisted has passed its gate (`Passing`); the age of the newest step that
passed is never ahead of its bake (`Aged`); traffic and flag are at shares that nobody
set in this rollout or that belong to steps that passed (`Exposed`); and, unless a
rollback or an abort reset the traffic and nothing was shifted since, the last step is
left behind only with its traffic in place (`Shifted`), whichever writes were lost.
From it: `ExposureIsGated`, `ShiftsSurvive`, `BakesAreFull`, and `CanaryRefines`,
whose step lemma maps each action to a step of `Exposure` or a stutter. `Exposure`
takes any sequence of integers as weights. Of `Gates`, for any number of measurements,
any failure limit (a negative one, which the code does not refuse, tolerates as little
as zero), any metrics, thresholds and answers, samples that are no numbers among them,
from `GatesAssumption`: `VerdictsAreEarned`. `GatesInv` relates the counter of the
sampling loop to the measurements that were taken: the newest ones, as many as the
counter says, did not pass, the one before them did, and no longer run of failures has
gone by (`Streak`); the sides of the health check and the smoke test say what was
answered before their gate was decided. That no number hides behind the judged one
needs that `Max` of the numbers of a series is a bound of them (`MaxIsLargest`), which
is proved with a least counterexample among its prefixes, since induction theorems
cannot be instantiated.

`SupplyProofs`. Of `Artifacts`, for any images, attestations and settings:
`VouchedForShips`. The verdicts speak of the moment they were given and the theorem of
the moment of the deploy; `Established` carries each over, because the attachments of
a digest only grow, and `Chained` says which verdicts a ship at its place in the chain
has had.

`TargetsProofs`, for any targets, resources and contents: `StampFollows`,
`SuccessHolds`, `NoForeignDelete`. Nothing is assumed of how labels come about:
`SuccessHolds` speaks of targets that are `Alone` with theirs, and `NoForeignDelete`
(`DeletesOnlyOwn`) of what the targets of another label own. `TargetInv` has
`LabelsOwn` (a labelled resource is owned by one of the targets with that label) and,
per target, `Known` (what a manifest on record says of its rendering), `Working` (an
apply in progress works on the manifest of the newest row of a target that is still
declared) and `Sent` (past the send the documents are out, and in place unless
somebody edited them).

Of `Plugins`, for any users, binaries and policies: `NothingStrays` and
`OnlyAdmittedServes`, which speaks of the manifest that a launch declared, whatever file
it runs, and of the binary where the file is a whole one. `Launched` says at which points
of a call a process group may exist and that what serves declared a manifest the policy
admits, `CheckedFirst` that the checks of an install come
before the installed file is touched.

`CredentialsProofs`, for every life, interval, margin and timeout and any number of
calls and rotations: `CachesStayFresh`. `InTime` bounds a fetch of the key set by its
timeout (a mint is not bounded, and a token that took nearly its own life to mint is
exempt), `Current` says that what a fetch brought was all that was published at a
moment of that fetch, `Cached` the same of the cache up to its expiry; `Right` and
`Justified` are what an answer then means. The history `since` is per kid.

`ImagesProofs`, for any configs, policies, tags and pages and any number of faults,
edits and publications, from `ImagesAssumption`:

- `FollowsGit` and `GoesForward` (`OnlyForward`), provided `Uniform`: the configs of a
  repository all push or all propose. `MCMixedSetups` shows what happens otherwise.
  `ScanInv` types the tick and says what a scan found (`Scanned`). `GitInv`: where
  configs are pushed, HEAD never leaves the tracked branch, and while nobody else moved
  it the local branch and the files are ahead of the remote, the configs still to be
  written as they were loaded (`PushSide`); where they are proposed, the local tracked
  branch has nothing of its own and lags behind the remote (`ProposeSide`); every
  proposal changes references forward (`ProposalsForward`); and what is deployed or was
  loaded, the tracked branch has carried (`Carried`).
- `CurrentIsChecked` (`CurrentIsNewest`), provided `PagesCover`: the registry's list fits
  in the cap on pages (scan.go), beyond which the code stops reading. `Listing`: what was
  published when the scan began and is on a page that was read is listed.

`AdmissionProofs`, for any daemons, requests, callers, services, schedules and files:
`FrozenWaits`, `CriticalWaits`, `SchedulesFire`, `PolicyStaysWhole`, `FailuresWait`.
`Sound` relates a call's locals to the rows and the freeze, `RowSound` says what a
stored row that ran has been through, `Fired` that a schedule missing from the queue
has such a row; `PolicyInv` keeps every daemon's policy among those of files that were
on disk. `FailuresWait` (`FailuresEscalate`) assumes `Escalates`: a service whose
history counts has a limit within its lookback and a weight that brings its score to
the threshold at the limit; the code accepts other settings, under which failures
never escalate. `Weary`: a call whose target had failed up to the limit has yet to be
checked and no record was added since, or it is gated. The lemma under it counts the
newest records of the lookback by cardinality.

Each module's assumption types its constants and says what the code fixes: that the
special values (no file, no label, nobody, no digest) are none of the others, that
the refresh interval of the key set is positive (jwks.go:33), that the policy a daemon
first starts with loads.

Only model-checked: liveness (`InterruptedIsRecovered`, `Converges`, `CanaryEnds`,
`SelfHeals`, `EveryLaunchEnds`, `EveryCallAnswered`, `AdoptsOrConflicts`), which is out of
the prover's reach. Every invariant and every action property of a passing run is stated
by a theorem, under the provisos named above; where a proviso is a condition on the
deployment rather than a type, a counterexample of the tables above shows what happens
without it, or the code has no check for it (`Escalates`, `PagesCover`).

## Not modelled

Text, rendering, transport, the git and gRPC protocols, YAML configuration,
notifications, audit, metrics and read-only views: they keep no state an operation
reads back, or are I/O. Leader election, drift streaks and awaiting counters of the
watcher, whose effect on a target is the engine's mutual exclusion; the store's
encoding and schema migrations; database migration commands of a rollout; CEL
conditions and promotion chains; path confinement and secret resolution, which are
pure checks of one call. Generated code (gRPC) has no behaviour of its own. Data
races on the watcher's maps end the process in Go; the model has only the order of
the accesses.

## What is left

Three hazards listed in `PROJECT.json` have no property of their own: the stamp of an SSH
host that is believed although the payload was edited (ssh.go:70, shown by the
`FileSuccessIsInPlace` row above), `ReapTarget` without a target lock (reap.go:274) and a
leader lease that is not renewed within a tick (watch.go:209). The last two need a module
that composes `Watcher` and `RolloutEngine` over one target. The provisos of the
engine's theorems on who calls are sufficient; which of them could be weaker is open.
