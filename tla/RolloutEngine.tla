----------------------------- MODULE RolloutEngine -----------------------------
(***************************************************************************)
(* The rollout engine of internal/engine: the operations that deploy to one *)
(* target and the rows, lease and in-process lock they share.               *)
(*                                                                          *)
(* One target is modelled: every lock, lease and query of the engine is     *)
(* keyed by the target ref, so targets do not interact here.  A manifest is *)
(* its checksum.  Every operation is a process that stops between two calls *)
(* it makes to the Store, the lock or the target, because other operations, *)
(* other replicas and a crash come in between.                              *)
(***************************************************************************)
EXTENDS Lifecycle, Integers, FiniteSets

CONSTANTS
    Procs,          \* callers: reconcile loop, schedule loop, API handlers
    Instances,      \* replicas of the daemon, each with its own keyedLocks
    Home,           \* the replica a caller runs in
    Owner,          \* the lease owner id of a replica (ROLLOPS_INSTANCE_ID)
    CanRun,         \* the operations each caller performs
    Manifests,      \* the desired states Git or the API may ask for
    None,           \* no manifest
    Foreign,        \* a live state no manifest of rollops describes
    Free,           \* no lease row
    Differ,         \* the target kind implements pt.Differ
    OutOfBand,      \* something other than rollops edits the live state
    LeaseOutlives,  \* the lease TTL is longer than any call that holds it
    AutoModes,      \* values spec.rollback.auto may have in Git
    GateModes,      \* outcomes the risk gate and the policy floor may have
    NSteps,         \* steps of the progressive plan
    MaxRows,        \* bound: rollouts ever created
    MaxFaults       \* bound: crashes of a replica and failed Store writes

Kinds == {"apply", "tick", "pause", "resume", "abort", "approve", "reject",
          "verify", "promote", "rollback", "schedule"}

ASSUME EngineAssumption ==
    /\ Home \in [Procs -> Instances]
    /\ CanRun \in [Procs -> SUBSET Kinds]
    /\ DOMAIN Owner = Instances
    /\ \A i \in Instances : Owner[i] # Free
    /\ None \notin Manifests /\ Foreign \notin Manifests /\ None # Foreign
    /\ Differ \in BOOLEAN /\ OutOfBand \in BOOLEAN /\ LeaseOutlives \in BOOLEAN
    /\ AutoModes \subseteq BOOLEAN /\ GateModes \subseteq BOOLEAN
    /\ NSteps \in Nat \ {0} /\ MaxRows \in Nat \ {0} /\ MaxFaults \in Nat

Ids == 1..MaxRows

VARIABLES
    rows,     \* Store: rollout id -> row
    pos,      \* Store: place of a row in ListRollouts, 0 the newest
    lease,    \* Store: owner of the lease target:<ref>, or Free
    held,     \* per replica: keyedLocks.held[ref]
    live,     \* the state running on the target
    queue,    \* Store: scheduled manifests that are due
    op,       \* per caller: the operation it is in the middle of
    faults,   \* crashes and failed Store writes so far
    cleared,  \* history: manifests that passed the gate or were approved
    ran       \* history: id -> what was live just before the row's deploy

vars == <<rows, pos, lease, held, live, queue, op, faults, cleared, ran>>
store == <<rows, pos>>
locks == <<lease, held>>
history == <<cleared, ran>>

(***************************************************************************)
(* Rows and the queries on them.                                            *)
(***************************************************************************)

\* snap is the step the StepperSnap resumes at, 0 when there is no snapshot;
\* step is StepIndex; blocked is RollbackBlocked # "".
Row == [phase : Phases, desired : Manifests, blocked : BOOLEAN,
        snap : 0..NSteps, step : 0..NSteps]

NewRow(phase, m) == [phase |-> phase, desired |-> m, blocked |-> FALSE, snap |-> 0, step |-> 0]
NoRow == NewRow("none", None)

Exists(i) == rows[i].phase # "none"
Created == {i \in Ids : Exists(i)}
InFlightPhase == {"deploying", "paused"}
InFlight == {i \in Ids : rows[i].phase \in InFlightPhase}

\* ListRollouts is ordered by updated_at, newest first: its first row in S.
Newest(S) == CHOOSE i \in S : \A j \in S : pos[i] <= pos[j]

\* SaveRollout: upsert of the whole row, which becomes the newest and moves the
\* rows that were before it, all of them if it is new, one place down.
Save(id, r) ==
    /\ rows' = [rows EXCEPT ![id] = r]
    /\ pos' = [j \in Ids |->
                  IF j = id THEN 0
                  ELSE IF Exists(j) /\ (Exists(id) => pos[j] < pos[id]) THEN pos[j] + 1
                  ELSE pos[j]]

\* priorManifestErr: the newest row of any phase for another checksum.
Priors(m) == {i \in Created : rows[i].desired # m}
Prior(m) == rows[Newest(Priors(m))].desired

\* Mutant of BaselineDiffers: the recorded prior is trusted unseen.
TrustBaseline(m) == FALSE

\* rollbackBaseline: the recorded prior differs from live.  A target that
\* cannot diff is trusted.
BaselineDiffers(m) == Priors(m) # {} /\ Differ /\ live # Prior(m)

(***************************************************************************)
(* Callers.  An idle caller holds no locals; the locals of an operation are *)
(* the row it loaded, the manifest it means to apply and its step cursor;   *)
(* base is history, the live state its baseline check saw.                  *)
(***************************************************************************)
PCs == {"idle", "acquire", "locked", "baseline", "create", "deploy", "record",
        "drive", "advance", "fail", "error", "revert", "reverted", "approve",
        "approved", "fire", "fired", "release", "unschedule", "gates",
        "tickLoad", "promoteLoad", "promoteSave", "rollbackLoad", "reject",
        "finalize"}

\* The program points between acquireTarget and the deferred release.
Holding == {"locked", "baseline", "create", "deploy", "record", "drive",
            "advance", "fail", "error", "revert", "reverted", "approve",
            "approved", "fire", "fired", "release"}

Op == [kind : Kinds \cup {"none"}, pc : PCs, id : 0..MaxRows, row : Row \cup {NoRow},
       m : Manifests \cup {None}, auto : BOOLEAN, k : 0..NSteps,
       base : Manifests \cup {Foreign, None}]

Idle == [kind |-> "none", pc |-> "idle", id |-> 0, row |-> NoRow, m |-> None,
         auto |-> FALSE, k |-> 0, base |-> None]

InCS(p) == op[p].pc \in Holding

At(p, kind, pc) == op[p].kind = kind /\ op[p].pc = pc
Goto(p, pc) == op' = [op EXCEPT ![p].pc = pc]
Return(p) == op' = [op EXCEPT ![p] = Idle]
Begin(p, kind, o) ==
    /\ op[p].pc = "idle" /\ kind \in CanRun[p]
    /\ op' = [op EXCEPT ![p] = o]

\* Store the caller's row and return through the deferred release.
SaveAndRelease(p, r) ==
    /\ Save(op[p].id, r)
    /\ op' = [op EXCEPT ![p].pc = "release", ![p].row = r]

\* Mutant of RolledBack: the row is reset before it is stored.
RolledBackReset(r) == [r EXCEPT !.phase = "rolledback", !.blocked = FALSE]

RolledBack(r) == [r EXCEPT !.phase = "rolledback"]

Init ==
    /\ rows = [i \in Ids |-> NoRow]
    /\ pos = [i \in Ids |-> 0]
    /\ lease = Free
    /\ held = [i \in Instances |-> FALSE]
    /\ live = Foreign
    /\ queue = {}
    /\ op = [p \in Procs |-> Idle]
    /\ faults = 0
    /\ cleared = {}
    /\ ran = [i \in Ids |-> None]

(***************************************************************************)
(* acquireTarget and the deferred release.                                  *)
(***************************************************************************)

\* Mutant of CanAcquire: only the in-process lock is tried.
CanAcquireLocally(i) == ~held[i]

\* Both locks are tried without waiting; a contended one is ErrTargetBusy.
\* AcquireLease takes an absent lease or one the replica's own id already has.
CanAcquire(i) == ~held[i] /\ lease \in {Free, Owner[i]}

Acquire(p) ==
    LET i == Home[p] IN
    /\ op[p].pc = "acquire"
    /\ IF CanAcquire(i)
       THEN /\ held' = [held EXCEPT ![i] = TRUE]
            /\ lease' = Owner[i]
            /\ Goto(p, "locked")
       ELSE Return(p) /\ UNCHANGED locks
    /\ UNCHANGED <<store, live, queue, faults, history>>

\* ReleaseLease deletes the lease only while the replica's id still owns it.
\* What follows the return: FireDueSchedules removes a schedule that fired, and
\* the reconcile loop takes a rollout that reached verifying to its gate.
AfterRelease(p) ==
    LET verifying == op[p].row.phase = "verifying"
        kind == op[p].kind
    IN  CASE verifying /\ kind = "schedule" -> Goto(p, "unschedule")
          [] verifying /\ kind \in {"apply", "tick"} /\ "verify" \in CanRun[p] ->
                 op' = [op EXCEPT ![p].kind = "verify", ![p].pc = "finalize"]
          [] OTHER -> Return(p)

Release(p) ==
    LET i == Home[p] IN
    /\ op[p].pc = "release"
    /\ held' = [held EXCEPT ![i] = FALSE]
    /\ lease' = IF lease = Owner[i] THEN Free ELSE lease
    /\ AfterRelease(p)
    /\ UNCHANGED <<store, live, queue, faults, history>>

(***************************************************************************)
(* Apply.                                                                   *)
(***************************************************************************)

\* The agent plan check, guardrails, risk gate and governance come before the
\* lock.  Refusal changes nothing; otherwise they settle needsApproval.
StartApply(p) ==
    \E m \in Manifests, gated \in GateModes, auto \in AutoModes :
        LET c == [planProduced |-> TRUE, needsApproval |-> gated]
            r == NewRow(Send(c, "validating", "GATE"), m)
        IN  /\ Begin(p, "apply", [Idle EXCEPT !.kind = "apply", !.pc = "acquire",
                                              !.row = r, !.m = m, !.auto = auto])
            /\ UNCHANGED <<store, locks, live, queue, faults, history>>

\* Mutant of ApplyInFlight: the lock is taken for occupancy.
ApplyOverInFlight(p) ==
    /\ At(p, "apply", "locked")
    /\ Created # Ids /\ Goto(p, "baseline")
    /\ UNCHANGED <<store, locks, live, queue, faults, history>>

\* A deploying or paused row refuses the apply.  A render, secret, build or
\* artifact error returns as well.
ApplyInFlight(p) ==
    /\ At(p, "apply", "locked")
    /\ \/ InFlight = {} /\ Created # Ids /\ Goto(p, "baseline")
       \/ Goto(p, "release")
    /\ UNCHANGED <<store, locks, live, queue, faults, history>>

\* rollbackBaseline, only when the config asks for auto-rollback.  A store,
\* build or diff error blocks it too.
ApplyBaseline(p) ==
    /\ At(p, "apply", "baseline")
    /\ \E blocked \in IF op[p].auto THEN {TRUE, BaselineDiffers(op[p].m)} ELSE {FALSE} :
           op' = [op EXCEPT ![p].pc = "create", ![p].row.blocked = blocked, ![p].base = live]
    /\ UNCHANGED <<store, locks, live, queue, faults, history>>

FreshId == CHOOSE i \in Ids \ Created : \A j \in Ids \ Created : i <= j

\* The row is stored deploying, or awaiting approval and the call halts.
ApplyCreate(p) ==
    LET r == op[p].row IN
    /\ At(p, "apply", "create")
    /\ Created # Ids
    /\ Save(FreshId, r)
    /\ IF r.phase = "awaiting"
       THEN /\ op' = [op EXCEPT ![p].pc = "release", ![p].id = FreshId]
            /\ UNCHANGED history
       ELSE /\ op' = [op EXCEPT ![p].pc = "deploy", ![p].id = FreshId]
            /\ cleared' = cleared \cup {r.desired}
            /\ ran' = [ran EXCEPT ![FreshId] = op[p].base]
    /\ UNCHANGED <<locks, live, queue, faults>>

\* tgt.Apply of m: on success live is m, on error it may or may not be.
Deployed(p, m, ok, bad) ==
    \/ live' = m /\ Goto(p, ok)
    \/ live' \in {live, m} /\ Goto(p, bad)

\* deployOnce, then NewStepper enters step 1, whose entry gate is a health check.
ApplyDeploy(p) ==
    /\ At(p, "apply", "deploy")
    /\ \/ live' = op[p].m /\ op' = [op EXCEPT ![p].pc = "record", ![p].k = 1]
       \/ live' \in {live, op[p].m} /\ Goto(p, "fail")
    /\ UNCHANGED <<store, locks, queue, faults, history>>

(***************************************************************************)
(* driveStepper, shared by Apply and Tick: k is the stepper's cursor.       *)
(***************************************************************************)

\* recordStep persists StepIndex, then shifts traffic, whose failure fails the
\* rollout.
RecordStep(p) ==
    LET r == [op[p].row EXCEPT !.step = op[p].k] IN
    /\ op[p].pc = "record"
    /\ Save(op[p].id, r)
    /\ \E pc \in {"drive", "fail"} : op' = [op EXCEPT ![p].pc = pc, ![p].row = r]
    /\ UNCHANGED <<locks, live, queue, faults, history>>

\* The pause of step k has not elapsed: persist the snapshot, stay deploying.
Bake(p) ==
    /\ op[p].pc = "drive"
    /\ SaveAndRelease(p, [op[p].row EXCEPT !.snap = op[p].k])
    /\ UNCHANGED <<locks, live, queue, faults, history>>

\* Mutant of AdvanceStep: the last step is passed by one.
AdvancePastLast(p) ==
    /\ op[p].pc \in {"drive", "advance"}
    /\ op[p].k <= NSteps
    /\ op' = [op EXCEPT ![p].pc = "record", ![p].k = op[p].k + 1]
    /\ UNCHANGED <<store, locks, live, queue, faults, history>>

\* The pause of step k is over: enter step k+1 behind its health gate, or
\* complete after the last one and store the row verifying.
AdvanceStep(p) ==
    LET k == op[p].k IN
    /\ op[p].pc \in {"drive", "advance"}
    /\ \/ /\ k < NSteps
          /\ \/ op' = [op EXCEPT ![p].pc = "record", ![p].k = k + 1]
             \/ Goto(p, "fail")
          /\ UNCHANGED store
       \/ /\ k = NSteps
          /\ SaveAndRelease(p, [op[p].row EXCEPT !.snap = k,
                                !.phase = Send(Resumed, op[p].row.phase, "DEPLOYED")])
    /\ UNCHANGED <<locks, live, queue, faults, history>>

\* failProgressive: auto-rollback to the prior manifest when the config asks
\* for it and it is not blocked.  A prior that cannot be read counts as none.
Fail(p) ==
    LET r == op[p].row IN
    /\ op[p].pc = "fail"
    /\ \/ /\ op[p].auto /\ ~r.blocked /\ Priors(r.desired) # {}
          /\ op' = [op EXCEPT ![p].pc = "revert", ![p].m = Prior(r.desired)]
       \/ Goto(p, "error")
    /\ UNCHANGED <<store, locks, live, queue, faults, history>>

\* The failed deploy is stored as rolled back, its Desired left as it was.
StoreFailed(p) ==
    /\ op[p].pc = "error"
    /\ SaveAndRelease(p, RolledBack(op[p].row))
    /\ UNCHANGED <<locks, live, queue, faults, history>>

\* applyRollback re-applies the manifest m.  When that fails, a failing deploy
\* goes on to be marked rolled back and every other caller returns the error.
Revert(p) ==
    /\ op[p].pc = "revert"
    /\ Deployed(p, op[p].m, "reverted",
                IF op[p].kind \in {"apply", "tick"} THEN "error" ELSE "release")
    /\ UNCHANGED <<store, locks, queue, faults, history>>

\* The reverted row takes the restored manifest as its Desired.  The reverse
\* database command may fail: the row is stored all the same.
StoreReverted(p) ==
    /\ op[p].pc = "reverted"
    /\ SaveAndRelease(p, [RolledBack(op[p].row) EXCEPT !.desired = op[p].m])
    /\ UNCHANGED <<locks, live, queue, faults, history>>

(***************************************************************************)
(* Tick and the operator controls.  Each loads the row, then takes the      *)
(* lock, and then works on the row it loaded.                               *)
(***************************************************************************)

\* LoadRollout followed by acquireTarget: holdTarget, and the head of Approve.
LoadThenLock(p, kind, id) ==
    /\ Exists(id)
    /\ Begin(p, kind, [Idle EXCEPT !.kind = kind, !.pc = "acquire", !.id = id,
                                   !.row = rows[id]])
    /\ UNCHANGED <<store, locks, live, queue, faults, history>>

\* Reconcile finds the row in flight (or a one-shot command drives its own).
StartTick(p) ==
    \E id \in InFlight, auto \in AutoModes :
        /\ Begin(p, "tick", [Idle EXCEPT !.kind = "tick", !.pc = "tickLoad", !.id = id,
                                         !.row = rows[id], !.auto = auto])
        /\ UNCHANGED <<store, locks, live, queue, faults, history>>

\* Tick loads the row and goes on only if it is deploying.  A row that has left
\* flight since it was found is returned as it is, and Reconcile finalizes it.
TickLoad(p) ==
    LET r == rows[op[p].id] IN
    /\ op[p].pc = "tickLoad"
    /\ IF r.phase = "deploying"
       THEN op' = [op EXCEPT ![p].pc = "acquire", ![p].row = r]
       ELSE IF r.phase # "paused" /\ "verify" \in CanRun[p]
       THEN op' = [op EXCEPT ![p].pc = "finalize", ![p].kind = "verify", ![p].row = r]
       ELSE Return(p)
    /\ UNCHANGED <<store, locks, live, queue, faults, history>>

StartControl(p) ==
    \E id \in Ids, kind \in {"pause", "resume", "abort", "approve"} :
        LoadThenLock(p, kind, id)

\* recoverInterrupted: no snapshot, or one that cannot be decoded or restored, so
\* progress is unknown; the rollout goes to the post-deploy gate with its rollback
\* blocked.
Recovered(r) == [r EXCEPT !.phase = "verifying", !.blocked = TRUE]

\* Mutant of TickRecover: a rollout without a snapshot is left for later.
TickSkips(p) ==
    /\ At(p, "tick", "locked")
    /\ Goto(p, "release")
    /\ UNCHANGED <<store, locks, live, queue, faults, history>>

TickRecover(p) ==
    /\ At(p, "tick", "locked")
    /\ SaveAndRelease(p, Recovered(op[p].row))
    /\ UNCHANGED <<locks, live, queue, faults, history>>

\* With a snapshot: a pause that has not elapsed is a health check and no more
\* (a secret or build error returns too); otherwise the stepper is driven on.
TickStep(p) ==
    LET k == op[p].row.snap IN
    /\ At(p, "tick", "locked") /\ k > 0
    /\ \/ Goto(p, "release")
       \/ Goto(p, "fail")
       \/ op' = [op EXCEPT ![p].k = k,
                           ![p].pc = IF op[p].row.step = k THEN "advance" ELSE "record"]
    /\ UNCHANGED <<store, locks, live, queue, faults, history>>

\* Pause and Resume need the phase they leave and a snapshot to restore.
PauseOrResume(p) ==
    LET r == op[p].row
        event == IF op[p].kind = "pause" THEN "PAUSE" ELSE "RESUME"
    IN  /\ op[p].kind \in {"pause", "resume"} /\ op[p].pc = "locked"
        /\ IF r.snap > 0 /\ Accepts(Resumed, r.phase, event)
           THEN SaveAndRelease(p, [r EXCEPT !.phase = Send(Resumed, r.phase, event)])
           ELSE Goto(p, "release") /\ UNCHANGED store
        /\ UNCHANGED <<locks, live, queue, faults, history>>

\* Abort drops the snapshot and re-applies the prior manifest, unless rollback
\* is blocked or none can be read: then only the row is marked.
Abort(p) ==
    LET r == [op[p].row EXCEPT !.snap = 0] IN
    /\ At(p, "abort", "locked")
    /\ \/ /\ r.phase \notin InFlightPhase
          /\ Goto(p, "release") /\ UNCHANGED store
       \/ /\ r.phase \in InFlightPhase /\ ~r.blocked /\ Priors(r.desired) # {}
          /\ op' = [op EXCEPT ![p].pc = "revert", ![p].row = r, ![p].m = Prior(r.desired)]
          /\ UNCHANGED store
       \/ /\ r.phase \in InFlightPhase
          /\ SaveAndRelease(p, RolledBack(r))
    /\ UNCHANGED <<locks, live, queue, faults, history>>

\* The four-eyes check before the lock and the guardrails after it may refuse;
\* a row that was not awaiting when loaded is refused by the statechart.
ApproveLocked(p) ==
    LET r == op[p].row IN
    /\ At(p, "approve", "locked")
    /\ \/ Goto(p, "release") /\ UNCHANGED history
       \/ /\ Accepts(Resumed, r.phase, "APPROVE")
          /\ Goto(p, "approve")
          /\ cleared' = cleared \cup {r.desired}
          /\ ran' = [ran EXCEPT ![op[p].id] = live]
    /\ UNCHANGED <<store, locks, live, queue, faults>>

\* tgt.Apply(r.Desired): no in-flight check, no stepper.
ApproveDeploy(p) ==
    /\ op[p].pc = "approve"
    /\ Deployed(p, op[p].row.desired, "approved", "error")
    /\ UNCHANGED <<store, locks, queue, faults, history>>

ApproveStore(p) ==
    LET deploying == Send(Resumed, op[p].row.phase, "APPROVE") IN
    /\ op[p].pc = "approved"
    /\ SaveAndRelease(p, [op[p].row EXCEPT !.phase = Send(Resumed, deploying, "DEPLOYED")])
    /\ UNCHANGED <<locks, live, queue, faults, history>>

\* Reject loads and saves and takes no lock.
StartReject(p) ==
    \E id \in Ids :
        /\ Accepts(Resumed, rows[id].phase, "REJECT")
        /\ Begin(p, "reject", [Idle EXCEPT !.kind = "reject", !.pc = "reject",
                                           !.id = id, !.row = rows[id]])
        /\ UNCHANGED <<store, locks, live, queue, faults, history>>

StoreRejected(p) ==
    /\ op[p].pc = "reject"
    /\ Save(op[p].id, RolledBack(op[p].row))
    /\ Return(p)
    /\ UNCHANGED <<locks, live, queue, faults, history>>

(***************************************************************************)
(* The post-deploy gate, manual promote and manual rollback.                *)
(***************************************************************************)

\* Reconciler.finalize reads the prior manifest (the row's own when there is no
\* other) and VerifyOrRollback loads the row, before the gates run.  The plan, the
\* prior or the row may be unreadable: the call returns and the row stays as it is.
Finalize(p) ==
    LET id == op[p].id
        d == op[p].row.desired
        m == IF Priors(d) = {} THEN d ELSE Prior(d)
    IN  /\ op[p].pc = "finalize"
        /\ \/ op' = [op EXCEPT ![p].pc = "gates", ![p].row = rows[id], ![p].m = m]
           \/ Return(p)
        /\ UNCHANGED <<store, locks, live, queue, faults, history>>

\* stuckVerifying: nothing is in flight, live and desired agree, and the newest
\* row is still verifying that state.
StartVerify(p) ==
    /\ InFlight = {} /\ Created # {}
    /\ LET id == Newest(Created) IN
       /\ rows[id].phase = "verifying" /\ rows[id].desired = live
       /\ \E auto \in AutoModes :
              Begin(p, "verify", [Idle EXCEPT !.kind = "verify", !.pc = "finalize", !.id = id,
                                              !.row = rows[id], !.auto = auto])
    /\ UNCHANGED <<store, locks, live, queue, faults, history>>

\* Health, smoke and analysis pass, or the first failure decides: roll back
\* when auto and not blocked, otherwise the rollout stays verifying.
Gates(p) ==
    /\ op[p].pc = "gates"
    /\ \/ Goto(p, "promoteLoad")
       \/ IF op[p].auto /\ ~op[p].row.blocked THEN Goto(p, "rollbackLoad") ELSE Return(p)
    /\ UNCHANGED <<store, locks, live, queue, faults, history>>

\* Promote of any row whose gates pass or are forced.
StartPromote(p) ==
    \E id \in Ids :
        /\ Exists(id)
        /\ Begin(p, "promote", [Idle EXCEPT !.kind = "promote", !.pc = "promoteLoad", !.id = id])
        /\ UNCHANGED <<store, locks, live, queue, faults, history>>

\* Mutant of PromoteLoad: the statechart is not asked.
PromoteUnasked(p) ==
    /\ op[p].pc = "promoteLoad"
    /\ op' = [op EXCEPT ![p].pc = "promoteSave",
                        ![p].row = [rows[op[p].id] EXCEPT !.phase = "promoted"]]
    /\ UNCHANGED <<store, locks, live, queue, faults, history>>

\* promoteWithNote: load again, then save, and no lock in between.
PromoteLoad(p) ==
    LET r == rows[op[p].id] IN
    /\ op[p].pc = "promoteLoad"
    /\ IF Accepts(Resumed, r.phase, "VERIFY_OK")
       THEN op' = [op EXCEPT ![p].pc = "promoteSave",
                             ![p].row = [r EXCEPT !.phase = Send(Resumed, r.phase, "VERIFY_OK")]]
       ELSE Return(p)
    /\ UNCHANGED <<store, locks, live, queue, faults, history>>

\* A failing post-promote migration stores the promoted row all the same.
PromoteSave(p) ==
    /\ op[p].pc = "promoteSave"
    /\ Save(op[p].id, op[p].row)
    /\ Return(p)
    /\ UNCHANGED <<locks, live, queue, faults, history>>

\* RollbackLast: the newest row and the prior of its manifest; a blocked row
\* needs force.
StartRollback(p) ==
    /\ Created # {}
    /\ LET id == Newest(Created)
           d == rows[id].desired
       IN  \E force \in BOOLEAN :
              /\ Priors(d) # {} /\ (rows[id].blocked => force)
              /\ Begin(p, "rollback", [Idle EXCEPT !.kind = "rollback", !.id = id,
                                       !.pc = "rollbackLoad", !.m = Prior(d)])
    /\ UNCHANGED <<store, locks, live, queue, faults, history>>

\* rollbackWithDatabase: load, then acquireTarget.
RollbackLoad(p) ==
    /\ op[p].pc = "rollbackLoad"
    /\ op' = [op EXCEPT ![p].pc = "acquire", ![p].row = rows[op[p].id]]
    /\ UNCHANGED <<store, locks, live, queue, faults, history>>

\* The statechart refuses some phases, and without force the gate on
\* migrations that are not backward compatible refuses too.
RollbackLocked(p) ==
    /\ op[p].kind \in {"verify", "rollback"} /\ op[p].pc = "locked"
    /\ \/ Accepts(Resumed, op[p].row.phase, "ROLLBACK") /\ Goto(p, "revert")
       \/ Goto(p, "release")
    /\ UNCHANGED <<store, locks, live, queue, faults, history>>

(***************************************************************************)
(* Scheduled rollouts.                                                      *)
(***************************************************************************)

\* Schedule queues a manifest whose gate was decided then; it falls due.
Schedule ==
    /\ \E p \in Procs : "schedule" \in CanRun[p]
    /\ \E m \in Manifests \ queue :
           queue' = queue \cup {m} /\ cleared' = cleared \cup {m}
    /\ UNCHANGED <<store, locks, live, op, faults, ran>>

StartScheduled(p) ==
    \E m \in queue :
        /\ Begin(p, "schedule", [Idle EXCEPT !.kind = "schedule", !.pc = "acquire",
                                             !.row = NewRow("deploying", m), !.m = m])
        /\ UNCHANGED <<store, locks, live, queue, faults, history>>

\* applyScheduled: guardrails may refuse; there is no in-flight check.
ScheduledCreate(p) ==
    /\ At(p, "schedule", "locked")
    /\ \/ Goto(p, "release") /\ UNCHANGED <<store, ran>>
       \/ /\ Created # Ids
          /\ Save(FreshId, op[p].row)
          /\ op' = [op EXCEPT ![p].pc = "fire", ![p].id = FreshId]
          /\ ran' = [ran EXCEPT ![FreshId] = live]
    /\ UNCHANGED <<locks, live, queue, faults, cleared>>

ScheduledDeploy(p) ==
    /\ op[p].pc = "fire"
    /\ Deployed(p, op[p].m, "fired", "error")
    /\ UNCHANGED <<store, locks, queue, faults, history>>

ScheduledStore(p) ==
    /\ op[p].pc = "fired"
    /\ SaveAndRelease(p, [op[p].row EXCEPT !.phase = "verifying"])
    /\ UNCHANGED <<locks, live, queue, faults, history>>

\* DeleteSchedule, once the lock is released; a failed firing stays queued.
Unschedule(p) ==
    /\ op[p].pc = "unschedule"
    /\ queue' = queue \ {op[p].m}
    /\ Return(p)
    /\ UNCHANGED <<store, locks, live, faults, history>>

(***************************************************************************)
(* The environment: crash of a replica, lease expiry, edits of the target.  *)
(***************************************************************************)

\* A write the Store refuses: the operation returns the error with nothing
\* stored, except that recordStep goes on regardless.
SavePoints == {"locked", "create", "record", "drive", "advance", "error", "reverted",
               "approved", "fired", "unschedule", "reject", "promoteSave"}

StoreError(p) ==
    /\ op[p].pc \in SavePoints
    /\ faults < MaxFaults
    /\ faults' = faults + 1
    /\ CASE op[p].pc = "record" ->
              op' = [op EXCEPT ![p].pc = "drive", ![p].row = [op[p].row EXCEPT !.step = op[p].k]]
         [] op[p].pc # "record" /\ InCS(p) -> Goto(p, "release")
         [] ~InCS(p) -> Return(p)
    /\ UNCHANGED <<store, locks, live, queue, history>>

\* The in-process lock dies with the replica; the lease row stays.
Crash(i) ==
    /\ faults < MaxFaults
    /\ faults' = faults + 1
    /\ op' = [p \in Procs |-> IF Home[p] = i THEN Idle ELSE op[p]]
    /\ held' = [held EXCEPT ![i] = FALSE]
    /\ UNCHANGED <<store, lease, live, queue, history>>

\* The TTL passes.  Calls do not renew the lease, so unless LeaseOutlives a
\* call can still be running under it.
LeaseExpires ==
    /\ lease # Free
    /\ LeaseOutlives => \A p \in Procs : InCS(p) => Owner[Home[p]] # lease
    /\ lease' = Free
    /\ UNCHANGED <<store, held, live, queue, op, faults, history>>

EditTarget ==
    /\ OutOfBand /\ live # Foreign
    /\ live' = Foreign
    /\ UNCHANGED <<store, locks, queue, op, faults, history>>

Starts(p) ==
    \/ StartApply(p) \/ StartTick(p) \/ StartControl(p) \/ StartReject(p)
    \/ StartVerify(p) \/ StartPromote(p) \/ StartRollback(p) \/ StartScheduled(p)

Continues(p) ==
    \/ Acquire(p) \/ Release(p)
    \/ ApplyInFlight(p) \/ ApplyBaseline(p) \/ ApplyCreate(p) \/ ApplyDeploy(p)
    \/ RecordStep(p) \/ Bake(p) \/ AdvanceStep(p)
    \/ Fail(p) \/ StoreFailed(p) \/ Revert(p) \/ StoreReverted(p)
    \/ TickLoad(p) \/ TickRecover(p) \/ TickStep(p) \/ PauseOrResume(p) \/ Abort(p)
    \/ ApproveLocked(p) \/ ApproveDeploy(p) \/ ApproveStore(p) \/ StoreRejected(p)
    \/ Finalize(p) \/ Gates(p) \/ PromoteLoad(p) \/ PromoteSave(p)
    \/ RollbackLoad(p) \/ RollbackLocked(p)
    \/ ScheduledCreate(p) \/ ScheduledDeploy(p) \/ ScheduledStore(p) \/ Unschedule(p)

Next ==
    \/ \E p \in Procs : Starts(p) \/ Continues(p) \/ StoreError(p)
    \/ \E i \in Instances : Crash(i)
    \/ Schedule \/ LeaseExpires \/ EditTarget

Spec == Init /\ [][Next]_vars

\* A call that has begun runs to its end unless its replica crashes, the
\* reconcile loop ticks whatever is in flight on every pass (Reconcile asks
\* InFlight before anything else), and time passes.
Fairness ==
    /\ \A p \in Procs : WF_vars(Continues(p)) /\ SF_vars(StartTick(p))
    /\ WF_vars(LeaseExpires)

FairSpec == Spec /\ Fairness

(***************************************************************************)
(* Properties.                                                              *)
(***************************************************************************)

\* The variables have their types: in particular every stored rollout names a
\* manifest and a phase of the statechart, and only manifests are ever deployed.
TypeOK ==
    /\ rows \in [Ids -> Row \cup {NoRow}]
    /\ pos \in [Ids -> Nat]
    /\ lease \in {Free} \cup {Owner[i] : i \in Instances}
    /\ held \in [Instances -> BOOLEAN]
    /\ live \in Manifests \cup {Foreign}
    /\ queue \subseteq Manifests
    /\ op \in [Procs -> Op]
    /\ faults \in 0..MaxFaults
    /\ cleared \subseteq Manifests
    /\ ran \in [Ids -> Manifests \cup {Foreign, None}]

\* Two operations are never both between acquireTarget and its release, in one
\* replica or in two (locks.go: "Two rollouts never touch the same target
\* concurrently").
MutualExclusion == \A p, q \in Procs : InCS(p) /\ InCS(q) => p = q

\* At most one rollout of the target is deploying or paused: the occupancy that
\* Apply's InFlight check protects between the calls of a canary.
AtMostOneInFlight == \A i, j \in InFlight : i = j

\* At most one canary with a stepper snapshot is in flight, whatever else a
\* scheduled rollout or an interrupted call leaves deploying.
AtMostOneCanary == \A i, j \in InFlight : rows[i].snap > 0 /\ rows[j].snap > 0 => i = j

\* The phase stored for a rollout only moves forward along the statechart; no
\* writer takes a settled rollout back (lifecycle.go: "an illegal transition is
\* rejected loudly").
PhasesFollowLifecycle ==
    [][\A i \in Ids : Exists(i) => PhaseMayBecome(rows[i].phase, rows'[i].phase)]_vars

\* Once rollback of a rollout is blocked it stays blocked: no later save of the
\* row puts the unverified baseline back in reach of an auto-rollback.
BlockedIsSticky ==
    [][\A i \in Ids : rows[i].blocked => rows'[i].blocked]_vars

\* An automatic rollback re-applies what was live when the rollout's baseline
\* was checked, or, with no other manifest on record, the rollout's own.
RestoresWhatRan ==
    \A p \in Procs :
        op[p].pc = "revert" /\ op[p].kind \in {"apply", "tick", "verify"} =>
            op[p].m \in {ran[op[p].id], op[p].row.desired}

\* When no call is running, a newest rollout that is promoted is what runs on
\* the target, unless something else edited it; as long as no call crashed or
\* lost a write, after which the next drift check has to find out.
PromotedIsLive ==
    (faults = 0 /\ Created # {} /\ \A p \in Procs : op[p].pc = "idle") =>
        LET r == rows[Newest(Created)] IN
        r.phase = "promoted" => live \in {r.desired, Foreign}

\* A canary that is baking between two calls is what runs on the target: no
\* other rollout deploys over it (docs/multi-instance.md: "another daemon or
\* one-shot command does not deploy over an active rollout").
CanaryOwnsTarget ==
    (\A p \in Procs : ~InCS(p)) =>
        \A i \in InFlight : rows[i].snap > 0 => live \in {rows[i].desired, Foreign}

\* What runs on the target was deployed by the gate's leave: its manifest was
\* cleared by the risk gate, by an approval or when it was scheduled (Apply:
\* "the rollout halts at awaiting-approval and the target is not touched").
OnlyClearedRuns == live \in cleared \cup {Foreign}

\* A rollout left deploying without a snapshot by a crash does not occupy the
\* target for ever: once callers other than the reconcile loop leave the target
\* alone, some tick takes it out of deploying, even when the crashed replica
\* left its lease behind.
Interrupted(i) == rows[i].phase = "deploying" /\ rows[i].snap = 0
OnlyReconciling == \A p \in Procs : op[p].pc # "idle" => "tick" \in CanRun[p]
InterruptedIsRecovered ==
    <>[]OnlyReconciling => \A i \in Ids : Interrupted(i) ~> ~Interrupted(i)

\* recoverInterrupted only ever takes a rollout that has no snapshot: a canary
\* that has recorded its progress keeps it (stepper.go: "only a free lease
\* proves nothing is mid-flight").
RecoversOnlyInterrupted ==
    [][\A p \in Procs : At(p, "tick", "locked") /\ op[p].row.snap = 0 /\ rows' # rows
                            => rows[op[p].id].snap = 0]_vars

================================================================================
