------------------------------- MODULE Canary -------------------------------
(***************************************************************************)
(* Progressive delivery of one target: the step machine of                  *)
(* internal/progressive, the driver of internal/engine/stepper.go that      *)
(* restores it from the rollout's row on every tick, and the traffic router *)
(* and feature flag each step moves.  A call of the engine runs from its     *)
(* first action to the one that makes `drive' idle again; calls exclude one  *)
(* another here (RolloutEngine has their interleavings), but a crash may     *)
(* end one anywhere.  The health of the target, the router and the flag      *)
(* service answer as they like.  Time is the age of a step's bake, counted   *)
(* up to the longest pause.                                                  *)
(***************************************************************************)
EXTENDS Integers, Sequences, FiniteSetsExt, SequencesExt

CONSTANTS Strategies,      \* the strategies a config may name: [type, steps]
          FlagsWhen,       \* featureFlags.when: "none", "both", "step" or "promote"
          MaxRollouts,     \* rollouts of the target, one after the other
          MaxHolds,        \* times operators pause
          MaxCrashes,      \* crashes
          MaxLost          \* writes of the row that fail

VARIABLES plan,      \* the resolved plan, persisted with the snapshot
          canary,    \* the rollout's row
          drive,     \* the call in progress and its copy of the row
          traffic,   \* the share of traffic the router sends to the canary
          flag,      \* the percentage of the coupled feature flag
          passed,    \* history: steps of this rollout that passed their gate
          baked,     \* history: time since the last of them passed, or since Resume
          before,    \* history: [traffic, flag] when this rollout began
          undone,    \* history: a rollback reset the traffic and no shift came since
          counts     \* rollouts, holds, crashes and lost writes so far

canaryVars == <<plan, canary, drive, traffic, flag, passed, baked, before, undone, counts>>

(***************************************************************************)
(* Plans: steps of a weight and a pause.                                    *)
(***************************************************************************)
Bakeless(ws) == [i \in DOMAIN ws |-> [weight |-> ws[i], pause |-> 0]]

ensureFull(steps) ==
  IF steps = <<>> \/ Last(steps).weight < 100
    THEN Append(steps, [weight |-> 100, pause |-> 0]) ELSE steps

PlanFor(s) ==
  CASE s.type = "canary"     -> IF s.steps = <<>> THEN Bakeless(<<10, 50, 100>>) ELSE ensureFull(s.steps)
    [] s.type = "blue-green" -> Bakeless(<<100>>)
    [] OTHER                 -> Bakeless(<<25, 50, 75, 100>>)

MaxPause == Max({0} \cup UNION {{s.steps[i].pause : i \in DOMAIN s.steps} : s \in Strategies})

\* The config bounds neither the weights nor the pauses of a plan, nor orders them.
ASSUME CanaryAssumption ==
  /\ \A s \in Strategies : s.steps \in Seq([weight : Int, pause : Int])
  /\ MaxPause \in Nat

Weight(i) == IF i = 0 THEN 0 ELSE plan[i].weight

flagsEnabled(phase) == FlagsWhen \in {"both", phase}

(***************************************************************************)
(* The row keeps the phase, the step last recorded, the snapshot (the step  *)
(* the machine was at, 0: none, and the age of its bake), and whether a     *)
(* failure is rolled back to a prior manifest.  A call works on a copy and  *)
(* on the machine: `at' is the step it is in and `age' the age of that      *)
(* step's bake, neither of which the row has before the next snapshot.      *)
(***************************************************************************)
NoRow  == [phase |-> "none", step |-> 0, snap |-> 0, age |-> 0, revert |-> FALSE, blocked |-> FALSE]
NoCall == [pc |-> "idle", at |-> 0, age |-> 0, row |-> NoRow]

InFlightPhases == {"deploying", "paused"}
Over(r) == r.phase \in {"none", "promoted", "rolled-back"}

\* A write of the row: it succeeds, or fails and leaves the row as it was.
Save(r) == \/ canary' = r /\ UNCHANGED counts
           \/ /\ counts.lost < MaxLost
              /\ counts' = [counts EXCEPT !.lost = @ + 1]
              /\ UNCHANGED canary

\* What driveTraffic and driveFlag may do: each sets its value or fails.
FlagSet(p) == flag' \in {flag, p}
resetDelivery == traffic' \in {traffic, 0} /\ flag' \in {flag, 0} /\ undone' = TRUE

Init0 == [rollouts |-> 0, holds |-> 0, crashes |-> 0, lost |-> 0]

CanaryInit == /\ plan \in {PlanFor(s) : s \in Strategies}
              /\ canary = NoRow /\ drive = NoCall
              /\ traffic = 0 /\ flag = 0
              /\ passed = 0 /\ baked = 0
              /\ before = [traffic |-> 0, flag |-> 0] /\ undone = FALSE
              /\ counts = Init0

(***************************************************************************)
(* Entering a step runs its health gate.  Both the eventless transition to  *)
(* aborted and the driver's own look at Failed end the canary.              *)
(***************************************************************************)
Enter(i, r) ==
  \/ /\ drive' = [pc |-> "record", at |-> i, age |-> 0, row |-> r]
     /\ passed' = Max({passed, i})
     /\ baked' = IF i > passed THEN 0 ELSE baked
  \/ /\ drive' = [pc |-> "fail", at |-> i, age |-> 0, row |-> r]
     /\ UNCHANGED <<passed, baked>>

\* Apply creates the row, deploys and starts the machine.
BeginCanary ==
  /\ drive = NoCall /\ Over(canary)
  /\ counts.rollouts < MaxRollouts
  /\ \E rev \in BOOLEAN : canary' = [NoRow EXCEPT !.phase = "deploying", !.revert = rev]
  /\ drive' = [pc |-> "start", at |-> 0, age |-> 0, row |-> canary']
  /\ passed' = 0 /\ baked' = 0
  /\ before' = [traffic |-> traffic, flag |-> flag] /\ undone' = FALSE
  /\ counts' = [counts EXCEPT !.rollouts = @ + 1]
  /\ UNCHANGED <<plan, traffic, flag>>

StartStepper ==
  /\ drive.pc = "start"
  /\ Enter(1, drive.row)
  /\ UNCHANGED <<plan, canary, traffic, flag, before, undone, counts>>

(***************************************************************************)
(* recordStep: unless the row already says so, write the step down (a       *)
(* failed write is ignored) beside the snapshot as it was, then move        *)
(* traffic and the flag.                                                    *)
(***************************************************************************)
RecordStep ==
  /\ drive.pc = "record" /\ drive.row.step # drive.at
  /\ LET r == [drive.row EXCEPT !.step = drive.at]
     IN  Save(r) /\ drive' = [drive EXCEPT !.pc = "shift", !.row = r]
  /\ UNCHANGED <<plan, traffic, flag, passed, baked, before, undone>>

\* Mutant of AlreadyRecorded: a later step in the row counts as this one recorded.
AlreadyRecordedLater ==
  /\ drive.pc = "record"
  /\ drive.row.step >= drive.at
  /\ drive' = [drive EXCEPT !.pc = "advance"]
  /\ UNCHANGED <<plan, canary, traffic, flag, passed, baked, before, undone, counts>>

AlreadyRecorded ==
  /\ drive.pc = "record"
  /\ drive.row.step = drive.at
  /\ drive' = [drive EXCEPT !.pc = "advance"]
  /\ UNCHANGED <<plan, canary, traffic, flag, passed, baked, before, undone, counts>>

\* Mutant of Shift: the weight of the step after this one is set.
ShiftAhead ==
  /\ drive.pc = "shift"
  /\ traffic' = Weight(Min({drive.at + 1, Len(plan)})) /\ undone' = FALSE
  /\ drive' = [drive EXCEPT !.pc = "advance"]
  /\ UNCHANGED <<plan, canary, flag, passed, baked, before, counts>>

Shift ==
  /\ drive.pc = "shift"
  /\ \/ /\ traffic' = Weight(drive.at) /\ undone' = FALSE
        /\ IF flagsEnabled("step") THEN FlagSet(Weight(drive.at)) ELSE UNCHANGED flag
        /\ drive' = [drive EXCEPT !.pc = "advance"]
     \/ /\ drive' = [drive EXCEPT !.pc = "fail"]
        /\ UNCHANGED <<traffic, flag, undone>>
  /\ UNCHANGED <<plan, canary, passed, baked, before, counts>>

(***************************************************************************)
(* The loop of driveStepper: leave while the pause has not elapsed, else go *)
(* on to the next step, whose bake starts now, or complete.                 *)
(***************************************************************************)
Baking == drive.at <= Len(plan) /\ plan[drive.at].pause > drive.age

Advance ==
  /\ drive.pc = "advance"
  /\ ~ Baking
  /\ IF drive.at < Len(plan)
       THEN Enter(drive.at + 1, drive.row)
       ELSE /\ drive' = [drive EXCEPT !.pc = "complete"]
            /\ UNCHANGED <<passed, baked>>
  /\ UNCHANGED <<plan, canary, traffic, flag, before, undone, counts>>

SaveSnapshot ==
  /\ \/ drive.pc = "advance" /\ Baking
     \/ drive.pc = "complete"
  /\ Save([drive.row EXCEPT !.snap = drive.at, !.age = drive.age,
                            !.phase = IF drive.pc = "complete" THEN "verifying" ELSE "deploying"])
  /\ drive' = NoCall
  /\ UNCHANGED <<plan, traffic, flag, passed, baked, before, undone>>

(***************************************************************************)
(* applyRollback resets the delivery once the prior manifest is re-applied, *)
(* and stores the row afterwards.  failProgressive rolls back where the row *)
(* allows it and the re-apply works; if it does not, or the row could not   *)
(* be stored, it only marks the row rolled back.                            *)
(***************************************************************************)
RolledBack(r) == [r EXCEPT !.phase = "rolled-back"]

RevertFailed ==
  /\ drive.pc = "fail" /\ drive.row.revert
  /\ resetDelivery
  /\ drive' = [drive EXCEPT !.pc = "reverted"]
  /\ UNCHANGED <<plan, canary, passed, baked, before, counts>>

StoreReverted ==
  /\ drive.pc = "reverted"
  /\ Save(RolledBack(drive.row))
  /\ drive' = IF counts' = counts THEN NoCall ELSE [drive EXCEPT !.pc = "mark"]
  /\ UNCHANGED <<plan, traffic, flag, passed, baked, before, undone>>

MarkFailed ==
  /\ drive.pc \in {"fail", "mark"}
  /\ Save(RolledBack(drive.row))
  /\ drive' = NoCall
  /\ UNCHANGED <<plan, traffic, flag, passed, baked, before, undone>>

\* Abort and the post-deploy gate give up where the row r cannot be stored.
Storing(r) == [pc |-> "store", at |-> 0, age |-> 0, row |-> r]

StoreRolledBack ==
  /\ drive.pc = "store"
  /\ Save(drive.row)
  /\ drive' = NoCall
  /\ UNCHANGED <<plan, traffic, flag, passed, baked, before, undone>>

(***************************************************************************)
(* Tick of a deploying row: without a snapshot it is handed to the          *)
(* post-deploy gate; while its step bakes only health is looked at; else    *)
(* the machine is restored at the snapshot and driven on.                   *)
(***************************************************************************)
\* Mutant of RecoverInterrupted: a row without a snapshot is left as it is.
RecoverRefused ==
  /\ drive = NoCall /\ canary.phase = "deploying" /\ canary.snap = 0
  /\ UNCHANGED canaryVars

RecoverInterrupted ==
  /\ drive = NoCall /\ canary.phase = "deploying" /\ canary.snap = 0
  /\ Save([canary EXCEPT !.phase = "verifying", !.revert = FALSE, !.blocked = TRUE])
  /\ UNCHANGED <<plan, drive, traffic, flag, passed, baked, before, undone>>

TickBaking ==
  /\ drive = NoCall /\ canary.phase = "deploying" /\ canary.snap > 0
  /\ plan[canary.snap].pause > canary.age
  /\ \/ UNCHANGED drive
     \/ drive' = [pc |-> "fail", at |-> canary.snap, age |-> canary.age, row |-> canary]
  /\ UNCHANGED <<plan, canary, traffic, flag, passed, baked, before, undone, counts>>

\* Mutant of TickDue: a paused row is driven on too.
TickHeld ==
  /\ drive = NoCall /\ canary.phase \in InFlightPhases /\ canary.snap > 0
  /\ plan[canary.snap].pause <= canary.age
  /\ drive' = [pc |-> "record", at |-> canary.snap, age |-> canary.age, row |-> canary]
  /\ UNCHANGED <<plan, canary, traffic, flag, passed, baked, before, undone, counts>>

TickDue ==
  /\ drive = NoCall /\ canary.phase = "deploying" /\ canary.snap > 0
  /\ plan[canary.snap].pause <= canary.age
  /\ drive' = [pc |-> "record", at |-> canary.snap, age |-> canary.age, row |-> canary]
  /\ UNCHANGED <<plan, canary, traffic, flag, passed, baked, before, undone, counts>>

(***************************************************************************)
(* Operators.  Pause keeps the bake's age, Resume starts it again.          *)
(***************************************************************************)
PauseCanary ==
  /\ drive = NoCall /\ canary.phase = "deploying" /\ canary.snap > 0
  /\ counts.holds < MaxHolds
  /\ canary' = [canary EXCEPT !.phase = "paused"]
  /\ counts' = [counts EXCEPT !.holds = @ + 1]
  /\ UNCHANGED <<plan, drive, traffic, flag, passed, baked, before, undone>>

\* Mutant of ResumeCanary: the bake goes on from where the pause stopped it.
ResumeKeepingAge ==
  /\ drive = NoCall /\ canary.phase = "paused"
  /\ canary' = [canary EXCEPT !.phase = "deploying"]
  /\ baked' = 0
  /\ UNCHANGED <<plan, drive, traffic, flag, passed, before, undone, counts>>

ResumeCanary ==
  /\ drive = NoCall /\ canary.phase = "paused"
  /\ canary' = [canary EXCEPT !.phase = "deploying", !.age = 0]
  /\ baked' = 0
  /\ UNCHANGED <<plan, drive, traffic, flag, passed, before, undone, counts>>

\* Abort drops the snapshot from its copy, rolls back to the prior manifest if there
\* is one to re-apply, and resets the delivery; the row is stored after that.
AbortCanary ==
  /\ drive = NoCall /\ canary.phase \in InFlightPhases
  /\ resetDelivery
  /\ drive' = Storing([RolledBack(canary) EXCEPT !.snap = 0])
  /\ UNCHANGED <<plan, canary, passed, baked, before, counts>>

(***************************************************************************)
(* The post-deploy gate: promote, which moves the flag to 100, or roll back *)
(* where the row allows it, or leave the row for the next reconcile.        *)
(***************************************************************************)
PromoteCanary ==
  /\ drive = NoCall /\ canary.phase = "verifying"
  /\ Save([canary EXCEPT !.phase = "promoted"])
  /\ IF canary'.phase = "promoted" /\ flagsEnabled("promote") THEN FlagSet(100) ELSE UNCHANGED flag
  /\ UNCHANGED <<plan, drive, traffic, passed, baked, before, undone>>

RollbackVerified ==
  /\ drive = NoCall /\ canary.phase = "verifying" /\ canary.revert
  /\ resetDelivery
  /\ drive' = Storing(RolledBack(canary))
  /\ UNCHANGED <<plan, canary, passed, baked, before, counts>>

\* The process dies; a new one knows only the row.
CrashCanary ==
  /\ drive # NoCall
  /\ counts.crashes < MaxCrashes
  /\ counts' = [counts EXCEPT !.crashes = @ + 1]
  /\ drive' = NoCall
  /\ UNCHANGED <<plan, canary, traffic, flag, passed, baked, before, undone>>

Older(a) == Min({a + 1, MaxPause})

Elapse ==
  /\ canary.phase \in InFlightPhases
  /\ canary.age < MaxPause \/ baked < MaxPause
  /\ canary' = [canary EXCEPT !.age = Older(@)]
  /\ drive' = IF drive = NoCall THEN NoCall ELSE [drive EXCEPT !.age = Older(@), !.row.age = Older(@)]
  /\ baked' = Older(baked)
  /\ UNCHANGED <<plan, traffic, flag, passed, before, undone, counts>>

CanaryCall == StartStepper \/ RecordStep \/ AlreadyRecorded \/ Shift \/ Advance
              \/ SaveSnapshot \/ RevertFailed \/ StoreReverted \/ MarkFailed \/ StoreRolledBack

CanaryTick == RecoverInterrupted \/ TickBaking \/ TickDue

CanaryNext ==
  \/ BeginCanary \/ CanaryCall \/ CanaryTick
  \/ PauseCanary \/ ResumeCanary \/ AbortCanary
  \/ PromoteCanary \/ RollbackVerified
  \/ CrashCanary \/ Elapse

\* A call that began runs on, the reconcile loop keeps ticking, time passes.
\* Operators are free to do nothing.
CanaryFairness == /\ WF_canaryVars(CanaryCall)
                  /\ WF_canaryVars(RecoverInterrupted)
                  /\ WF_canaryVars(TickDue)
                  /\ WF_canaryVars(Elapse)

CanarySpec == CanaryInit /\ [][CanaryNext]_canaryVars /\ CanaryFairness

-----------------------------------------------------------------------------
Gated(v, b) == v \in {0, b} \cup {Weight(i) : i \in 1..passed}

\* Neither the router nor the flag is ever given a share that no step which
\* passed its health gate in this rollout stands for, through crashes between
\* the write of a step and the shift of its traffic (stepper.go:211).
ExposureWithinGate ==
  canary.phase \in {"deploying", "paused", "verifying"} =>
    Gated(traffic, before.traffic) /\ Gated(flag, before.flag)

\* No step is entered before the step in front of it has baked for its whole
\* pause without interruption: neither a crash nor an operator's hold shortens
\* a bake (stepper.go:373, machine.go:91).
BakesFully ==
  [][passed' > passed /\ passed > 0 =>
       passed' = passed + 1 /\ baked >= plan[passed].pause]_canaryVars

mode == CASE canary.phase = "deploying" -> "live"
          [] canary.phase = "paused"    -> "held"
          [] canary.phase = "verifying" -> "settled"
          [] OTHER                      -> "off"
E0 == INSTANCE Exposure WITH weights <- [i \in DOMAIN plan |-> plan[i].weight],
                             level <- traffic, pos <- passed, mode <- mode

\* The steps of the stepper, the router and the operators move traffic only as
\* Exposure allows, whatever the row in the store says of them.
ImplementsExposure == E0!Spec

\* A canary nobody holds for ever comes to an end or reaches the post-deploy
\* gate: no crash leaves it deploying for good (stepper.go:115, 258).
CanaryEnds == []<>(canary.phase = "paused") \/ []<>(canary.phase \notin InFlightPhases)

\* "a canary that did not shift traffic must not bake and promote"
\* (engine.go:206).  Rollouts handed over by recoverInterrupted are exempt.
PromotedIsShifted ==
  canary.phase = "promoted" /\ ~ canary.blocked => traffic = Weight(Len(plan))

\* Neither a crash nor a lost write leaves a shift out: a process that dies between
\* writing a step and shifting its traffic is restored at the step of the snapshot,
\* and records and shifts every step from there again (stepper.go:214).  What does is
\* a rollback or an abort that reset the traffic and whose row was never stored
\* (stepper.go:462, engine.go:1750), if no step is shifted after it.
ShiftSurvivesCrash == ~ undone => PromotedIsShifted
=============================================================================
