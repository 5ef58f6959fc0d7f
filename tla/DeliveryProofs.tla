--------------------------- MODULE DeliveryProofs ---------------------------
(***************************************************************************)
(* Proofs about progressive delivery, for any strategies and any number of   *)
(* rollouts, holds, crashes and lost writes, and about the gates a rollout   *)
(* goes through, for any configuration, answers and number of measurements.  *)
(***************************************************************************)
EXTENDS Canary, Gates, WellFoundedInduction, TLAPS

Phases == {"none", "deploying", "paused", "verifying", "promoted", "rolled-back"}
Places == {"idle", "start", "record", "shift", "advance", "complete", "fail", "reverted", "mark", "store"}
Steps == [weight : Int, pause : Int]
RowRecord == [phase : Phases, step : Nat, snap : Nat, age : Nat, revert : BOOLEAN, blocked : BOOLEAN]
DriveRecord == [pc : Places, at : Nat, age : Nat, row : RowRecord]
CountRecord == [rollouts : Nat, holds : Nat, crashes : Nat, lost : Nat]

CanaryTypes ==
  /\ plan \in Seq(Steps) /\ Len(plan) > 0
  /\ canary \in RowRecord /\ drive \in DriveRecord
  /\ passed \in Nat /\ baked \in Nat /\ counts \in CountRecord

\* A call d in progress works on the deploying row c, at or after its snapshot, or is
\* about to store it rolled back.
Working(d, c) ==
  /\ d.pc = "idle" => d = NoCall
  /\ d.pc = "store" => c.phase \in {"deploying", "paused", "verifying"} /\ d.row.phase = "rolled-back"
  /\ d.pc \notin {"idle", "store"} => c.phase = "deploying" /\ d.row.phase = "deploying" /\ d.row.snap = c.snap /\ c.snap <= d.at
  /\ d.pc = "start" => d.at = 0 /\ d.row.step = 0 /\ c.snap = 0

\* What is recorded, shifted or persisted has passed its gate: n steps of len did.
Passing(d, c, n, len) ==
  /\ n <= len /\ d.at <= len
  /\ d.pc = "start" => n = 0
  /\ d.pc \in {"record", "shift", "advance", "complete"} => d.at \in 1 .. n
  /\ c.phase \in InFlightPhases => c.snap <= n

\* The age of the newest step that passed is never ahead of its bake.
Aged(d, c, n, b) ==
  /\ c.phase \in InFlightPhases /\ c.snap = n /\ n > 0 => c.age <= b
  /\ d.pc \in {"record", "shift", "advance"} /\ d.at = n => d.age <= b
  /\ d.pc \in {"record", "shift", "advance"} /\ d.row.snap = n /\ n > 0 => d.row.age <= b

\* A step is left behind only once it is in the call's row.
Recorded(d, len) ==
  /\ d.pc \in {"shift", "advance", "complete"} => d.row.step = d.at
  /\ d.pc = "complete" => d.at = len

\* The last step is left behind only with its traffic shifted: full says it is.
Shifted(d, c, len, full) ==
  /\ c.phase \in InFlightPhases /\ c.snap = len => full
  /\ c.phase \in {"verifying", "promoted"} /\ ~ c.blocked => full
  /\ d.pc \in {"advance", "complete"} /\ d.at = len => full
  /\ d.pc = "record" /\ d.at = len /\ d.row.step = d.at => full

\* The share v was set by nobody in this rollout, or is that of a step that passed.
InGate(v, b, p, n) == v = 0 \/ v = b \/ \E i \in 1 .. n : v = p[i].weight

Exposed(c, t, f, b, p, n) ==
  c.phase \in {"deploying", "paused", "verifying"} => InGate(t, b.traffic, p, n) /\ InGate(f, b.flag, p, n)

AtFull(t, p) == t = p[Len(p)].weight

CanaryInv ==
  /\ CanaryTypes
  /\ Working(drive, canary)
  /\ Passing(drive, canary, passed, Len(plan))
  /\ Aged(drive, canary, passed, baked)
  /\ Exposed(canary, traffic, flag, before, plan, passed)
  /\ Recorded(drive, Len(plan))
  /\ ~ undone => Shifted(drive, canary, Len(plan), AtFull(traffic, plan))

-----------------------------------------------------------------------------
LEMMA MaxOfTwo == ASSUME NEW a \in Int, NEW b \in Int PROVE Max({a, b}) = IF a >= b THEN a ELSE b
<1>1. \E x \in {a, b} : \A y \in {a, b} : x >= y OBVIOUS
<1>2. Max({a, b}) \in {a, b} /\ \A y \in {a, b} : Max({a, b}) >= y BY <1>1, Zenon DEF Max
<1> QED BY <1>2

LEMMA MinOfTwo == ASSUME NEW a \in Int, NEW b \in Int PROVE Min({a, b}) = IF a <= b THEN a ELSE b
<1>1. \E x \in {a, b} : \A y \in {a, b} : x <= y OBVIOUS
<1>2. Min({a, b}) \in {a, b} /\ \A y \in {a, b} : Min({a, b}) <= y BY <1>1, Zenon DEF Min
<1> QED BY <1>2

LEMMA GatedIsInGate ==
  ASSUME CanaryTypes, NEW v, NEW b
  PROVE  Gated(v, b) <=> InGate(v, b, plan, passed)
<1>1. \A i \in 1 .. passed : Weight(i) = plan[i].weight BY DEF Weight, CanaryTypes
<1> QED BY <1>1 DEF Gated, InGate

LEMMA InGateGrows ==
  ASSUME NEW v, NEW b, NEW p, NEW n \in Nat, NEW m \in Nat, n <= m, InGate(v, b, p, n)
  PROVE  InGate(v, b, p, m)
BY DEF InGate

\* A plan has a step.
LEMMA PlansHaveSteps == ASSUME NEW s \in Strategies PROVE PlanFor(s) \in Seq(Steps) /\ Len(PlanFor(s)) > 0
<1>1. s.steps \in Seq(Steps) BY CanaryAssumption DEF Steps
<1>2. ASSUME NEW ws \in Seq(Int), Len(ws) > 0 PROVE Bakeless(ws) \in Seq(Steps) /\ Len(Bakeless(ws)) > 0
  <2>1. Bakeless(ws) = [i \in 1 .. Len(ws) |-> [weight |-> ws[i], pause |-> 0]] BY DEF Bakeless
  <2>2. \A i \in 1 .. Len(ws) : [weight |-> ws[i], pause |-> 0] \in Steps BY DEF Steps
  <2> QED BY <1>2, <2>1, <2>2
<1>3. ensureFull(s.steps) \in Seq(Steps) /\ Len(ensureFull(s.steps)) > 0
  <2>1. [weight |-> 100, pause |-> 0] \in Steps BY DEF Steps
  <2>2. CASE s.steps = <<>> BY <2>1, <2>2 DEF ensureFull
  <2>3. CASE s.steps # <<>> BY <1>1, <2>1, <2>3 DEF ensureFull
  <2> QED BY <2>2, <2>3
<1>4. <<10, 50, 100>> \in Seq(Int) /\ <<100>> \in Seq(Int) /\ <<25, 50, 75, 100>> \in Seq(Int)
      /\ Len(<<10, 50, 100>>) > 0 /\ Len(<<100>>) > 0 /\ Len(<<25, 50, 75, 100>>) > 0
  OBVIOUS
<1> QED BY <1>2, <1>3, <1>4 DEF PlanFor

LEMMA CanaryStarts == CanaryInit => CanaryInv
<1> SUFFICES ASSUME CanaryInit PROVE CanaryInv OBVIOUS
<1>1. plan \in Seq(Steps) /\ Len(plan) > 0 BY PlansHaveSteps DEF CanaryInit
<1>2. CanaryTypes
  BY <1>1 DEF CanaryInit, CanaryTypes, NoRow, NoCall, Init0, RowRecord, DriveRecord, CountRecord, Phases, Places
<1>3. Working(drive, canary) BY DEF CanaryInit, Working, NoCall
<1>4. Passing(drive, canary, passed, Len(plan)) BY <1>1 DEF CanaryInit, Passing, NoCall, NoRow, InFlightPhases
<1>5. Aged(drive, canary, passed, baked) BY DEF CanaryInit, Aged, NoCall, NoRow, InFlightPhases
<1>6. Exposed(canary, traffic, flag, before, plan, passed) BY DEF CanaryInit, Exposed, NoRow
<1>7. Recorded(drive, Len(plan)) /\ Shifted(drive, canary, Len(plan), AtFull(traffic, plan))
  BY DEF CanaryInit, Recorded, Shifted, NoCall, NoRow, InFlightPhases
<1> QED BY <1>2, <1>3, <1>4, <1>5, <1>6, <1>7 DEF CanaryInv

-----------------------------------------------------------------------------
\* A write of the row.
LEMMA SaveCases ==
  ASSUME CanaryTypes, NEW r \in RowRecord, Save(r)
  PROVE  /\ canary' \in {r, canary} /\ canary' \in RowRecord /\ counts' \in CountRecord
   BY DEF Save, CanaryTypes, CountRecord

\* Entering step i with the row r.
LEMMA EnterCases ==
  ASSUME CanaryTypes, NEW i \in Nat, NEW r \in RowRecord, Enter(i, r)
  PROVE  /\ drive' \in DriveRecord /\ drive'.at = i /\ drive'.age = 0 /\ drive'.row = r /\ passed' \in Nat /\ baked' \in Nat
         /\ \/ drive'.pc = "record" /\ i > passed /\ passed' = i /\ baked' = 0
            \/ drive'.pc = "record" /\ i <= passed /\ passed' = passed /\ baked' = baked
            \/ drive'.pc = "fail" /\ passed' = passed /\ baked' = baked
<1>0. passed \in Nat /\ baked \in Nat BY DEF CanaryTypes
<1>1. CASE /\ drive' = [pc |-> "record", at |-> i, age |-> 0, row |-> r]
           /\ passed' = Max({passed, i}) /\ baked' = IF i > passed THEN 0 ELSE baked
  <2>1. passed' = IF passed >= i THEN passed ELSE i BY <1>0, <1>1, MaxOfTwo
  <2>2. drive' \in DriveRecord /\ drive'.pc = "record" /\ drive'.at = i /\ drive'.age = 0 /\ drive'.row = r
    BY <1>1 DEF DriveRecord, Places
  <2> QED BY <1>0, <1>1, <2>1, <2>2
<1>2. CASE drive' = [pc |-> "fail", at |-> i, age |-> 0, row |-> r] /\ UNCHANGED <<passed, baked>>
  BY <1>0, <1>2 DEF DriveRecord, Places
<1> QED BY <1>1, <1>2 DEF Enter

LEMMA StartKeeps == ASSUME CanaryInv, StartStepper PROVE CanaryInv'
<1> DEFINE r == drive.row
<1>0. /\ drive.pc = "start" /\ Enter(1, r) /\ UNCHANGED <<plan, canary, traffic, flag, before, undone, counts>> /\ CanaryTypes
      /\ plan \in Seq(Steps) /\ Len(plan) > 0 /\ canary \in RowRecord /\ counts \in CountRecord /\ passed \in Nat /\ baked \in Nat
  BY DEF StartStepper, CanaryInv, CanaryTypes
<1>2. r \in RowRecord /\ r.step = drive.row.step /\ r.snap = drive.row.snap /\ r.phase = drive.row.phase
  BY DEF CanaryInv, CanaryTypes, DriveRecord
<1> HIDE DEF r
<1>3. /\ drive' \in DriveRecord /\ drive'.at = 1 /\ drive'.age = 0 /\ drive'.row = r /\ passed' \in Nat /\ baked' \in Nat
      /\ \/ drive'.pc = "record" /\ 1 > passed /\ passed' = 1 /\ baked' = 0
         \/ drive'.pc = "record" /\ 1 <= passed /\ passed' = passed /\ baked' = baked
         \/ drive'.pc = "fail" /\ passed' = passed /\ baked' = baked
  BY <1>0, <1>2, EnterCases
<1>4. Working(drive, canary) /\ Passing(drive, canary, passed, Len(plan)) BY DEF CanaryInv
<1>5. drive.row.step = 0 /\ passed = 0 /\ canary.snap = 0 /\ canary.phase = "deploying" /\ r.snap = 0 /\ r.phase = "deploying"
  BY <1>0, <1>2, <1>4 DEF Working, Passing
<1>6. CanaryTypes' BY <1>0, <1>3 DEF CanaryTypes
<1>7. Working(drive', canary') BY <1>0, <1>3, <1>5 DEF Working
<1>8. Passing(drive', canary', passed', Len(plan')) BY <1>0, <1>3, <1>5 DEF Passing
<1>9. Aged(drive', canary', passed', baked') BY <1>0, <1>2, <1>3, <1>5 DEF Aged
<1>10. Exposed(canary', traffic', flag', before', plan', passed')
  BY <1>0, <1>3, <1>5, InGateGrows DEF CanaryInv, Exposed
<1>11. Recorded(drive', Len(plan')) /\ (~ undone' => Shifted(drive', canary', Len(plan'), AtFull(traffic', plan')))
  BY <1>0, <1>2, <1>3, <1>5 DEF Recorded, Shifted, InFlightPhases
<1> QED BY <1>6, <1>7, <1>8, <1>9, <1>10, <1>11 DEF CanaryInv

LEMMA BeginKeeps == ASSUME CanaryInv, BeginCanary PROVE CanaryInv'
<1>0. plan \in Seq(Steps) /\ Len(plan) > 0 /\ counts \in CountRecord BY DEF CanaryInv, CanaryTypes
<1>1. PICK rev \in BOOLEAN : canary' = [NoRow EXCEPT !.phase = "deploying", !.revert = rev] BY DEF BeginCanary
<1>2. canary' \in RowRecord /\ canary'.phase = "deploying" /\ canary'.snap = 0 /\ canary'.step = 0 /\ canary'.age = 0
  BY <1>1 DEF NoRow, RowRecord, Phases
<1>3. /\ drive' = [pc |-> "start", at |-> 0, age |-> 0, row |-> canary'] /\ passed' = 0 /\ baked' = 0
      /\ before' = [traffic |-> traffic, flag |-> flag] /\ UNCHANGED <<plan, traffic, flag>>
  BY DEF BeginCanary
<1>4. drive' \in DriveRecord BY <1>2, <1>3 DEF DriveRecord, Places
<1>5. counts' \in CountRecord BY <1>0 DEF BeginCanary, CountRecord
<1>6. CanaryTypes' BY <1>0, <1>2, <1>3, <1>4, <1>5 DEF CanaryTypes
<1>7. Working(drive', canary') BY <1>2, <1>3 DEF Working
<1>8. Passing(drive', canary', passed', Len(plan')) BY <1>0, <1>2, <1>3 DEF Passing
<1>9. Aged(drive', canary', passed', baked') BY <1>2, <1>3 DEF Aged
<1>10. Exposed(canary', traffic', flag', before', plan', passed') BY <1>3 DEF Exposed, InGate
<1>11. Recorded(drive', Len(plan')) /\ Shifted(drive', canary', Len(plan'), AtFull(traffic', plan'))
  BY <1>0, <1>2, <1>3 DEF Recorded, Shifted
<1> QED BY <1>6, <1>7, <1>8, <1>9, <1>10, <1>11 DEF CanaryInv

LEMMA RecordKeeps == ASSUME CanaryInv, RecordStep PROVE CanaryInv'
<1> DEFINE r == [drive.row EXCEPT !.step = drive.at]
<1>0. /\ drive.pc = "record" /\ Save(r) /\ drive' = [drive EXCEPT !.pc = "shift", !.row = r]
      /\ UNCHANGED <<plan, traffic, flag, passed, baked, before, undone>> /\ CanaryTypes
  BY DEF RecordStep, CanaryInv
<1>1. drive \in DriveRecord /\ drive.row \in RowRecord /\ drive.at \in Nat BY DEF CanaryInv, CanaryTypes, DriveRecord
<1>2. r \in RowRecord /\ r.age = drive.row.age /\ r.step = drive.at /\ r.snap = drive.row.snap /\ r.phase = drive.row.phase
      /\ r.blocked = drive.row.blocked
  BY <1>1 DEF RowRecord
<1> HIDE DEF r
<1>3. /\ canary' \in {r, canary} /\ canary' \in RowRecord /\ counts' \in CountRecord
  BY <1>0, <1>2, SaveCases
<1>4. drive' \in DriveRecord /\ drive'.pc = "shift" /\ drive'.row = r /\ drive'.at = drive.at /\ drive'.age = drive.age
  BY <1>0, <1>1, <1>2 DEF DriveRecord, Places
<1>5. /\ Working(drive, canary) /\ Passing(drive, canary, passed, Len(plan)) /\ Aged(drive, canary, passed, baked)
      /\ Exposed(canary, traffic, flag, before, plan, passed)
      /\ Recorded(drive, Len(plan)) /\ (~ undone => Shifted(drive, canary, Len(plan), AtFull(traffic, plan)))
  BY DEF CanaryInv
<1>6. r.phase = "deploying" /\ canary.phase = "deploying" /\ r.snap = canary.snap BY <1>0, <1>2, <1>5 DEF Working
<1>7. CanaryTypes' BY <1>0, <1>3, <1>4 DEF CanaryTypes
<1>8. Working(drive', canary') BY <1>0, <1>3, <1>4, <1>5, <1>6 DEF Working
<1>9. Passing(drive', canary', passed', Len(plan')) BY <1>0, <1>3, <1>4, <1>5, <1>6 DEF Passing
<1>10. Aged(drive', canary', passed', baked') BY <1>0, <1>2, <1>3, <1>4, <1>5, <1>6 DEF Aged
<1>11. Exposed(canary', traffic', flag', before', plan', passed') BY <1>0, <1>3, <1>5, <1>6 DEF Exposed
<1>12. Recorded(drive', Len(plan')) /\ (~ undone' => Shifted(drive', canary', Len(plan'), AtFull(traffic', plan')))
  BY <1>0, <1>2, <1>3, <1>4, <1>5, <1>6 DEF Recorded, Shifted, InFlightPhases
<1> QED BY <1>7, <1>8, <1>9, <1>10, <1>11, <1>12 DEF CanaryInv

LEMMA RecordedKeeps == ASSUME CanaryInv, AlreadyRecorded PROVE CanaryInv'
<1>0. /\ drive.pc = "record" /\ drive.row.step = drive.at /\ drive' = [drive EXCEPT !.pc = "advance"]
      /\ UNCHANGED <<plan, canary, traffic, flag, passed, baked, before, undone, counts>> /\ CanaryTypes
  BY DEF AlreadyRecorded, CanaryInv
<1>1. drive \in DriveRecord BY DEF CanaryInv, CanaryTypes
<1>2. drive' \in DriveRecord /\ drive'.pc = "advance" /\ drive'.row = drive.row /\ drive'.at = drive.at /\ drive'.age = drive.age
  BY <1>0, <1>1 DEF DriveRecord, Places
<1>3. CanaryTypes' BY <1>0, <1>2 DEF CanaryTypes
<1>4. Working(drive', canary') BY <1>0, <1>2 DEF CanaryInv, Working
<1>5. Passing(drive', canary', passed', Len(plan')) BY <1>0, <1>2 DEF CanaryInv, Passing
<1>6. Aged(drive', canary', passed', baked') BY <1>0, <1>2 DEF CanaryInv, Aged
<1>7. Exposed(canary', traffic', flag', before', plan', passed') BY <1>0 DEF CanaryInv
<1>8. Recorded(drive', Len(plan')) /\ (~ undone' => Shifted(drive', canary', Len(plan'), AtFull(traffic', plan')))
  BY <1>0, <1>2 DEF CanaryInv, Recorded, Shifted
<1> QED BY <1>3, <1>4, <1>5, <1>6, <1>7, <1>8 DEF CanaryInv

LEMMA ShiftKeeps == ASSUME CanaryInv, Shift PROVE CanaryInv'
<1>0. /\ drive.pc = "shift" /\ UNCHANGED <<plan, canary, passed, baked, before, counts>> /\ CanaryTypes
      /\ plan \in Seq(Steps) /\ passed \in Nat /\ Len(plan) \in Nat
  BY DEF Shift, CanaryInv, CanaryTypes
<1>1. drive \in DriveRecord BY DEF CanaryInv, CanaryTypes
<1>2. PICK p \in {"advance", "fail"} :
        /\ drive' = [drive EXCEPT !.pc = p]
        /\ \/ p = "advance" /\ traffic' = Weight(drive.at) /\ flag' \in {flag, Weight(drive.at)}
           \/ p = "fail" /\ traffic' = traffic /\ flag' = flag /\ undone' = undone
  BY DEF Shift, FlagSet
<1>3. drive' \in DriveRecord /\ drive'.pc = p /\ drive'.row = drive.row /\ drive'.at = drive.at /\ drive'.age = drive.age
  BY <1>1, <1>2 DEF DriveRecord, Places
<1>4. /\ Working(drive, canary) /\ Passing(drive, canary, passed, Len(plan))
      /\ Recorded(drive, Len(plan)) /\ (~ undone => Shifted(drive, canary, Len(plan), AtFull(traffic, plan)))
  BY DEF CanaryInv
<1>5. drive.at \in 1 .. passed /\ drive.at \in Nat /\ canary.phase = "deploying" /\ canary.snap <= drive.at /\ drive.at <= Len(plan)
  BY <1>0, <1>1, <1>4 DEF Passing, Working, DriveRecord
<1>6. Weight(drive.at) = plan[drive.at].weight BY <1>5 DEF Weight
<1>7. CanaryTypes' BY <1>0, <1>3 DEF CanaryTypes
<1>8. Working(drive', canary') BY <1>0, <1>2, <1>3, <1>4 DEF Working
<1>9. Passing(drive', canary', passed', Len(plan')) BY <1>0, <1>2, <1>3, <1>4 DEF Passing
<1>10. Aged(drive', canary', passed', baked') BY <1>0, <1>2, <1>3 DEF CanaryInv, Aged
<1>11. Exposed(canary', traffic', flag', before', plan', passed')
  <2>1. InGate(traffic, before.traffic, plan, passed) /\ InGate(flag, before.flag, plan, passed)
    BY <1>5 DEF CanaryInv, Exposed
  <2>2. \A b : InGate(plan[drive.at].weight, b, plan, passed) BY <1>5 DEF InGate
  <2>3. traffic' \in {traffic, plan[drive.at].weight} /\ flag' \in {flag, plan[drive.at].weight} BY <1>2, <1>6
  <2> QED BY <1>0, <2>1, <2>2, <2>3 DEF Exposed
<1>12. Recorded(drive', Len(plan')) BY <1>0, <1>2, <1>3, <1>4 DEF Recorded
<1>13. ~ undone' => Shifted(drive', canary', Len(plan'), AtFull(traffic', plan'))
  <2>1. canary.snap = Len(plan) => drive.at = Len(plan) BY <1>0, <1>5 DEF CanaryTypes, RowRecord
  <2>2. CASE p = "advance"
    <3>1. drive.at = Len(plan) => AtFull(traffic', plan') BY <1>0, <1>2, <1>6, <2>2 DEF AtFull
    <3> HIDE DEF AtFull
    <3> QED BY <1>0, <1>3, <1>5, <2>1, <2>2, <3>1 DEF Shifted
  <2>3. CASE p = "fail" BY <1>0, <1>2, <1>3, <1>4, <2>3 DEF Shifted
  <2> QED BY <2>2, <2>3
<1> QED BY <1>7, <1>8, <1>9, <1>10, <1>11, <1>12, <1>13 DEF CanaryInv

LEMMA AdvanceKeeps == ASSUME CanaryInv, Advance PROVE CanaryInv'
<1> DEFINE r == drive.row
<1>0. /\ drive.pc = "advance" /\ UNCHANGED <<plan, canary, traffic, flag, before, undone, counts>> /\ CanaryTypes
      /\ plan \in Seq(Steps) /\ passed \in Nat /\ Len(plan) \in Nat /\ baked \in Nat /\ canary.snap \in Nat
  BY DEF Advance, CanaryInv, CanaryTypes, RowRecord
<1>1. drive \in DriveRecord /\ drive.row \in RowRecord /\ drive.at \in Nat BY DEF CanaryInv, CanaryTypes, DriveRecord
<1>2. /\ r \in RowRecord /\ r.step = drive.row.step /\ r.snap = drive.row.snap /\ r.phase = drive.row.phase
      /\ r.age = drive.row.age /\ r.snap \in Nat
  BY <1>1 DEF RowRecord
<1> HIDE DEF r
<1>3. /\ Working(drive, canary) /\ Passing(drive, canary, passed, Len(plan)) /\ Aged(drive, canary, passed, baked)
      /\ Exposed(canary, traffic, flag, before, plan, passed)
      /\ Recorded(drive, Len(plan)) /\ (~ undone => Shifted(drive, canary, Len(plan), AtFull(traffic, plan)))
  BY DEF CanaryInv
<1>4. CASE drive.at < Len(plan) /\ Enter(drive.at + 1, r)
  <2>1. /\ drive' \in DriveRecord /\ drive'.at = drive.at + 1 /\ drive'.age = 0 /\ drive'.row = r /\ passed' \in Nat /\ baked' \in Nat
        /\ \/ drive'.pc = "record" /\ drive.at + 1 > passed /\ passed' = drive.at + 1 /\ baked' = 0
           \/ drive'.pc = "record" /\ drive.at + 1 <= passed /\ passed' = passed /\ baked' = baked
           \/ drive'.pc = "fail" /\ passed' = passed /\ baked' = baked
    BY <1>0, <1>1, <1>2, <1>4, EnterCases
  <2>2. canary.phase = "deploying" /\ canary.snap <= drive.at /\ r.snap = canary.snap /\ r.phase = "deploying"
        /\ drive.at \in 1 .. passed
    BY <1>0, <1>2, <1>3 DEF Working, Passing
  <2>3. CanaryTypes' BY <1>0, <2>1 DEF CanaryTypes
  <2>4. Working(drive', canary') BY <1>0, <1>1, <2>1, <2>2 DEF Working
  <2>5. Passing(drive', canary', passed', Len(plan')) BY <1>0, <1>1, <1>3, <1>4, <2>1, <2>2 DEF Passing
  <2>6. Aged(drive', canary', passed', baked') BY <1>0, <1>1, <1>2, <1>3, <2>1, <2>2 DEF Aged
  <2>7. Exposed(canary', traffic', flag', before', plan', passed')
    <3>1. passed <= passed' BY <1>0, <1>1, <2>1
    <3> QED BY <1>0, <1>3, <2>1, <3>1, InGateGrows DEF Exposed
  <2>8. Recorded(drive', Len(plan')) /\ (~ undone' => Shifted(drive', canary', Len(plan'), AtFull(traffic', plan')))
    BY <1>0, <1>1, <1>2, <1>3, <2>1, <2>2 DEF Recorded, Shifted
  <2> QED BY <2>3, <2>4, <2>5, <2>6, <2>7, <2>8 DEF CanaryInv
<1>5. CASE ~ (drive.at < Len(plan)) /\ drive' = [drive EXCEPT !.pc = "complete"] /\ UNCHANGED <<passed, baked>>
  <2>1. drive' \in DriveRecord /\ drive'.pc = "complete" /\ drive'.row = drive.row /\ drive'.at = drive.at /\ drive'.age = drive.age
    BY <1>1, <1>5 DEF DriveRecord, Places
  <2>2. drive.at = Len(plan) BY <1>0, <1>1, <1>3, <1>5 DEF Passing
  <2>3. CanaryTypes' BY <1>0, <1>5, <2>1 DEF CanaryTypes
  <2>4. Working(drive', canary') BY <1>0, <1>3, <2>1 DEF Working
  <2>5. Passing(drive', canary', passed', Len(plan')) BY <1>0, <1>3, <1>5, <2>1 DEF Passing
  <2>6. Aged(drive', canary', passed', baked') BY <1>0, <1>3, <1>5, <2>1 DEF Aged
  <2>7. Exposed(canary', traffic', flag', before', plan', passed') BY <1>0, <1>3, <1>5
  <2>8. Recorded(drive', Len(plan')) /\ (~ undone' => Shifted(drive', canary', Len(plan'), AtFull(traffic', plan')))
    BY <1>0, <1>3, <2>1, <2>2 DEF Recorded, Shifted
  <2> QED BY <2>3, <2>4, <2>5, <2>6, <2>7, <2>8 DEF CanaryInv
<1> QED BY <1>4, <1>5 DEF Advance, r

-----------------------------------------------------------------------------
\* A step after which no call is in progress.
LEMMA AtRest ==
  ASSUME CanaryInv, drive' = NoCall, UNCHANGED <<plan, passed, before>>,
         canary' \in RowRecord, counts' \in CountRecord, baked' \in Nat,
         canary'.phase \in InFlightPhases => canary'.snap <= passed /\ (canary'.snap = passed /\ passed > 0 => canary'.age <= baked'),
         Exposed(canary', traffic', flag', before, plan, passed),
         ~ undone' => Shifted(NoCall, canary', Len(plan), AtFull(traffic', plan))
  PROVE  CanaryInv'
<1>0. plan \in Seq(Steps) /\ Len(plan) > 0 /\ Len(plan) \in Nat /\ passed \in Nat BY DEF CanaryInv, CanaryTypes
<1>1. NoCall \in DriveRecord BY DEF NoCall, NoRow, DriveRecord, RowRecord, Places, Phases
<1>2. CanaryTypes' BY <1>0, <1>1 DEF CanaryTypes
<1>3. NoCall.pc = "idle" /\ NoCall.at = 0 BY DEF NoCall
<1>4. Working(drive', canary') BY <1>3 DEF Working
<1>5. Passing(drive', canary', passed', Len(plan')) BY <1>0, <1>3 DEF Passing, CanaryInv
<1>6. Aged(drive', canary', passed', baked') BY <1>3 DEF Aged
<1>7. Recorded(drive', Len(plan')) BY <1>3 DEF Recorded
<1> QED BY <1>2, <1>4, <1>5, <1>6, <1>7 DEF CanaryInv

LEMMA RestShifted ==
  ASSUME NEW c, NEW len, NEW full,
         c.phase \in InFlightPhases /\ c.snap = len => full,
         c.phase \in {"verifying", "promoted"} /\ ~ c.blocked => full
  PROVE  Shifted(NoCall, c, len, full)
<1>1. NoCall.pc = "idle" BY DEF NoCall
<1> QED BY <1>1 DEF Shifted

\* A call that begins or ends a rollback leaves the history of the steps alone.
LEMMA RolledBackRow ==
  ASSUME NEW r \in RowRecord PROVE RolledBack(r) \in RowRecord /\ RolledBack(r).phase = "rolled-back"
BY DEF RolledBack, RowRecord, Phases

\* A rollout that ended, if its write came through.
LEMMA Ended ==
  ASSUME CanaryInv, drive' = NoCall, UNCHANGED <<plan, traffic, flag, passed, before, baked, undone>>,
         NEW r \in RowRecord, r.phase = "rolled-back", Save(r)
  PROVE  CanaryInv'
<1>0. CanaryTypes /\ baked \in Nat BY DEF CanaryInv, CanaryTypes
<1>1. /\ canary' \in {r, canary} /\ canary' \in RowRecord /\ counts' \in CountRecord
  BY <1>0, SaveCases
<1>2. canary'.phase \in InFlightPhases => canary'.snap <= passed /\ (canary'.snap = passed /\ passed > 0 => canary'.age <= baked')
  BY <1>1 DEF CanaryInv, Passing, Aged, InFlightPhases
<1>3. Exposed(canary', traffic', flag', before, plan, passed) BY <1>1 DEF CanaryInv, Exposed
<1>4. ~ undone' => Shifted(NoCall, canary', Len(plan), AtFull(traffic', plan))
  BY <1>1, RestShifted DEF CanaryInv, Shifted, InFlightPhases
<1> QED BY <1>0, <1>1, <1>2, <1>3, <1>4, AtRest

\* A call in progress that goes on with a rollback: to the place p, with the row r.
LEMMA Undoing ==
  ASSUME CanaryInv, UNCHANGED <<plan, passed, before, baked>>,
         NEW p \in {"reverted", "mark", "store"}, drive' \in DriveRecord, drive'.pc = p, drive'.at <= Len(plan),
         Working(drive', canary'), canary' = canary, counts' \in CountRecord, undone' \/ UNCHANGED <<undone, traffic>>,
         traffic' \in {traffic, 0}, flag' \in {flag, 0}
  PROVE  CanaryInv'
<1>1. CanaryTypes' BY DEF CanaryInv, CanaryTypes
<1>2. Passing(drive', canary', passed', Len(plan')) BY DEF CanaryInv, Passing
<1>3. Aged(drive', canary', passed', baked') BY DEF CanaryInv, Aged
<1>4. Exposed(canary', traffic', flag', before', plan', passed')
  <2>1. \A b : InGate(0, b, plan, passed) BY DEF InGate
  <2> QED BY <2>1 DEF CanaryInv, Exposed
<1>5. Recorded(drive', Len(plan')) BY DEF Recorded
<1>6. ~ undone' => Shifted(drive', canary', Len(plan'), AtFull(traffic', plan')) BY DEF CanaryInv, Shifted
<1> QED BY <1>1, <1>2, <1>3, <1>4, <1>5, <1>6 DEF CanaryInv

LEMMA RevertKeeps == ASSUME CanaryInv, RevertFailed PROVE CanaryInv'
<1>1. /\ drive.pc = "fail" /\ drive' = [drive EXCEPT !.pc = "reverted"] /\ UNCHANGED <<plan, canary, passed, baked, before, counts>>
      /\ undone' /\ traffic' \in {traffic, 0} /\ flag' \in {flag, 0} /\ drive \in DriveRecord /\ counts \in CountRecord
  BY DEF RevertFailed, resetDelivery, CanaryInv, CanaryTypes
<1>2. drive' \in DriveRecord /\ drive'.pc = "reverted" /\ drive'.at = drive.at /\ drive'.row = drive.row
  BY <1>1 DEF DriveRecord, Places
<1>3. Working(drive', canary') BY <1>1, <1>2 DEF CanaryInv, Working
<1>4. drive'.at <= Len(plan) BY <1>2 DEF CanaryInv, Passing
<1> QED BY <1>1, <1>2, <1>3, <1>4, Undoing

LEMMA RevertedKeeps == ASSUME CanaryInv, StoreReverted PROVE CanaryInv'
<1>1. /\ drive.pc = "reverted" /\ Save(RolledBack(drive.row)) /\ UNCHANGED <<plan, traffic, flag, passed, baked, before, undone>>
      /\ drive \in DriveRecord /\ drive.row \in RowRecord /\ CanaryTypes
  BY DEF StoreReverted, CanaryInv, CanaryTypes, DriveRecord
<1>2. CASE drive' = NoCall BY <1>1, <1>2, RolledBackRow, Ended
<1>3. CASE counts' # counts /\ drive' = [drive EXCEPT !.pc = "mark"]
  <2>1. drive' \in DriveRecord /\ drive'.pc = "mark" /\ drive'.at = drive.at /\ drive'.row = drive.row
    BY <1>1, <1>3 DEF DriveRecord, Places
  <2>2. canary' = canary /\ counts' \in CountRecord BY <1>1, <1>3 DEF Save, CanaryTypes, CountRecord
  <2>3. Working(drive', canary') BY <1>1, <2>1, <2>2 DEF CanaryInv, Working
  <2>4. drive'.at <= Len(plan) BY <2>1 DEF CanaryInv, Passing
  <2> QED BY <1>1, <2>1, <2>2, <2>3, <2>4, Undoing
<1> QED BY <1>2, <1>3 DEF StoreReverted

LEMMA MarkKeeps == ASSUME CanaryInv, MarkFailed PROVE CanaryInv'
<1>1. drive.row \in RowRecord BY DEF CanaryInv, CanaryTypes, DriveRecord
<1> QED BY <1>1, RolledBackRow, Ended DEF MarkFailed

LEMMA StoreKeeps == ASSUME CanaryInv, StoreRolledBack PROVE CanaryInv'
<1>1. drive.row \in RowRecord /\ drive.pc = "store" BY DEF CanaryInv, CanaryTypes, DriveRecord, StoreRolledBack
<1>2. drive.row.phase = "rolled-back" BY <1>1 DEF CanaryInv, Working
<1> QED BY <1>1, <1>2, Ended DEF StoreRolledBack

\* Abort and the post-deploy gate begin to roll back.
LEMMA StoringKeeps ==
  ASSUME CanaryInv, NEW r \in RowRecord, r.phase = "rolled-back", drive' = Storing(r), resetDelivery,
         canary.phase \in {"deploying", "paused", "verifying"}, UNCHANGED <<plan, canary, passed, baked, before, counts>>
  PROVE  CanaryInv'
<1>1. drive' \in DriveRecord /\ drive'.pc = "store" /\ drive'.at = 0 /\ drive'.row = r BY DEF Storing, DriveRecord, Places
<1>2. Working(drive', canary') BY <1>1 DEF Working
<1>3. drive'.at <= Len(plan) /\ counts' \in CountRecord BY <1>1 DEF CanaryInv, CanaryTypes
<1> QED BY <1>1, <1>2, <1>3, Undoing DEF resetDelivery

LEMMA AbortKeeps == ASSUME CanaryInv, AbortCanary PROVE CanaryInv'
<1> DEFINE r == [RolledBack(canary) EXCEPT !.snap = 0]
<1>1. canary \in RowRecord BY DEF CanaryInv, CanaryTypes
<1>2. r \in RowRecord /\ r.phase = "rolled-back" BY <1>1, RolledBackRow DEF RowRecord
<1>3. drive' = Storing(r) /\ resetDelivery /\ canary.phase \in {"deploying", "paused"}
      /\ UNCHANGED <<plan, canary, passed, baked, before, counts>>
  BY DEF AbortCanary, InFlightPhases
<1> HIDE DEF r
<1> QED BY <1>2, <1>3, StoringKeeps

LEMMA RollbackKeeps == ASSUME CanaryInv, RollbackVerified PROVE CanaryInv'
<1>1. canary \in RowRecord BY DEF CanaryInv, CanaryTypes
<1> QED BY <1>1, RolledBackRow, StoringKeeps DEF RollbackVerified

LEMMA SnapshotKeeps == ASSUME CanaryInv, SaveSnapshot PROVE CanaryInv'
<1> DEFINE p == IF drive.pc = "complete" THEN "verifying" ELSE "deploying"
           r == [drive.row EXCEPT !.snap = drive.at, !.age = drive.age, !.phase = p]
<1>0. /\ drive.pc \in {"advance", "complete"} /\ Save(r) /\ drive' = NoCall
      /\ UNCHANGED <<plan, traffic, flag, passed, baked, before, undone>> /\ CanaryTypes
  BY DEF SaveSnapshot, CanaryInv
<1>1. /\ drive \in DriveRecord /\ drive.row \in RowRecord /\ drive.at \in Nat /\ drive.age \in Nat /\ baked \in Nat
      /\ p \in Phases /\ p \in {"verifying", "deploying"} /\ (p = "deploying" => drive.pc = "advance")
      /\ (p = "verifying" => drive.pc = "complete")
  BY <1>0 DEF CanaryInv, CanaryTypes, DriveRecord, Phases
<1> HIDE DEF p
<1>2. r \in RowRecord /\ r.phase = p /\ r.snap = drive.at /\ r.age = drive.age BY <1>1 DEF RowRecord
<1> HIDE DEF r
<1>3. /\ canary' \in {r, canary} /\ canary' \in RowRecord /\ counts' \in CountRecord
  BY <1>0, <1>2, SaveCases
<1>4. /\ Working(drive, canary) /\ Passing(drive, canary, passed, Len(plan)) /\ Aged(drive, canary, passed, baked)
      /\ Exposed(canary, traffic, flag, before, plan, passed)
      /\ Recorded(drive, Len(plan)) /\ (~ undone => Shifted(drive, canary, Len(plan), AtFull(traffic, plan)))
  BY DEF CanaryInv
<1>5. canary'.phase \in InFlightPhases => canary'.snap <= passed /\ (canary'.snap = passed /\ passed > 0 => canary'.age <= baked')
  BY <1>0, <1>1, <1>2, <1>3, <1>4 DEF Passing, Aged, InFlightPhases
<1>6. canary.phase = "deploying" BY <1>0, <1>4 DEF Working
<1>7. Exposed(canary', traffic', flag', before, plan, passed) BY <1>0, <1>4, <1>6 DEF Exposed
<1>8. ~ undone' => Shifted(NoCall, canary', Len(plan), AtFull(traffic', plan))
  <2> SUFFICES ASSUME ~ undone' PROVE Shifted(NoCall, canary', Len(plan), AtFull(traffic', plan)) OBVIOUS
  <2>1. Shifted(drive, canary, Len(plan), AtFull(traffic, plan)) /\ traffic' = traffic BY <1>0, <1>4
  <2>2. p = "verifying" \/ drive.at = Len(plan) => AtFull(traffic, plan) BY <1>0, <1>1, <1>4, <2>1 DEF Shifted, Recorded
  <2>3. canary'.phase \in InFlightPhases /\ canary'.snap = Len(plan) => AtFull(traffic', plan)
    BY <1>2, <1>3, <2>1, <2>2 DEF InFlightPhases, Shifted
  <2>4. canary'.phase \in {"verifying", "promoted"} /\ ~ canary'.blocked => AtFull(traffic', plan)
    BY <1>1, <1>2, <1>3, <2>1, <2>2 DEF Shifted
  <2> QED BY <2>3, <2>4, RestShifted
<1> QED BY <1>0, <1>1, <1>3, <1>5, <1>7, <1>8, AtRest

LEMMA RecoverKeeps == ASSUME CanaryInv, RecoverInterrupted PROVE CanaryInv'
<1> DEFINE r == [canary EXCEPT !.phase = "verifying", !.revert = FALSE, !.blocked = TRUE]
<1>0. /\ drive = NoCall /\ canary.phase = "deploying" /\ Save(r)
      /\ UNCHANGED <<plan, drive, traffic, flag, passed, baked, before, undone>> /\ CanaryTypes
  BY DEF RecoverInterrupted, CanaryInv
<1>1. canary \in RowRecord /\ baked \in Nat BY DEF CanaryInv, CanaryTypes
<1>2. r \in RowRecord /\ r.phase = "verifying" /\ r.blocked = TRUE BY <1>1 DEF RowRecord, Phases
<1> HIDE DEF r
<1>3. /\ canary' \in {r, canary} /\ canary' \in RowRecord /\ counts' \in CountRecord
  BY <1>0, <1>2, SaveCases
<1>4. canary'.phase \in InFlightPhases => canary'.snap <= passed /\ (canary'.snap = passed /\ passed > 0 => canary'.age <= baked')
  BY <1>0, <1>2, <1>3 DEF CanaryInv, Passing, Aged, InFlightPhases
<1>5. Exposed(canary', traffic', flag', before, plan, passed) BY <1>0 DEF CanaryInv, Exposed
<1>6. ~ undone' => Shifted(NoCall, canary', Len(plan), AtFull(traffic', plan))
  BY <1>0, <1>2, <1>3, RestShifted DEF CanaryInv, Shifted, InFlightPhases
<1> QED BY <1>0, <1>1, <1>3, <1>4, <1>5, <1>6, AtRest

LEMMA PromoteKeeps == ASSUME CanaryInv, PromoteCanary PROVE CanaryInv'
<1> DEFINE r == [canary EXCEPT !.phase = "promoted"]
<1>0. /\ drive = NoCall /\ canary.phase = "verifying" /\ Save(r)
      /\ UNCHANGED <<plan, drive, traffic, passed, baked, before, undone>> /\ CanaryTypes
      /\ (canary'.phase # "promoted" => flag' = flag)
  BY DEF PromoteCanary, CanaryInv
<1>1. canary \in RowRecord /\ baked \in Nat BY DEF CanaryInv, CanaryTypes
<1>2. r \in RowRecord /\ r.phase = "promoted" /\ r.blocked = canary.blocked BY <1>1 DEF RowRecord, Phases
<1> HIDE DEF r
<1>3. /\ canary' \in {r, canary} /\ canary' \in RowRecord /\ counts' \in CountRecord
  BY <1>0, <1>2, SaveCases
<1>4. canary'.phase \notin InFlightPhases BY <1>0, <1>2, <1>3 DEF InFlightPhases
<1>5. Exposed(canary', traffic', flag', before, plan, passed) BY <1>0, <1>2, <1>3 DEF CanaryInv, Exposed
<1>6. ~ undone' => Shifted(NoCall, canary', Len(plan), AtFull(traffic', plan))
  <2> SUFFICES ASSUME ~ undone' PROVE Shifted(NoCall, canary', Len(plan), AtFull(traffic', plan)) OBVIOUS
  <2>1. Shifted(drive, canary, Len(plan), AtFull(traffic, plan)) BY <1>0 DEF CanaryInv
  <2>2. ~ canary'.blocked => AtFull(traffic', plan) BY <1>0, <1>2, <1>3, <2>1 DEF Shifted
  <2> QED BY <1>4, <2>2, RestShifted
<1> QED BY <1>0, <1>1, <1>3, <1>4, <1>5, <1>6, AtRest

LEMMA PauseKeeps == ASSUME CanaryInv, PauseCanary PROVE CanaryInv'
<1>0. /\ drive = NoCall /\ canary.phase = "deploying" /\ canary' = [canary EXCEPT !.phase = "paused"]
      /\ counts' = [counts EXCEPT !.holds = @ + 1] /\ UNCHANGED <<plan, drive, traffic, flag, passed, baked, before, undone>>
      /\ canary \in RowRecord /\ counts \in CountRecord /\ baked \in Nat
  BY DEF PauseCanary, CanaryInv, CanaryTypes
<1>1. canary' \in RowRecord /\ canary'.phase = "paused" /\ canary'.snap = canary.snap /\ canary'.age = canary.age
  BY <1>0 DEF RowRecord, Phases
<1>2. counts' \in CountRecord BY <1>0 DEF CountRecord
<1>3. canary'.phase \in InFlightPhases => canary'.snap <= passed /\ (canary'.snap = passed /\ passed > 0 => canary'.age <= baked')
  BY <1>0, <1>1 DEF CanaryInv, Passing, Aged, InFlightPhases
<1>4. Exposed(canary', traffic', flag', before, plan, passed) BY <1>0 DEF CanaryInv, Exposed
<1>5. ~ undone' => Shifted(NoCall, canary', Len(plan), AtFull(traffic', plan))
  BY <1>0, <1>1, <1>2, RestShifted DEF CanaryInv, Shifted, InFlightPhases
<1> QED BY <1>0, <1>1, <1>2, <1>3, <1>4, <1>5, AtRest

LEMMA ResumeKeeps == ASSUME CanaryInv, ResumeCanary PROVE CanaryInv'
<1>0. /\ drive = NoCall /\ canary.phase = "paused" /\ canary' = [canary EXCEPT !.phase = "deploying", !.age = 0]
      /\ baked' = 0 /\ UNCHANGED <<plan, drive, traffic, flag, passed, before, undone, counts>>
      /\ canary \in RowRecord /\ counts \in CountRecord
  BY DEF ResumeCanary, CanaryInv, CanaryTypes
<1>1. canary' \in RowRecord /\ canary'.phase = "deploying" /\ canary'.snap = canary.snap /\ canary'.age = 0
  BY <1>0 DEF RowRecord, Phases
<1>2. canary'.phase \in InFlightPhases => canary'.snap <= passed /\ (canary'.snap = passed /\ passed > 0 => canary'.age <= baked')
  BY <1>0, <1>1 DEF CanaryInv, Passing, InFlightPhases
<1>3. Exposed(canary', traffic', flag', before, plan, passed) BY <1>0 DEF CanaryInv, Exposed
<1>4. ~ undone' => Shifted(NoCall, canary', Len(plan), AtFull(traffic', plan))
  BY <1>0, <1>1, RestShifted DEF CanaryInv, Shifted, InFlightPhases
<1> QED BY <1>0, <1>1, <1>2, <1>3, <1>4, AtRest

LEMMA CrashKeeps == ASSUME CanaryInv, CrashCanary PROVE CanaryInv'
<1>0. /\ counts' = [counts EXCEPT !.crashes = @ + 1] /\ drive' = NoCall
      /\ UNCHANGED <<plan, canary, traffic, flag, passed, baked, before, undone>>
      /\ canary \in RowRecord /\ counts \in CountRecord /\ baked \in Nat
  BY DEF CrashCanary, CanaryInv, CanaryTypes
<1>1. counts' \in CountRecord BY <1>0 DEF CountRecord
<1>2. canary'.phase \in InFlightPhases => canary'.snap <= passed /\ (canary'.snap = passed /\ passed > 0 => canary'.age <= baked')
  BY <1>0 DEF CanaryInv, Passing, Aged
<1>3. ~ undone' => Shifted(NoCall, canary', Len(plan), AtFull(traffic', plan))
  BY <1>0, <1>1, RestShifted DEF CanaryInv, Shifted
<1> QED BY <1>0, <1>1, <1>2, <1>3, AtRest DEF CanaryInv

-----------------------------------------------------------------------------
LEMMA TickKeeps == ASSUME CanaryInv, TickBaking \/ TickDue PROVE CanaryInv'
<1>0. /\ drive = NoCall /\ canary.phase = "deploying" /\ canary.snap > 0
      /\ UNCHANGED <<plan, canary, traffic, flag, passed, baked, before, undone, counts>>
      /\ plan \in Seq(Steps) /\ Len(plan) > 0 /\ canary \in RowRecord /\ counts \in CountRecord /\ passed \in Nat /\ baked \in Nat
  BY DEF TickBaking, TickDue, CanaryInv, CanaryTypes
<1>1. CASE UNCHANGED drive BY <1>0, <1>1 DEF CanaryInv, CanaryTypes
<1> DEFINE D(p) == [pc |-> p, at |-> canary.snap, age |-> canary.age, row |-> canary]
<1>2. CASE \E p \in {"fail", "record"} : drive' = D(p)
  <2>1. PICK p \in {"fail", "record"} : drive' = D(p) BY <1>2
  <2>2. canary.snap \in Nat /\ canary.age \in Nat BY <1>0 DEF RowRecord
  <2>3. drive' \in DriveRecord /\ drive'.pc = p /\ drive'.at = canary.snap /\ drive'.age = canary.age /\ drive'.row = canary
    BY <1>0, <2>1, <2>2 DEF DriveRecord, Places
  <2>4. /\ Passing(drive, canary, passed, Len(plan)) /\ Aged(drive, canary, passed, baked)
        /\ Exposed(canary, traffic, flag, before, plan, passed)
        /\ ~ undone => Shifted(drive, canary, Len(plan), AtFull(traffic, plan))
    BY DEF CanaryInv
  <2>5. CanaryTypes' BY <1>0, <2>3 DEF CanaryTypes
  <2>6. Working(drive', canary') BY <1>0, <2>2, <2>3 DEF Working
  <2>7. Passing(drive', canary', passed', Len(plan')) BY <1>0, <2>2, <2>3, <2>4 DEF Passing, InFlightPhases
  <2>8. Aged(drive', canary', passed', baked') BY <1>0, <2>2, <2>3, <2>4 DEF Aged, InFlightPhases
  <2>9. Recorded(drive', Len(plan')) /\ (~ undone' => Shifted(drive', canary', Len(plan'), AtFull(traffic', plan')))
    BY <1>0, <2>3, <2>4 DEF Recorded, Shifted, InFlightPhases
  <2> QED BY <1>0, <2>4, <2>5, <2>6, <2>7, <2>8, <2>9 DEF CanaryInv
<1> QED BY <1>1, <1>2 DEF TickBaking, TickDue

\* Ages and the bake move together, up to the longest pause.
LEMMA ElapseKeeps == ASSUME CanaryInv, Elapse PROVE CanaryInv'
<1> HIDE DEF MaxPause
<1>0. /\ canary.phase \in InFlightPhases /\ canary' = [canary EXCEPT !.age = Older(@)]
      /\ drive' = IF drive = NoCall THEN NoCall ELSE [drive EXCEPT !.age = Older(@), !.row.age = Older(@)]
      /\ baked' = Older(baked) /\ UNCHANGED <<plan, traffic, flag, passed, before, undone, counts>>
  BY DEF Elapse
<1>1. /\ plan \in Seq(Steps) /\ Len(plan) > 0 /\ canary \in RowRecord /\ counts \in CountRecord /\ passed \in Nat
      /\ baked \in Nat /\ drive \in DriveRecord
  BY DEF CanaryInv, CanaryTypes
<1>2. MaxPause \in Nat BY CanaryAssumption
<1>3. canary.age \in Nat /\ drive.row \in RowRecord /\ drive.age \in Nat BY <1>1 DEF RowRecord, DriveRecord
<1>4. drive.row.age \in Nat BY <1>3 DEF RowRecord
<1>5. ASSUME NEW a \in Nat PROVE Older(a) = (IF a + 1 <= MaxPause THEN a + 1 ELSE MaxPause) /\ Older(a) \in Nat
  BY <1>2, MinOfTwo DEF Older
<1>6. ASSUME NEW a \in Nat, NEW b \in Nat, a <= b PROVE Older(a) <= Older(b) BY <1>2, <1>5, <1>6
<1> HIDE DEF Older
<1>8. canary' \in RowRecord /\ canary'.age = Older(canary.age) /\ canary'.phase = canary.phase /\ canary'.snap = canary.snap
      /\ canary'.blocked = canary.blocked
  BY <1>0, <1>1, <1>3, <1>5 DEF RowRecord
<1>9. /\ Working(drive, canary) /\ Passing(drive, canary, passed, Len(plan)) /\ Aged(drive, canary, passed, baked)
      /\ Exposed(canary, traffic, flag, before, plan, passed)
      /\ Recorded(drive, Len(plan)) /\ (~ undone => Shifted(drive, canary, Len(plan), AtFull(traffic, plan)))
  BY DEF CanaryInv
<1>10. /\ drive' \in DriveRecord /\ drive'.pc = drive.pc /\ drive'.at = drive.at /\ drive'.row.snap = drive.row.snap
       /\ drive'.row.step = drive.row.step /\ drive'.row.phase = drive.row.phase
       /\ drive.pc # "idle" => drive'.age = Older(drive.age) /\ drive'.row.age = Older(drive.row.age)
       /\ drive.pc = "idle" => drive' = drive
  <2>1. CASE drive = NoCall
    <3>1. drive' = drive /\ drive.pc = "idle" BY <1>0, <2>1 DEF NoCall
    <3> QED BY <1>1, <3>1
  <2>2. CASE drive # NoCall
    <3> DEFINE r == [drive.row EXCEPT !.age = Older(drive.row.age)]
    <3>1. drive' = [drive EXCEPT !.age = Older(drive.age), !.row = r] BY <1>0, <1>1, <2>2 DEF DriveRecord
    <3>2. /\ r \in RowRecord /\ r.age = Older(drive.row.age) /\ r.snap = drive.row.snap /\ r.step = drive.row.step
          /\ r.phase = drive.row.phase
      BY <1>3, <1>4, <1>5 DEF RowRecord
    <3> HIDE DEF r
    <3>3. drive' \in DriveRecord /\ drive'.pc = drive.pc /\ drive'.at = drive.at /\ drive'.row = r /\ drive'.age = Older(drive.age)
      BY <1>1, <1>3, <1>5, <3>1, <3>2 DEF DriveRecord
    <3>4. drive.pc # "idle" BY <1>9, <2>2 DEF Working
    <3> QED BY <3>2, <3>3, <3>4
  <2> QED BY <2>1, <2>2
<1>11. CanaryTypes' BY <1>0, <1>1, <1>5, <1>8, <1>10 DEF CanaryTypes
<1>12. Working(drive', canary') BY <1>8, <1>9, <1>10 DEF Working
<1>13. Passing(drive', canary', passed', Len(plan')) BY <1>0, <1>8, <1>9, <1>10 DEF Passing
<1>14. Aged(drive', canary', passed', baked')
  <2>1. canary.age <= baked => canary'.age <= baked' BY <1>0, <1>1, <1>3, <1>6, <1>8
  <2>2. drive.row.age <= baked => Older(drive.row.age) <= baked' BY <1>0, <1>1, <1>4, <1>6
  <2>3. drive.age <= baked => Older(drive.age) <= baked' BY <1>0, <1>1, <1>3, <1>6
  <2> QED BY <1>0, <1>8, <1>9, <1>10, <2>1, <2>2, <2>3 DEF Aged
<1>15. Exposed(canary', traffic', flag', before', plan', passed') BY <1>0, <1>8, <1>9 DEF Exposed
<1>16. Recorded(drive', Len(plan')) /\ (~ undone' => Shifted(drive', canary', Len(plan'), AtFull(traffic', plan')))
  BY <1>0, <1>8, <1>9, <1>10 DEF Recorded, Shifted
<1> QED BY <1>11, <1>12, <1>13, <1>14, <1>15, <1>16 DEF CanaryInv

LEMMA CanarySteps == CanaryInv /\ [CanaryNext]_canaryVars => CanaryInv'
<1> SUFFICES ASSUME CanaryInv, [CanaryNext]_canaryVars PROVE CanaryInv' OBVIOUS
<1>1. CASE UNCHANGED canaryVars BY <1>1 DEF canaryVars, CanaryInv, CanaryTypes
<1> QED BY <1>1, BeginKeeps, StartKeeps, RecordKeeps, RecordedKeeps, ShiftKeeps, AdvanceKeeps, SnapshotKeeps,
           RevertKeeps, RevertedKeeps, MarkKeeps, StoreKeeps, RecoverKeeps, TickKeeps, PauseKeeps, ResumeKeeps, AbortKeeps, PromoteKeeps, RollbackKeeps, CrashKeeps, ElapseKeeps
        DEF CanaryNext, CanaryCall, CanaryTick

LEMMA CanaryHolds == CanarySpec => []CanaryInv
BY CanaryStarts, CanarySteps, PTL DEF CanarySpec

-----------------------------------------------------------------------------
\* Neither the router nor the flag is given a share that no step which passed its
\* gate in this rollout stands for, whatever the plan and wherever crashes, holds
\* and lost writes fall (driveStepper, recordStep and their restore in tickStepper).
THEOREM ExposureIsGated == CanarySpec => []ExposureWithinGate
<1>1. CanaryInv => ExposureWithinGate
  BY GatedIsInGate DEF CanaryInv, Exposed, ExposureWithinGate
<1> QED BY <1>1, CanaryHolds, PTL

\* A rollout that was not handed over by recoverInterrupted is promoted only with its
\* last weight on the router, wherever crashes fall and writes are lost, unless a
\* rollback reset its traffic, could not be stored, and no step was shifted after it.
THEOREM ShiftsSurvive == CanarySpec => []ShiftSurvivesCrash
<1>1. CanaryInv => ShiftSurvivesCrash
  <2> SUFFICES ASSUME CanaryInv, ~ undone, canary.phase = "promoted", ~ canary.blocked
               PROVE  traffic = Weight(Len(plan))
    BY DEF ShiftSurvivesCrash, PromotedIsShifted
  <2>1. AtFull(traffic, plan) BY DEF CanaryInv, Shifted
  <2>2. Len(plan) # 0 BY DEF CanaryInv, CanaryTypes
  <2> QED BY <2>1, <2>2 DEF AtFull, Weight
<1> QED BY <1>1, CanaryHolds, PTL

\* Steps pass one after the other, each only once the one before it has baked for
\* its whole pause: what a step shows of its age is never ahead of the time since
\* it passed or since Resume.
THEOREM BakesAreFull == CanarySpec => BakesFully
<1> DEFINE B == passed' > passed /\ passed > 0 => passed' = passed + 1 /\ baked >= plan[passed].pause
<1>1. CanaryInv /\ [CanaryNext]_canaryVars => [B]_canaryVars
  <2> SUFFICES ASSUME CanaryInv, CanaryNext, passed' > passed, passed > 0
               PROVE  passed' = passed + 1 /\ baked >= plan[passed].pause
    OBVIOUS
  <2>0. passed \in Nat /\ baked \in Nat /\ drive \in DriveRecord /\ drive.row \in RowRecord /\ drive.at \in Nat /\ CanaryTypes
    BY DEF CanaryInv, CanaryTypes, DriveRecord
  <2>1. CASE StartStepper BY <2>1 DEF CanaryInv, Passing, StartStepper
  <2>2. CASE Advance
    <3>1. drive.pc = "advance" /\ ~ Baking BY <2>2 DEF Advance
    <3> DEFINE r == drive.row
    <3>2. r \in RowRecord BY <2>0
    <3>3. drive.at < Len(plan) /\ Enter(drive.at + 1, r) BY <2>2, <2>0 DEF Advance
    <3> HIDE DEF r
    <3>4. passed' = passed \/ (drive.at + 1 > passed /\ passed' = drive.at + 1) BY <2>0, <3>2, <3>3, EnterCases
    <3>5. drive.at \in 1 .. passed BY <3>1 DEF CanaryInv, Passing
    <3>6. drive.at = passed /\ passed' = passed + 1 BY <2>0, <3>4, <3>5
    <3>7. drive.age <= baked BY <3>1, <3>6 DEF CanaryInv, Aged
    <3>8. plan[drive.at].pause \in Int /\ drive.age \in Nat
      <4>1. plan[drive.at] \in Steps BY <2>0, <3>3, <3>5 DEF CanaryTypes
      <4> QED BY <2>0, <4>1 DEF Steps, DriveRecord
    <3>9. ~ (plan[drive.at].pause > drive.age) BY <3>1, <3>3, <2>0 DEF Baking, CanaryTypes
    <3> QED BY <2>0, <3>6, <3>7, <3>8, <3>9
  <2>3. CASE BeginCanary BY <2>0, <2>3 DEF BeginCanary
  <2>4. CASE UNCHANGED passed BY <2>0, <2>4
  <2> QED BY <2>1, <2>2, <2>3, <2>4
        DEF CanaryNext, CanaryCall, CanaryTick, RecordStep, AlreadyRecorded, Shift, SaveSnapshot, RevertFailed, StoreReverted,
            MarkFailed, StoreRolledBack,
            RecoverInterrupted, TickBaking, TickDue, PauseCanary, ResumeCanary, AbortCanary, PromoteCanary,
            RollbackVerified, CrashCanary, Elapse
<1> QED BY <1>1, CanaryHolds, PTL DEF CanarySpec, BakesFully

-----------------------------------------------------------------------------
\* The weights of a plan, as Exposure sees them.
Weights(p) == [i \in DOMAIN p |-> p[i].weight]

\* Only BeginCanary, a step that passed, a write of the row and a shift are seen.
LEMMA Unseen == ASSUME UNCHANGED <<plan, traffic, passed>>, canary'.phase = canary.phase PROVE UNCHANGED E0!vars
BY DEF E0!vars, mode

LEMMA WeightsAreNumbers == ASSUME CanaryTypes PROVE Weights(plan) \in Seq(Int) /\ Len(Weights(plan)) = Len(plan)
<1>1. plan \in Seq(Steps) /\ DOMAIN plan = 1 .. Len(plan) BY DEF CanaryTypes
<1>2. ASSUME NEW i \in 1 .. Len(plan) PROVE plan[i].weight \in Int
  <2>1. plan[i] \in Steps BY <1>1
  <2> QED BY <2>1 DEF Steps
<1>3. Weights(plan) = [i \in 1 .. Len(plan) |-> plan[i].weight] BY <1>1 DEF Weights
<1> QED BY <1>1, <1>2, <1>3


\* A write of the row moves Exposure's mode or nothing.
LEMMA PhaseAfter ==
  ASSUME CanaryTypes, NEW r \in RowRecord, Save(r)
  PROVE  canary'.phase \in {r.phase, canary.phase}
BY SaveCases

LEMMA ExposureStarts == CanaryInit => E0!Init
<1> SUFFICES ASSUME CanaryInit PROVE E0!Init OBVIOUS
<1>1. Weights(plan) \in Seq(Int) BY CanaryStarts, WeightsAreNumbers DEF CanaryInv
<1> QED BY <1>1 DEF E0!Init, CanaryInit, mode, NoRow, Weights

LEMMA ExposureSteps == CanaryInv /\ [CanaryNext]_canaryVars => [E0!Next]_(E0!vars)
<1> SUFFICES ASSUME CanaryInv, [CanaryNext]_canaryVars PROVE [E0!Next]_(E0!vars) OBVIOUS
<1> USE DEF mode
<1>0. /\ CanaryTypes /\ plan \in Seq(Steps) /\ passed \in Nat /\ canary \in RowRecord /\ drive \in DriveRecord
      /\ drive.row \in RowRecord /\ drive.at \in Nat /\ Len(plan) \in Nat
      /\ Working(drive, canary) /\ Passing(drive, canary, passed, Len(plan))
  BY DEF CanaryInv, CanaryTypes, DriveRecord
<1>1. UNCHANGED plan
  BY DEF CanaryNext, CanaryCall, CanaryTick, BeginCanary, StartStepper, RecordStep, AlreadyRecorded, Shift, Advance, SaveSnapshot,
         RevertFailed, StoreReverted, MarkFailed, StoreRolledBack, RecoverInterrupted, TickBaking, TickDue, PauseCanary, ResumeCanary, AbortCanary,
         PromoteCanary, RollbackVerified, CrashCanary, Elapse, canaryVars
<1>2. CASE BeginCanary
  <2>1. canary'.phase = "deploying" BY <1>2 DEF BeginCanary, NoRow
  <2>2. E0!Begin BY <1>2, <2>1 DEF E0!Begin, BeginCanary, Over
  <2> QED BY <1>1, <2>2 DEF E0!Next
<1>3. ASSUME NEW i \in Nat, NEW r \in RowRecord, Enter(i, r), UNCHANGED <<canary, traffic>>, canary.phase = "deploying",
             i <= passed + 1, i <= Len(plan)
      PROVE  [E0!Next]_(E0!vars)
  <2>1. passed' = passed \/ (i > passed /\ passed' = i) BY <1>0, <1>3, EnterCases
  <2>2. CASE passed' = passed BY <1>1, <1>3, <2>2, Unseen
  <2>3. CASE i > passed /\ passed' = i
    <3>1. passed' = passed + 1 /\ passed < Len(plan) BY <1>0, <1>3, <2>3
    <3>2. Len(Weights(plan)) = Len(plan) BY <1>0, WeightsAreNumbers
    <3>3. E0!Pass BY <1>3, <3>1, <3>2 DEF E0!Pass, Weights
    <3> QED BY <1>1, <3>3 DEF E0!Next
  <2> QED BY <2>1, <2>2, <2>3
<1>4. CASE StartStepper
  <2> DEFINE r == drive.row
  <2>1. r \in RowRecord BY <1>0
  <2>2. Enter(1, r) /\ UNCHANGED <<canary, traffic>> /\ drive.pc = "start" BY <1>4 DEF StartStepper
  <2> HIDE DEF r
  <2>3. canary.phase = "deploying" /\ 1 <= passed + 1 /\ 1 <= Len(plan)
    BY <1>0, <2>2 DEF Working, CanaryTypes
  <2> QED BY <1>3, <2>1, <2>2, <2>3
<1>5. CASE Advance
  <2> DEFINE r == drive.row
  <2>1. r \in RowRecord BY <1>0
  <2>2. UNCHANGED <<canary, traffic>> /\ drive.pc = "advance" BY <1>5 DEF Advance
  <2>3. CASE UNCHANGED passed BY <1>1, <2>2, <2>3, Unseen
  <2>4. CASE drive.at < Len(plan) /\ Enter(drive.at + 1, r)
    <3>1. canary.phase = "deploying" /\ drive.at + 1 <= passed + 1 /\ drive.at + 1 <= Len(plan) /\ drive.at + 1 \in Nat
      BY <1>0, <2>2, <2>4 DEF Working, Passing
    <3> HIDE DEF r
    <3> QED BY <1>3, <2>1, <2>2, <2>4, <3>1
  <2> QED BY <1>5, <2>3, <2>4 DEF Advance
<1>6. CASE Shift
  <2>1. drive.pc = "shift" /\ UNCHANGED <<canary, passed>> /\ traffic' \in {traffic, Weight(drive.at)} BY <1>6 DEF Shift
  <2>2. drive.at \in 1 .. passed /\ drive.at # 0 /\ canary.phase = "deploying" /\ drive.at \in 1 .. Len(plan)
    BY <1>0, <2>1 DEF Working, Passing
  <2>3. Weight(drive.at) = Weights(plan)[drive.at] BY <1>0, <2>2 DEF Weight, Weights
  <2>4. CASE traffic' = traffic BY <1>1, <2>1, <2>4, Unseen
  <2>5. CASE traffic' = Weights(plan)[drive.at]
    <3>1. E0!Raise BY <2>1, <2>2, <2>5 DEF E0!Raise, Weights
    <3> QED BY <1>1, <3>1 DEF E0!Next
  <2> QED BY <2>1, <2>3, <2>4, <2>5
<1>7. CASE AlreadyRecorded \/ TickBaking \/ TickDue \/ CrashCanary
  BY <1>1, <1>7, Unseen DEF AlreadyRecorded, TickBaking, TickDue, CrashCanary
<1>8. CASE Elapse
  <2>1. canary'.phase = canary.phase BY <1>0, <1>8 DEF Elapse, RowRecord
  <2> QED BY <1>1, <1>8, <2>1, Unseen DEF Elapse
<1>9. CASE RecordStep
  <2> DEFINE r == [drive.row EXCEPT !.step = drive.at]
  <2>1. r \in RowRecord /\ r.phase = drive.row.phase BY <1>0 DEF RowRecord
  <2>2. Save(r) /\ UNCHANGED <<traffic, passed>> /\ drive.pc = "record" BY <1>9 DEF RecordStep
  <2> HIDE DEF r
  <2>3. canary'.phase = canary.phase BY <1>0, <2>1, <2>2, PhaseAfter DEF Working
  <2> QED BY <1>1, <2>2, <2>3, Unseen
<1>10. ASSUME NEW r \in RowRecord, Save(r), UNCHANGED <<traffic, passed>>, canary.phase = "deploying",
              r.phase \in {"deploying", "verifying"}
       PROVE  [E0!Next]_(E0!vars)
  <2>1. canary'.phase \in {r.phase, canary.phase} BY <1>0, <1>10, PhaseAfter
  <2>2. CASE canary'.phase = canary.phase BY <1>1, <1>10, <2>2, Unseen
  <2>3. CASE canary'.phase = "verifying"
    <3>1. E0!Settle BY <1>10, <2>3 DEF E0!Settle
    <3> QED BY <1>1, <3>1 DEF E0!Next
  <2> QED BY <1>10, <2>1, <2>2, <2>3
<1>11. CASE SaveSnapshot
  <2> DEFINE p == IF drive.pc = "complete" THEN "verifying" ELSE "deploying"
             r == [drive.row EXCEPT !.snap = drive.at, !.age = drive.age, !.phase = p]
  <2>1. p \in {"deploying", "verifying"} /\ p \in Phases BY DEF Phases
  <2>2. Save(r) /\ UNCHANGED <<traffic, passed>> /\ drive.pc \in {"advance", "complete"} BY <1>11 DEF SaveSnapshot
  <2> HIDE DEF p
  <2>3. r \in RowRecord /\ r.phase = p BY <1>0, <2>1 DEF RowRecord, DriveRecord
  <2> HIDE DEF r
  <2>4. canary.phase = "deploying" BY <1>0, <2>2 DEF Working
  <2> QED BY <1>10, <2>1, <2>2, <2>3, <2>4
<1>12. CASE RecoverInterrupted
  <2> DEFINE r == [canary EXCEPT !.phase = "verifying", !.revert = FALSE, !.blocked = TRUE]
  <2>1. r \in RowRecord /\ r.phase = "verifying" BY <1>0 DEF RowRecord, Phases
  <2>2. Save(r) /\ UNCHANGED <<traffic, passed>> /\ canary.phase = "deploying" BY <1>12 DEF RecoverInterrupted
  <2> HIDE DEF r
  <2> QED BY <1>10, <2>1, <2>2
<1>13. ASSUME NEW r \in RowRecord, Save(r), r.phase \in {"rolled-back", "promoted"}, UNCHANGED <<passed, traffic>>,
              canary.phase \in {"deploying", "paused", "verifying"}
       PROVE  [E0!Next]_(E0!vars)
  <2>1. canary'.phase \in {r.phase, canary.phase} BY <1>0, <1>13, PhaseAfter
  <2>2. CASE canary'.phase = r.phase
    <3>1. E0!End BY <1>13, <2>2 DEF E0!End
    <3> QED BY <1>1, <3>1 DEF E0!Next
  <2>3. CASE canary'.phase = canary.phase BY <1>1, <1>13, <2>3, Unseen
  <2> QED BY <1>13, <2>1, <2>2, <2>3
<1>14. CASE StoreReverted \/ MarkFailed
  <2>1. Save(RolledBack(drive.row)) /\ UNCHANGED <<passed, traffic>> /\ drive.pc \in {"reverted", "fail", "mark"}
    BY <1>14 DEF StoreReverted, MarkFailed
  <2>2. canary.phase = "deploying" BY <1>0, <2>1 DEF Working
  <2> QED BY <1>0, <1>13, <2>1, <2>2, RolledBackRow
<1>15. CASE StoreRolledBack
  <2>1. Save(drive.row) /\ UNCHANGED <<passed, traffic>> /\ drive.pc = "store" BY <1>15 DEF StoreRolledBack
  <2>2. canary.phase \in {"deploying", "paused", "verifying"} /\ drive.row.phase = "rolled-back" BY <1>0, <2>1 DEF Working
  <2> QED BY <1>0, <1>13, <2>1, <2>2
<1>16. CASE RevertFailed \/ AbortCanary \/ RollbackVerified
  <2>1. UNCHANGED <<canary, passed>> /\ traffic' \in {traffic, 0} /\ (drive.pc = "fail" \/ canary.phase \in {"deploying", "paused", "verifying"})
    BY <1>16 DEF RevertFailed, AbortCanary, RollbackVerified, resetDelivery, InFlightPhases
  <2>2. canary.phase \in {"deploying", "paused", "verifying"} BY <1>0, <2>1 DEF Working
  <2>3. CASE traffic' = traffic BY <1>1, <2>1, <2>3, Unseen
  <2>4. CASE traffic' = 0
    <3>1. E0!Reset BY <2>1, <2>2, <2>4 DEF E0!Reset
    <3> QED BY <1>1, <3>1 DEF E0!Next
  <2> QED BY <2>1, <2>3, <2>4
<1>17. CASE PromoteCanary
  <2> DEFINE r == [canary EXCEPT !.phase = "promoted"]
  <2>1. r \in RowRecord /\ r.phase = "promoted" BY <1>0 DEF RowRecord, Phases
  <2>2. Save(r) /\ UNCHANGED <<passed, traffic>> /\ canary.phase = "verifying" BY <1>17 DEF PromoteCanary
  <2> HIDE DEF r
  <2> QED BY <1>13, <2>1, <2>2
<1>18. CASE PauseCanary
  <2>1. canary.phase = "deploying" /\ canary'.phase = "paused" /\ UNCHANGED <<traffic, passed>>
    BY <1>0, <1>18 DEF PauseCanary, RowRecord
  <2>2. E0!Hold BY <2>1 DEF E0!Hold
  <2> QED BY <1>1, <2>2 DEF E0!Next
<1>19. CASE ResumeCanary
  <2>1. canary.phase = "paused" /\ canary'.phase = "deploying" /\ UNCHANGED <<traffic, passed>>
    BY <1>0, <1>19 DEF ResumeCanary, RowRecord
  <2>2. E0!Release BY <2>1 DEF E0!Release
  <2> QED BY <1>1, <2>2 DEF E0!Next
<1>20. CASE UNCHANGED canaryVars BY <1>20, Unseen DEF canaryVars
<1> QED BY <1>2, <1>4, <1>5, <1>6, <1>7, <1>8, <1>9, <1>11, <1>12, <1>14, <1>15, <1>16, <1>17, <1>18, <1>19, <1>20
        DEF CanaryNext, CanaryCall, CanaryTick

\* The stepper, its driver, the router and the operators move traffic only as
\* Exposure allows, whatever the plan: every step of a canary is a step of
\* Exposure or is not seen there.
THEOREM CanaryRefines == CanarySpec => ImplementsExposure
BY ExposureStarts, ExposureSteps, CanaryHolds, PTL DEF CanarySpec, ImplementsExposure, E0!Spec

-----------------------------------------------------------------------------
\* The gates.  The answers, results and measurements that a run of them handles.
Statuses == {"pass", "fail", "skipped", "not-run"}
Results == [gate : {"health", "smoke", "analysis"}, status : Statuses]
GateRecord == [at : 1 .. 4, try : Nat, streak : Nat]
Samples == Nat \cup {NaN}
Series == (UNION {[DOMAIN t.metrics -> Answers] : t \in Templates}) \cup {<<>>}
Measurements == [answer : {"pass", "fail", "error", "unbuilt"}, series : Series]
HealthSeen == HealthAnswers \cup {"unbuilt", "cancelled"}
SeenRecord == [health : Seq(HealthSeen), smoke : Seq(SmokeAnswers), analysis : Seq(Measurements)]

GatesTypes ==
  /\ gs \in [path : {"auto", "manual"}, health : BOOLEAN, smoke : BOOLEAN, analysis : Templates \cup {NoTemplate}]
  /\ results \in Seq(Results) /\ gate \in GateRecord /\ seen \in SeenRecord
  /\ gate.at = Len(results) + 1
  /\ \A i \in 1 .. Len(results) : results[i].gate = GateNames[i]

\* Health, configured or not (on), after the answers s: errors that are tried again,
\* or a result that the last answers are the reason of.
HealthSide(on, r, g, s) ==
  /\ g.at = 1 => Len(s) = g.try /\ g.try < healthAttempts /\ \A i \in 1 .. Len(s) : s[i] = "error"
  /\ Len(r) >= 1 =>
       /\ r[1].status # "not-run"
       /\ r[1].status = "skipped" => ~ on
       /\ r[1].status = "pass" => s # <<>> /\ Last(s) \in {"healthy", "degraded", "unknown"}
       /\ r[1].status = "fail" => \/ s # <<>> /\ Last(s) \in {"unhealthy", "unbuilt", "cancelled"}
                                  \/ Len(s) = healthAttempts /\ \A i \in 1 .. healthAttempts : s[i] = "error"

SmokeSide(on, r, g, s) ==
  /\ g.at <= 2 => s = <<>>
  /\ Len(r) >= 2 =>
       /\ r[2].status = "not-run" => r[1].status = "fail"
       /\ r[2].status = "skipped" => ~ on
       /\ r[2].status = "pass" => s = <<"expected">>
       /\ r[2].status = "fail" => s \in {<<"otherExit">>, <<"error">>}

\* The newest k of the measurements s did not pass, the one before them did, and
\* never more than n in a row failed.
Streak(s, k, n) ==
  /\ k <= n /\ k <= Len(s)
  /\ \A j \in (Len(s) - k + 1) .. Len(s) : Bad(s[j])
  /\ k < Len(s) => ~ Bad(s[Len(s) - k])
  /\ ~ BadRun(s, n)

AnalysisSide(t, r, g, s) ==
  /\ g.at < 3 => s = <<>>
  /\ g.at = 3 => Len(s) = g.try /\ g.try < Count(t) /\ Streak(s, g.streak, Tolerated(t))
  /\ Len(r) >= 3 =>
       /\ r[3].status = "not-run" => r[1].status = "fail" \/ r[2].status = "fail"
       /\ r[3].status = "skipped" => t = NoTemplate
       /\ r[3].status = "pass" => Len(s) = Count(t) /\ Last(s).answer # "error" /\ ~ BadRun(s, Tolerated(t))
       /\ r[3].status = "fail" => \/ ~ NewAnalyzer(t) \/ BadRun(s, Tolerated(t))
                                  \/ s # <<>> /\ Last(s).answer \in {"error", "unbuilt"}

GatesInv ==
  /\ GatesTypes
  /\ HealthSide(gs.health, results, gate, seen.health)
  /\ SmokeSide(gs.smoke, results, gate, seen.smoke)
  /\ AnalysisSide(gs.analysis, results, gate, seen.analysis)
  /\ NoHiddenSeries

-----------------------------------------------------------------------------
\* A series with a number has a largest one: the first prefix without an upper bound
\* would be one longer than a prefix with one, and the least bound is a sample.
LEMMA LeastOf == ASSUME NEW T, T \subseteq Nat, T # {} PROVE \E x \in T : \A y \in T : x <= y
<1> DEFINE R == OpToRel(<, Nat)
<1>1. IsWellFoundedOn(R, Nat) BY NatLessThanWellFounded
<1>2. \A x, y \in Nat : y < x => <<y, x>> \in R BY DEF OpToRel
<1> HIDE DEF R
<1>3. PICK x \in T : \A y \in T : ~(<<y, x>> \in R) BY <1>1, WFMin
<1>4. ASSUME NEW y \in T PROVE x <= y
  <2>1. x \in Nat /\ y \in Nat OBVIOUS
  <2>2. ~(y < x) BY <1>2, <1>3, <2>1
  <2> QED BY <2>1, <2>2
<1> QED BY <1>4

LEMMA SeriesBounded == ASSUME NEW s \in Seq(Int) PROVE \E b \in Nat : \A i \in 1 .. Len(s) : s[i] <= b
<1> DEFINE T == {n \in 0 .. Len(s) : ~ \E b \in Nat : \A i \in 1 .. n : s[i] <= b}
<1>1. Len(s) \in Nat /\ \A i \in 1 .. Len(s) : s[i] \in Int OBVIOUS
<1>2. T \subseteq Nat BY <1>1
<1>3. ASSUME T # {} PROVE FALSE
  <2> DEFINE Least(n) == n \in T /\ \A y \in T : n <= y
  <2>1. \E n : Least(n)
    <3> HIDE DEF T
    <3> QED BY <1>2, <1>3, LeastOf
  <2>2. PICK n : Least(n) BY <2>1
  <2>3. n \in Nat /\ n <= Len(s) /\ ~ \E b \in Nat : \A i \in 1 .. n : s[i] <= b BY <1>1, <2>2
  <2>4. n # 0
    <3>1. \A i \in 1 .. 0 : s[i] <= 0 OBVIOUS
    <3> QED BY <2>3, <3>1
  <2>5. n - 1 \in 0 .. Len(s) /\ n - 1 \notin T
    <3>1. n - 1 \in 0 .. Len(s) BY <1>1, <2>3, <2>4
    <3>2. ~ (n <= n - 1) BY <2>3
    <3> HIDE DEF T
    <3> QED BY <2>2, <3>1, <3>2
  <2>6. PICK b \in Nat : \A i \in 1 .. n - 1 : s[i] <= b BY <2>5
  <2> DEFINE c == IF b >= s[n] THEN b ELSE s[n]
  <2>7. s[n] \in Int BY <1>1, <2>3, <2>4
  <2>8. c \in Nat /\ \A i \in 1 .. n : s[i] <= c
    <3>1. c \in Nat /\ b <= c /\ s[n] <= c BY <2>7
    <3> HIDE DEF c
    <3>2. ASSUME NEW i \in 1 .. n PROVE s[i] <= c
      <4>1. CASE i = n BY <3>1, <4>1
      <4>2. CASE i # n
        <5>1. i \in 1 .. n - 1 /\ i \in 1 .. Len(s) BY <1>1, <2>3, <4>2
        <5>2. s[i] \in Int /\ s[i] <= b BY <1>1, <2>6, <5>1
        <5> QED BY <3>1, <5>2
      <4> QED BY <4>1, <4>2
    <3> QED BY <3>1, <3>2
  <2> HIDE DEF c
  <2> QED BY <2>3, <2>8
<1>4. T = {} BY <1>3
<1>5. Len(s) \in 0 .. Len(s) BY <1>1
<1> QED BY <1>4, <1>5

LEMMA MaxIsLargest ==
  ASSUME NEW s \in Seq(Samples), Numbers(s) # {}
  PROVE  Max(Numbers(s)) \in Nat /\ \A i \in 1 .. Len(s) : s[i] # NaN => s[i] <= Max(Numbers(s))
<1> DEFINE B == {b \in Nat : \A i \in 1 .. Len(s) : s[i] <= b}
<1>1. /\ Len(s) \in Nat /\ DOMAIN s = 1 .. Len(s) /\ s \in Seq(Int) /\ NaN = -2
      /\ \A i \in 1 .. Len(s) : s[i] \in Int /\ (s[i] # NaN => s[i] \in Nat)
  BY DEF Samples, NaN
<1>2. B \subseteq Nat /\ B # {} BY <1>1, SeriesBounded
<1>3. PICK b \in B : \A y \in B : b <= y
  <2> HIDE DEF B
  <2> QED BY <1>2, LeastOf
<1>4. b \in Nat /\ \A i \in 1 .. Len(s) : s[i] <= b OBVIOUS
<1>5. PICK j \in 1 .. Len(s) : s[j] # NaN BY <1>1 DEF Numbers, Range
<1>6. \E i \in 1 .. Len(s) : s[i] = b
  <2> SUFFICES ASSUME \A i \in 1 .. Len(s) : s[i] # b PROVE FALSE OBVIOUS
  <2>1. \A i \in 1 .. Len(s) : s[i] < b BY <1>1, <1>4
  <2>2. b > 0 BY <1>1, <1>4, <1>5, <2>1
  <2>3. b - 1 \in Nat /\ \A i \in 1 .. Len(s) : s[i] <= b - 1 BY <1>1, <1>4, <2>1, <2>2
  <2>4. b - 1 \in B BY <2>3
  <2> HIDE DEF B
  <2>5. b <= b - 1 BY <1>3, <2>4
  <2> QED BY <1>4, <2>5
<1>7. b # NaN BY <1>1, <1>4
<1>8. \A y \in Numbers(s) : \E i \in 1 .. Len(s) : y = s[i] /\ y # NaN BY <1>1 DEF Numbers, Range
<1>9. b \in Numbers(s) /\ \A y \in Numbers(s) : b >= y
  <2>1. b \in Numbers(s) BY <1>1, <1>6, <1>7 DEF Numbers, Range
  <2> QED BY <1>1, <1>4, <1>8, <2>1
<1> HIDE DEF B
<1>10. Max(Numbers(s)) \in Numbers(s) /\ \A y \in Numbers(s) : Max(Numbers(s)) >= y BY <1>9, Zenon DEF Max
<1>11. \A i \in 1 .. Len(s) : s[i] # NaN => s[i] \in Numbers(s) BY <1>1 DEF Numbers, Range
<1>12. Max(Numbers(s)) \in Nat BY <1>1, <1>8, <1>10
<1> QED BY <1>1, <1>10, <1>11, <1>12

\* A query without aggregation, or with the largest sample, that gives a number.
LEMMA QueryCases ==
  ASSUME NEW m, NEW a, queryMetric(m, a) \notin {Err, NaN}, m.aggregation \notin {"min", "any", "sum"}
  PROVE  \/ Len(a) = 1 /\ queryMetric(m, a) = a[1]
         \/ a # <<>> /\ a[1] # NaN /\ queryMetric(m, a) = Max(Numbers(a))
<1>1. CASE m.aggregation = ""
  <2>1. queryMetric(m, a) = Query(a) BY <1>1 DEF queryMetric
  <2> QED BY <2>1 DEF Query
<1>2. CASE m.aggregation # "" /\ m.provider = "plugin" BY <1>2 DEF queryMetric
<1>3. CASE m.aggregation # "" /\ m.provider # "plugin"
  <2> DEFINE g == m.aggregation
  <2>1. queryMetric(m, a) = Aggregate(a, g) BY <1>3 DEF queryMetric
  <2>2. g \notin {"min", "any", "sum"} OBVIOUS
  <2> HIDE DEF g
  <2>3. a = <<>> => Aggregate(a, g) = Err BY DEF Aggregate
  <2>4. a # <<>> /\ g = "max" => Aggregate(a, g) = IF a[1] = NaN THEN NaN ELSE Max(Numbers(a)) BY DEF Aggregate
  <2>5. a # <<>> /\ g # "max" => Aggregate(a, g) = Err BY <2>2 DEF Aggregate
  <2> QED BY <2>1, <2>3, <2>4, <2>5
<1> QED BY <1>1, <1>2, <1>3

LEMMA OneIsSome == ASSUME NEW x, Len(x) = 1 PROVE x # <<>>
<1>1. Len(<<>>) = 0 OBVIOUS
<1>2. ASSUME x = <<>> PROVE FALSE
  <2>1. Len(x) = Len(<<>>) BY <1>2, Zenon
  <2>2. Len(<<>>) = 1 BY <2>1, Zenon
  <2> QED BY <1>1, <2>2
<1> QED BY <1>2

\* A measurement that passes saw healthy series, where the aggregation hides none.
LEMMA PassIsHealthy ==
  ASSUME NEW t \in Templates, NEW answers \in [DOMAIN t.metrics -> Answers]
  PROVE  SeriesHealthy([answer |-> measure(t, answers), series |-> answers], t.metrics)
<1> DEFINE e == [answer |-> measure(t, answers), series |-> answers]
           values == [i \in DOMAIN t.metrics |-> queryMetric(t.metrics[i], answers[i])]
<1>1. measure(t, answers) = IF \E i \in DOMAIN values : values[i] = Err THEN "error"
                            ELSE IF \E i \in DOMAIN values : values[i] # NaN /\ values[i] >= Threshold THEN "fail"
                            ELSE IF \E i \in DOMAIN values : values[i] = NaN THEN "error" ELSE "pass"
  BY DEF measure
<1>2. ASSUME measure(t, answers) = "pass", NEW k \in DOMAIN t.metrics,
             t.metrics[k].aggregation \notin {"min", "any", "sum"}
      PROVE  /\ answers[k] # <<>> /\ answers[k][1] # NaN
             /\ \A s \in DOMAIN answers[k] : answers[k][s] # NaN => answers[k][s] < Threshold
  <2> DEFINE q == queryMetric(t.metrics[k], answers[k])
             a == answers[k]
  <2>1. values[k] = q /\ DOMAIN values = DOMAIN t.metrics OBVIOUS
  <2> HIDE DEF values
  <2>2. q \notin {Err, NaN} /\ ~ (q >= Threshold) BY <1>1, <1>2, <2>1
  <2>3. a \in Seq(Samples) /\ Threshold \in Int /\ NaN = -2 BY GatesAssumption DEF Samples, NaN
  <2>4. Len(a) \in Nat /\ DOMAIN a = 1 .. Len(a) /\ \A i \in 1 .. Len(a) : a[i] \in Samples BY <2>3
  <2>5. (Len(a) = 1 /\ q = a[1]) \/ (a # <<>> /\ a[1] # NaN /\ q = Max(Numbers(a))) BY <1>2, <2>2, QueryCases
  <2> HIDE DEF q, a
  <2>6. CASE Len(a) = 1 /\ q = a[1]
    <3>1. a # <<>> /\ a[1] \in Samples
      <4>1. a[1] \in Samples BY <2>4, <2>6
      <4> QED BY <2>6, <4>1, OneIsSome
    <3>2. q \in Int BY <2>3, <2>6, <3>1 DEF Samples
    <3>3. a[1] # NaN /\ a[1] < Threshold BY <2>2, <2>3, <2>6, <3>2
    <3> QED BY <2>4, <2>6, <3>1, <3>3 DEF a
  <2>7. CASE a # <<>> /\ a[1] # NaN /\ q = Max(Numbers(a))
    <3>1. Numbers(a) # {}
      <4>1. 1 \in DOMAIN a BY <2>3, <2>4, <2>7
      <4> QED BY <2>7, <4>1 DEF Numbers, Range
    <3>2. \A i \in 1 .. Len(a) : a[i] # NaN => a[i] <= q BY <2>3, <2>7, <3>1, MaxIsLargest
    <3>3. q \in Nat BY <2>3, <2>7, <3>1, MaxIsLargest
    <3>4. ASSUME NEW i \in 1 .. Len(a), a[i] # NaN PROVE a[i] < Threshold
      <4>1. a[i] \in Nat /\ a[i] <= q BY <2>3, <2>4, <3>2, <3>4 DEF Samples
      <4> QED BY <2>2, <2>3, <3>3, <4>1
    <3> QED BY <2>4, <2>7, <3>4 DEF a
  <2> QED BY <2>5, <2>6, <2>7
<1>3. e.answer = measure(t, answers) /\ e.series = answers OBVIOUS
<1> HIDE DEF e
<1> QED BY <1>2, <1>3 DEF SeriesHealthy, e

\* A gate is run while one is left.
LEMMA AtOne == ASSUME GatesTypes, ~ Finished PROVE gate.at \in 1 .. 3 /\ Len(results) \in 0 .. 2 /\ Len(results) = gate.at - 1
<1>1. Len(results) \in Nat /\ gate.at \in 1 .. 4 /\ gate.at = Len(results) + 1 BY DEF GatesTypes, GateRecord
<1>2. Len(results) # 3 BY DEF Finished, GateNames
<1>3. \A n \in Nat, a \in 1 .. 4 : a = n + 1 /\ n # 3 => a \in 1 .. 3 /\ n \in 0 .. 2 /\ n = a - 1 OBVIOUS
<1> QED BY <1>1, <1>2, <1>3

LEMMA Names ==
  ASSUME GatesTypes, ~ Finished
  PROVE  /\ Name \in {"health", "smoke", "analysis"}
         /\ Name = "health" <=> gate.at = 1
         /\ Name = "smoke" <=> gate.at = 2
         /\ Name = "analysis" <=> gate.at = 3
<1>1. gate.at \in {1, 2, 3} BY AtOne
<1>2. GateNames[1] = "health" /\ GateNames[2] = "smoke" /\ GateNames[3] = "analysis" BY DEF GateNames
<1> QED BY <1>1, <1>2 DEF Name

\* The result of a gate is the next one, and the next gate begins.
Concluded(st) ==
  /\ results' \in Seq(Results) /\ Len(results') = Len(results) + 1
  /\ results'[Len(results) + 1] = [gate |-> Name, status |-> st]
  /\ \A i \in 1 .. Len(results) : results'[i] = results[i]
  /\ gate' = AtGate(gate.at + 1)

LEMMA ConcludeCases ==
  ASSUME GatesTypes, ~ Finished, NEW st \in Statuses, Conclude(st)
  PROVE  /\ Concluded(st) /\ gate' \in GateRecord /\ gate'.at = Len(results') + 1
         /\ \A i \in 1 .. Len(results') : results'[i].gate = GateNames[i]
         /\ results'[gate.at].status = st /\ gate'.at = gate.at + 1
<1> DEFINE e == [gate |-> Name, status |-> st]
<1>1. results \in Seq(Results) /\ Len(results) \in Nat /\ gate.at \in 1 .. 3 /\ Len(results) = gate.at - 1
  BY AtOne DEF GatesTypes
<1>2. e \in Results /\ e.gate = GateNames[gate.at] /\ e.status = st BY Names DEF Results, Name
<1>3. results' = Append(results, e) /\ gate' = AtGate(gate.at + 1) BY DEF Conclude
<1> HIDE DEF e
<1>4. /\ results' \in Seq(Results) /\ Len(results') = Len(results) + 1
      /\ results'[Len(results) + 1] = e
      /\ \A i \in 1 .. Len(results) : results'[i] = results[i]
  BY <1>1, <1>2, <1>3
<1>5. gate' \in GateRecord /\ gate'.at = gate.at + 1 BY <1>1, <1>3 DEF AtGate, GateRecord
<1>6. ASSUME NEW i \in 1 .. Len(results') PROVE results'[i].gate = GateNames[i]
  <2>1. CASE i = Len(results) + 1 BY <1>1, <1>2, <1>4, <2>1
  <2>2. CASE i \in 1 .. Len(results) BY <1>4, <2>2 DEF GatesTypes
  <2> QED BY <1>1, <1>4, <2>1, <2>2
<1>7. results'[gate.at].status = st BY <1>1, <1>2, <1>4
<1>8. Concluded(st) BY <1>3, <1>4 DEF Concluded, e
<1> QED BY <1>1, <1>4, <1>5, <1>6, <1>7, <1>8

\* A side that has its result keeps it, and one that is not reached has nothing to say.
LEMMA HealthStays ==
  ASSUME NEW on, NEW s, HealthSide(on, results, gate, s), GatesTypes, gate.at > 1,
         Len(results') >= Len(results), Len(results') \in Nat, \A i \in 1 .. Len(results) : results'[i] = results[i],
         gate'.at \in Nat, gate'.at >= gate.at
  PROVE  HealthSide(on, results', gate', s)
<1>1. Len(results) \in Nat /\ Len(results) >= 1 /\ gate.at \in Nat BY DEF GatesTypes, GateRecord
<1>2. results'[1] = results[1] /\ gate'.at # 1 BY <1>1
<1> QED BY <1>1, <1>2 DEF HealthSide

LEMMA SmokeStays ==
  ASSUME NEW on, NEW s, SmokeSide(on, results, gate, s), GatesTypes, gate.at > 2,
         Len(results') >= Len(results), Len(results') \in Nat, \A i \in 1 .. Len(results) : results'[i] = results[i],
         gate'.at \in Nat, gate'.at >= gate.at
  PROVE  SmokeSide(on, results', gate', s)
<1>1. Len(results) \in Nat /\ Len(results) >= 2 /\ gate.at \in Nat BY DEF GatesTypes, GateRecord
<1>2. results'[1] = results[1] /\ results'[2] = results[2] /\ ~ (gate'.at <= 2) BY <1>1
<1> QED BY <1>1, <1>2 DEF SmokeSide

LEMMA CountIsPositive == ASSUME NEW t \in Templates \cup {NoTemplate} PROVE Count(t) \in Nat \ {0} /\ Tolerated(t) \in Nat
<1>1. t.count \in Int /\ t.limit \in Int BY GatesAssumption DEF NoTemplate
<1> QED BY <1>1 DEF Count, Tolerated

\* No measurement yet.
LEMMA NoStreak == ASSUME NEW n \in Nat PROVE Streak(<<>>, 0, n)
<1>1. ~ BadRun(<<>>, n) BY DEF BadRun
<1>2. Len(<<>>) = 0 OBVIOUS
<1> QED BY <1>1, <1>2 DEF Streak

LEMMA AnalysisWaits ==
  ASSUME NEW t \in Templates \cup {NoTemplate}, NEW r, Len(r) \in Nat, Len(r) < 3, NEW i \in 1 .. 3
  PROVE  AnalysisSide(t, r, AtGate(i), <<>>)
<1>1. AtGate(i).at = i /\ AtGate(i).try = 0 /\ AtGate(i).streak = 0 BY DEF AtGate
<1>2. Count(t) \in Nat /\ 0 < Count(t) /\ Streak(<<>>, 0, Tolerated(t)) BY CountIsPositive, NoStreak
<1>3. Len(<<>>) = 0 OBVIOUS
<1> QED BY <1>1, <1>2, <1>3 DEF AnalysisSide

\* The sides that a result of the gate at hand does not touch.
LEMMA OthersStay ==
  ASSUME GatesInv, ~ Finished, NEW st \in Statuses, Conclude(st)
  PROVE  /\ gate.at > 1 => HealthSide(gs.health, results', gate', seen.health)
         /\ gate.at > 2 => SmokeSide(gs.smoke, results', gate', seen.smoke)
         /\ gate.at = 1 => SmokeSide(gs.smoke, results', gate', seen.smoke)
         /\ gate.at < 3 => AnalysisSide(gs.analysis, results', gate', seen.analysis)
<1>1. GatesTypes BY DEF GatesInv
<1>2. Concluded(st) /\ gate'.at = gate.at + 1 BY <1>1, ConcludeCases
<1>3. gate.at \in 1 .. 3 /\ Len(results) \in 0 .. 2 /\ Len(results) = gate.at - 1 BY <1>1, AtOne
<1>4. Len(results') = Len(results) + 1 /\ (\A i \in 1 .. Len(results) : results'[i] = results[i])
      /\ gate' = AtGate(gate.at + 1)
  BY <1>2 DEF Concluded
<1>5. Len(results') \in Nat /\ Len(results') >= Len(results) /\ gate'.at \in Nat /\ gate'.at >= gate.at
  BY <1>2, <1>3, <1>4
<1>6. gate.at > 1 => HealthSide(gs.health, results', gate', seen.health)
  BY <1>1, <1>4, <1>5, HealthStays DEF GatesInv
<1>7. gate.at > 2 => SmokeSide(gs.smoke, results', gate', seen.smoke)
  BY <1>1, <1>4, <1>5, SmokeStays DEF GatesInv
<1>8. gate.at = 1 => SmokeSide(gs.smoke, results', gate', seen.smoke)
  <2> SUFFICES ASSUME gate.at = 1 PROVE SmokeSide(gs.smoke, results', gate', seen.smoke) OBVIOUS
  <2>1. seen.smoke = <<>> BY DEF GatesInv, SmokeSide
  <2>2. ~ (Len(results') >= 2) BY <1>3, <1>4
  <2> QED BY <2>1, <2>2 DEF SmokeSide
<1>9. ASSUME gate.at < 3 PROVE AnalysisSide(gs.analysis, results', gate', seen.analysis)
  <2>1. seen.analysis = <<>> BY <1>9 DEF GatesInv, AnalysisSide
  <2>2. gate.at + 1 \in 1 .. 3 /\ Len(results') \in Nat /\ Len(results') < 3 BY <1>3, <1>4, <1>9
  <2>3. gs.analysis \in Templates \cup {NoTemplate} BY <1>1 DEF GatesTypes
  <2>4. AnalysisSide(gs.analysis, results', AtGate(gate.at + 1), <<>>) BY <2>2, <2>3, AnalysisWaits
  <2> QED BY <1>4, <2>1, <2>4
<1> QED BY <1>6, <1>7, <1>8, <1>9

LEMMA PassOverKeeps == ASSUME GatesInv, PassOver PROVE GatesInv'
<1>1. GatesTypes /\ ~ Finished /\ UNCHANGED <<gs, seen>> BY DEF GatesInv, PassOver
<1>2. PICK st \in {"not-run", "skipped"} :
        /\ Conclude(st) /\ (st = "not-run" => Failed) /\ (st = "skipped" => ~ Failed /\ ~ Enabled(Name))
  BY DEF PassOver
<1>3. st \in Statuses BY DEF Statuses
<1>4. /\ Concluded(st) /\ gate' \in GateRecord /\ gate'.at = Len(results') + 1
      /\ \A i \in 1 .. Len(results') : results'[i].gate = GateNames[i]
      /\ results'[gate.at].status = st /\ gate'.at = gate.at + 1
  BY <1>1, <1>2, <1>3, ConcludeCases
<1>5. gate.at \in 1 .. 3 /\ Len(results) \in 0 .. 2 /\ Len(results) = gate.at - 1 BY <1>1, AtOne
<1>6. Len(results') = Len(results) + 1 /\ (\A i \in 1 .. Len(results) : results'[i] = results[i]) BY <1>4 DEF Concluded
<1>7. GatesTypes' BY <1>1, <1>4 DEF GatesTypes, Concluded
<1>8. DOMAIN results = 1 .. Len(results) BY <1>1 DEF GatesTypes
<1>9. HealthSide(gs.health, results', gate', seen.health)
  <2>1. CASE gate.at > 1 BY <1>1, <1>2, <1>3, <2>1, OthersStay
  <2>2. CASE gate.at = 1
    <3>1. ~ Failed BY <1>5, <1>8, <2>2 DEF Failed
    <3>2. st = "skipped" /\ ~ gs.health BY <1>1, <1>2, <2>2, <3>1, Names DEF Enabled
    <3> QED BY <1>4, <2>2, <3>2 DEF HealthSide
  <2> QED BY <1>5, <2>1, <2>2
<1>10. SmokeSide(gs.smoke, results', gate', seen.smoke)
  <2>1. CASE gate.at # 2 BY <1>1, <1>2, <1>3, <1>5, <2>1, OthersStay
  <2>2. CASE gate.at = 2
    <3>1. results'[1] = results[1] /\ ~ (gate'.at <= 2) BY <1>4, <1>5, <1>6, <2>2
    <3>2. Failed => results[1].status = "fail" BY <1>5, <1>8, <2>2 DEF Failed
    <3>3. st = "skipped" => ~ gs.smoke BY <1>1, <1>2, <2>2, Names DEF Enabled
    <3> QED BY <1>2, <1>4, <2>2, <3>1, <3>2, <3>3 DEF SmokeSide
  <2> QED BY <2>1, <2>2
<1>11. AnalysisSide(gs.analysis, results', gate', seen.analysis)
  <2>1. CASE gate.at < 3 BY <1>1, <1>2, <1>3, <2>1, OthersStay
  <2>2. CASE gate.at = 3
    <3>1. results'[1] = results[1] /\ results'[2] = results[2] /\ gate'.at = 4 BY <1>4, <1>5, <1>6, <2>2
    <3>2. Failed => results[1].status = "fail" \/ results[2].status = "fail" BY <1>5, <1>8, <2>2 DEF Failed
    <3>3. st = "skipped" => gs.analysis = NoTemplate BY <1>1, <1>2, <2>2, Names DEF Enabled
    <3> QED BY <1>2, <1>4, <2>2, <3>1, <3>2, <3>3 DEF AnalysisSide
  <2> QED BY <1>5, <2>1, <2>2
<1>12. NoHiddenSeries' BY <1>1 DEF GatesInv, NoHiddenSeries
<1> QED BY <1>1, <1>7, <1>9, <1>10, <1>11, <1>12 DEF GatesInv

\* The result of a health answer: an error is tried again, the last one fails the gate.
LEMMA HealthAnswered ==
  ASSUME NEW s \in Seq(HealthSeen), NEW a \in HealthSeen, NEW n \in Nat, Len(s) = n, n < healthAttempts,
         \A i \in 1 .. Len(s) : s[i] = "error"
  PROVE  LET e == Append(s, a) IN
         /\ e # <<>> /\ Last(e) = a /\ Len(e) = n + 1
         /\ a = "error" => \A i \in 1 .. n + 1 : e[i] = "error"
<1> DEFINE e == Append(s, a)
<1>1. Len(e) = n + 1 /\ e[n + 1] = a /\ e \in Seq(HealthSeen) /\ \A i \in 1 .. n : e[i] = s[i] OBVIOUS
<1> HIDE DEF e
<1>2. e # <<>> BY <1>1
<1>3. Last(e) = a BY <1>1 DEF Last
<1>4. a = "error" => \A i \in 1 .. n + 1 : e[i] = "error"
  <2> SUFFICES ASSUME a = "error", NEW i \in 1 .. n + 1 PROVE e[i] = "error" OBVIOUS
  <2>1. CASE i = n + 1 BY <1>1, <2>1
  <2>2. CASE i \in 1 .. n BY <1>1, <2>2
  <2> QED BY <2>1, <2>2
<1> QED BY <1>1, <1>2, <1>3, <1>4 DEF e

LEMMA GateHealthKeeps == ASSUME GatesInv, GateHealth PROVE GatesInv'
<1>1. GatesTypes /\ ~ Finished /\ gs' = gs /\ Name = "health" BY DEF GatesInv, GateHealth, Running
<1>2. PICK a \in HealthSeen :
        /\ See(a)
        /\ IF a = "error" /\ gate.try + 1 < healthAttempts
             THEN gate' = [gate EXCEPT !.try = @ + 1] /\ UNCHANGED results
             ELSE Conclude(IF a \in {"unhealthy", "error", "unbuilt", "cancelled"} THEN "fail" ELSE "pass")
  <2>1. ASSUME NEW a \in {"unbuilt", "cancelled"}, See(a), Conclude("fail")
        PROVE  \E x \in HealthSeen :
          /\ See(x)
          /\ IF x = "error" /\ gate.try + 1 < healthAttempts
               THEN gate' = [gate EXCEPT !.try = @ + 1] /\ UNCHANGED results
               ELSE Conclude(IF x \in {"unhealthy", "error", "unbuilt", "cancelled"} THEN "fail" ELSE "pass")
    BY <2>1 DEF HealthSeen
  <2>2. "unbuilt" \notin HealthAnswers /\ "cancelled" \notin HealthAnswers BY DEF HealthAnswers
  <2> QED BY <2>1, <2>2 DEF GateHealth, HealthSeen
<1> DEFINE s == seen.health
           e == Append(s, a)
<1>3. gate.at = 1 /\ Len(results) = 0 BY <1>1, Names, AtOne
<1>4. s \in Seq(HealthSeen) /\ seen \in SeenRecord /\ gate \in GateRecord BY <1>1 DEF GatesTypes, SeenRecord
<1>5. gate.try \in Nat /\ Len(s) = gate.try /\ gate.try < healthAttempts /\ \A i \in 1 .. Len(s) : s[i] = "error"
  BY <1>3, <1>4 DEF GatesInv, HealthSide, GateRecord
<1>6. /\ e # <<>> /\ Last(e) = a /\ Len(e) = gate.try + 1
      /\ a = "error" => \A i \in 1 .. gate.try + 1 : e[i] = "error"
  BY <1>4, <1>5, HealthAnswered
<1>7. seen' = [seen EXCEPT !.health = e] BY <1>1, <1>2 DEF See
<1>8. e \in Seq(HealthSeen) BY <1>4
<1> HIDE DEF e
<1>9. seen' \in SeenRecord /\ seen'.health = e /\ seen'.smoke = seen.smoke /\ seen'.analysis = seen.analysis
  BY <1>4, <1>7, <1>8 DEF SeenRecord
<1>10. NoHiddenSeries' BY <1>1, <1>9 DEF GatesInv, NoHiddenSeries
<1>11. CASE a = "error" /\ gate.try + 1 < healthAttempts
  <2>1. gate' = [gate EXCEPT !.try = @ + 1] /\ results' = results BY <1>2, <1>11
  <2>2. gate' \in GateRecord /\ gate'.at = gate.at /\ gate'.try = gate.try + 1 /\ gate'.streak = gate.streak
    BY <1>4, <2>1 DEF GateRecord
  <2>3. GatesTypes' BY <1>1, <1>9, <2>1, <2>2 DEF GatesTypes
  <2>4. HealthSide(gs.health, results, gate', e) BY <1>3, <1>6, <1>11, <2>2 DEF HealthSide
  <2>5. SmokeSide(gs.smoke, results, gate', seen.smoke) BY <2>2 DEF GatesInv, SmokeSide
  <2>6. AnalysisSide(gs.analysis, results, gate', seen.analysis) BY <1>3, <2>2 DEF GatesInv, AnalysisSide
  <2> QED BY <1>1, <1>9, <1>10, <2>1, <2>3, <2>4, <2>5, <2>6 DEF GatesInv
<1>12. CASE ~ (a = "error" /\ gate.try + 1 < healthAttempts)
  <2> DEFINE st == IF a \in {"unhealthy", "error", "unbuilt", "cancelled"} THEN "fail" ELSE "pass"
  <2>1. Conclude(st) /\ st \in Statuses BY <1>2, <1>12 DEF Statuses
  <2>2. a = "error" => gate.try + 1 = healthAttempts BY <1>5, <1>12 DEF healthAttempts
  <2>3. /\ st = "pass" => a \in {"healthy", "degraded", "unknown"}
        /\ st = "fail" => a \in {"unhealthy", "unbuilt", "cancelled"} \/ a = "error"
        /\ st \in {"pass", "fail"}
    BY DEF HealthSeen, HealthAnswers
  <2> HIDE DEF st
  <2>4. /\ Concluded(st) /\ gate' \in GateRecord /\ gate'.at = Len(results') + 1
        /\ \A i \in 1 .. Len(results') : results'[i].gate = GateNames[i]
        /\ results'[gate.at].status = st /\ gate'.at = gate.at + 1
    BY <1>1, <2>1, ConcludeCases
  <2>5. GatesTypes' BY <1>1, <1>9, <2>4 DEF GatesTypes, Concluded
  <2>6. SmokeSide(gs.smoke, results', gate', seen.smoke) /\ AnalysisSide(gs.analysis, results', gate', seen.analysis)
    BY <1>1, <1>3, <2>1, OthersStay
  <2>7. HealthSide(gs.health, results', gate', e) BY <1>3, <1>6, <2>2, <2>3, <2>4 DEF HealthSide, healthAttempts
  <2> QED BY <1>1, <1>9, <1>10, <2>5, <2>6, <2>7 DEF GatesInv
<1> QED BY <1>11, <1>12

LEMMA GateSmokeKeeps == ASSUME GatesInv, GateSmoke PROVE GatesInv'
<1>1. GatesTypes /\ ~ Finished /\ gs' = gs /\ Name = "smoke" BY DEF GatesInv, GateSmoke, Running
<1>2. PICK a \in SmokeAnswers : See(a) /\ Conclude(IF a = "expected" THEN "pass" ELSE "fail") BY DEF GateSmoke
<1> DEFINE st == IF a = "expected" THEN "pass" ELSE "fail"
<1>3. gate.at = 2 /\ Len(results) = 1 BY <1>1, Names, AtOne
<1>4. seen \in SeenRecord /\ seen.smoke = <<>> BY <1>1, <1>3 DEF GatesTypes, GatesInv, SmokeSide
<1> DEFINE e == Append(seen.smoke, a)
<1>5. seen' = [seen EXCEPT !.smoke = e] BY <1>1, <1>2 DEF See
<1>6. seen' \in SeenRecord /\ seen'.smoke = <<a>> /\ seen'.health = seen.health /\ seen'.analysis = seen.analysis
  <2>1. seen.smoke \in Seq(SmokeAnswers) BY <1>4 DEF SeenRecord
  <2>2. e \in Seq(SmokeAnswers) BY <2>1
  <2>3. e = <<a>> BY <1>4
  <2> HIDE DEF e
  <2>4. seen' \in SeenRecord /\ seen'.smoke = e /\ seen'.health = seen.health /\ seen'.analysis = seen.analysis
    BY <1>4, <1>5, <2>2 DEF SeenRecord
  <2> QED BY <2>3, <2>4
<1>7. NoHiddenSeries' BY <1>1, <1>6 DEF GatesInv, NoHiddenSeries
<1>8. Conclude(st) /\ st \in Statuses BY <1>2 DEF Statuses
<1>9. /\ st = "pass" => a = "expected"
      /\ st = "fail" => a = "otherExit" \/ a = "error"
      /\ st \in {"pass", "fail"}
  BY DEF SmokeAnswers
<1> HIDE DEF st
<1>10. /\ Concluded(st) /\ gate' \in GateRecord /\ gate'.at = Len(results') + 1
       /\ \A i \in 1 .. Len(results') : results'[i].gate = GateNames[i]
       /\ results'[gate.at].status = st /\ gate'.at = gate.at + 1
  BY <1>1, <1>8, ConcludeCases
<1>11. GatesTypes' BY <1>1, <1>6, <1>10 DEF GatesTypes, Concluded
<1>12. HealthSide(gs.health, results', gate', seen.health) /\ AnalysisSide(gs.analysis, results', gate', seen.analysis)
  BY <1>1, <1>3, <1>8, OthersStay
<1>13. SmokeSide(gs.smoke, results', gate', <<a>>) BY <1>3, <1>9, <1>10 DEF SmokeSide
<1> QED BY <1>1, <1>6, <1>7, <1>11, <1>12, <1>13 DEF GatesInv

\* An analysis that has no provider, or that New refuses, fails its gate.
LEMMA RefuseKeeps == ASSUME GatesInv, RefuseAnalysis PROVE GatesInv'
<1> DEFINE e == [answer |-> "unbuilt", series |-> <<>>]
           w == seen'.analysis
<1>1. /\ GatesTypes /\ ~ Finished /\ gs' = gs /\ Name = "analysis" /\ Conclude("fail")
      /\ See(e) \/ (~ NewAnalyzer(gs.analysis) /\ seen' = seen)
  BY DEF GatesInv, RefuseAnalysis, Running
<1>2. gate.at = 3 /\ Len(results) = 2 /\ "fail" \in Statuses
  <2>1. gate.at = 3 BY <1>1, Names
  <2>2. Len(results) = 2 BY <1>1, <2>1, AtOne
  <2> QED BY <2>1, <2>2 DEF Statuses
<1>3. /\ Concluded("fail") /\ gate' \in GateRecord /\ gate'.at = Len(results') + 1
      /\ \A i \in 1 .. Len(results') : results'[i].gate = GateNames[i]
      /\ results'[gate.at].status = "fail" /\ gate'.at = gate.at + 1
  BY <1>1, <1>2, ConcludeCases
<1>4. seen \in SeenRecord /\ seen.analysis \in Seq(Measurements) BY <1>1 DEF GatesTypes, SeenRecord
<1>5. /\ seen' \in SeenRecord /\ seen'.health = seen.health /\ seen'.smoke = seen.smoke
      /\ ~ NewAnalyzer(gs.analysis) \/ (w # <<>> /\ Last(w).answer = "unbuilt")
      /\ NoHiddenSeries'
  <2>1. CASE See(e)
    <3> DEFINE v == Append(seen.analysis, e)
    <3>1. seen' = [seen EXCEPT !.analysis = v] BY <1>1, <2>1 DEF See
    <3>2. e \in Measurements /\ e.answer = "unbuilt"
      <4>1. <<>> \in Series BY DEF Series
      <4>2. \A x \in Series : [answer |-> "unbuilt", series |-> x] \in Measurements BY DEF Measurements
      <4> QED BY <4>1, <4>2
    <3> HIDE DEF e
    <3>3. /\ v \in Seq(Measurements) /\ Len(v) = Len(seen.analysis) + 1 /\ v[Len(v)] = e /\ Len(seen.analysis) \in Nat
          /\ \A i \in 1 .. Len(seen.analysis) : v[i] = seen.analysis[i]
      BY <1>4, <3>2
    <3> HIDE DEF v
    <3>4. seen' \in SeenRecord /\ w = v /\ seen'.health = seen.health /\ seen'.smoke = seen.smoke
      BY <1>4, <3>1, <3>3 DEF SeenRecord
    <3>5. w # <<>> /\ Last(w) = e BY <3>3, <3>4 DEF Last
    <3>6. NoHiddenSeries'
      <4>1. DOMAIN v = 1 .. Len(v) /\ DOMAIN seen.analysis = 1 .. Len(seen.analysis) BY <1>4, <3>3
      <4>2. ASSUME NEW i \in DOMAIN v PROVE SeriesHealthy(v[i], gs.analysis.metrics)
        <5>1. CASE i = Len(v) BY <3>2, <3>3, <5>1 DEF SeriesHealthy
        <5>2. CASE i # Len(v)
          <6>1. i \in 1 .. Len(seen.analysis) BY <3>3, <4>1, <5>2
          <6>2. SeriesHealthy(seen.analysis[i], gs.analysis.metrics) BY <4>1, <6>1 DEF GatesInv, NoHiddenSeries
          <6> QED BY <3>3, <6>1, <6>2
        <5> QED BY <5>1, <5>2
      <4> QED BY <1>1, <3>4, <4>2 DEF NoHiddenSeries
    <3> QED BY <3>2, <3>4, <3>5, <3>6
  <2>2. CASE ~ NewAnalyzer(gs.analysis) /\ seen' = seen BY <1>1, <1>4, <2>2 DEF GatesInv, NoHiddenSeries
  <2> QED BY <1>1, <2>1, <2>2
<1>6. GatesTypes' BY <1>1, <1>3, <1>5 DEF GatesTypes, Concluded
<1>7. HealthSide(gs.health, results', gate', seen.health) /\ SmokeSide(gs.smoke, results', gate', seen.smoke)
  BY <1>1, <1>2, OthersStay
<1>8. AnalysisSide(gs.analysis, results', gate', w) BY <1>2, <1>3, <1>5 DEF AnalysisSide
<1> QED BY <1>1, <1>5, <1>6, <1>7, <1>8 DEF GatesInv

\* A measurement that passes ends the streak, one that does not makes it longer; the
\* run that exceeds the limit is the streak of more measurements than are tolerated.
LEMMA StreakGrows ==
  ASSUME NEW S, NEW s \in Seq(S), NEW e \in S, NEW k \in Nat, NEW n \in Nat, Streak(s, k, n)
  PROVE  LET w == Append(s, e) IN
         /\ ~ Bad(e) => Streak(w, 0, n)
         /\ Bad(e) /\ k + 1 <= n => Streak(w, k + 1, n)
         /\ Bad(e) /\ k = n => BadRun(w, n)
<1> DEFINE w == Append(s, e)
           l == Len(s)
<1>1. l \in Nat /\ w \in Seq(S) /\ Len(w) = l + 1 /\ w[l + 1] = e /\ \A i \in 1 .. l : w[i] = s[i] OBVIOUS
<1>2. DOMAIN w = 1 .. l + 1 /\ DOMAIN s = 1 .. l BY <1>1
<1>3. /\ k <= n /\ k <= l
      /\ \A j \in (l - k + 1) .. l : Bad(s[j])
      /\ k < l => ~ Bad(s[l - k])
      /\ \A i \in 1 .. l : i + n <= l => \E j \in i .. (i + n) : ~ Bad(s[j])
  BY <1>2 DEF Streak, BadRun
<1> HIDE DEF w, l
\* a run of failures in w is one that ends with e
<1>4. ASSUME BadRun(w, n)
      PROVE  LET i == l + 1 - n IN i \in 1 .. l + 1 /\ \A j \in i .. (l + 1) : Bad(w[j])
  <2>1. PICK i \in 1 .. l + 1 : i + n <= l + 1 /\ \A j \in i .. (i + n) : Bad(w[j]) BY <1>1, <1>2, <1>4 DEF BadRun
  <2>2. CASE i + n <= l
    <3>1. i \in 1 .. l BY <1>1, <2>1, <2>2
    <3>2. PICK j \in i .. (i + n) : ~ Bad(s[j]) BY <1>3, <2>2, <3>1
    <3>3. j \in 1 .. l BY <1>1, <2>1, <2>2, <3>1
    <3>4. w[j] = s[j] BY <1>1, <3>3
    <3> QED BY <2>1, <3>2, <3>4
  <2>3. CASE i + n = l + 1
    <3>1. i = l + 1 - n BY <1>1, <2>1, <2>3
    <3> QED BY <2>1, <2>3, <3>1
  <2> QED BY <1>1, <2>1, <2>2, <2>3
<1>5. ASSUME ~ Bad(e) PROVE Streak(w, 0, n)
  <2>1. ~ BadRun(w, n)
    <3> SUFFICES ASSUME BadRun(w, n) PROVE FALSE OBVIOUS
    <3>1. l + 1 \in (l + 1 - n) .. (l + 1) BY <1>1
    <3>2. Bad(w[l + 1]) BY <1>4, <3>1
    <3> QED BY <1>1, <1>5, <3>2
  <2>2. ~ Bad(w[Len(w) - 0]) BY <1>1, <1>5
  <2>3. \A j \in (Len(w) - 0 + 1) .. Len(w) : FALSE BY <1>1
  <2>4. 0 <= n /\ 0 <= Len(w) BY <1>1
  <2> QED BY <2>1, <2>2, <2>3, <2>4 DEF Streak
<1>6. ASSUME Bad(e), k + 1 <= n PROVE Streak(w, k + 1, n)
  <2>1. ASSUME NEW j \in (Len(w) - (k + 1) + 1) .. Len(w) PROVE Bad(w[j])
    <3>1. CASE j = l + 1 BY <1>1, <1>6, <3>1
    <3>2. CASE j # l + 1
      <4>1. j \in (l - k + 1) .. l /\ j \in 1 .. l BY <1>1, <1>3, <2>1, <3>2
      <4> QED BY <1>1, <1>3, <4>1
    <3> QED BY <3>1, <3>2
  <2>2. ASSUME k + 1 < Len(w) PROVE ~ Bad(w[Len(w) - (k + 1)])
    <3>1. k < l /\ Len(w) - (k + 1) = l - k /\ l - k \in 1 .. l BY <1>1, <2>2
    <3> QED BY <1>1, <1>3, <3>1
  <2>3. ~ BadRun(w, n)
    <3> SUFFICES ASSUME BadRun(w, n) PROVE FALSE OBVIOUS
    <3>1. l + 1 - n \in 1 .. l + 1 /\ \A j \in (l + 1 - n) .. (l + 1) : Bad(w[j]) BY <1>4
    <3>2. k < l /\ l - k \in (l + 1 - n) .. (l + 1) /\ l - k \in 1 .. l BY <1>1, <1>3, <1>6, <3>1
    <3> QED BY <1>1, <1>3, <3>1, <3>2
  <2>4. k + 1 <= n /\ k + 1 <= Len(w) BY <1>1, <1>3, <1>6
  <2> QED BY <2>1, <2>2, <2>3, <2>4 DEF Streak
<1>7. ASSUME Bad(e), k = n PROVE BadRun(w, n)
  <2> DEFINE i == l + 1 - n
  <2>1. i \in 1 .. l + 1 /\ i + n = l + 1 BY <1>1, <1>3, <1>7
  <2>2. ASSUME NEW j \in i .. (i + n) PROVE Bad(w[j])
    <3>1. CASE j = l + 1 BY <1>1, <1>7, <3>1
    <3>2. CASE j # l + 1
      <4>1. j \in (l - k + 1) .. l /\ j \in 1 .. l BY <1>1, <1>3, <1>7, <2>1, <3>2
      <4> QED BY <1>1, <1>3, <4>1
    <3> QED BY <3>1, <3>2
  <2> HIDE DEF i
  <2>3. i + n <= Len(w) BY <1>1, <2>1
  <2> QED BY <1>2, <2>1, <2>2, <2>3 DEF BadRun
<1> QED BY <1>5, <1>6, <1>7 DEF w

LEMMA MeasureKeeps == ASSUME GatesInv, Measure PROVE GatesInv'
<1> DEFINE t == gs.analysis
           s == seen.analysis
           n == Tolerated(t)
<1>1. GatesTypes /\ ~ Finished /\ gs' = gs /\ Name = "analysis" /\ t # NoTemplate
  BY DEF GatesInv, Measure, Running, Enabled
<1>2. PICK answers \in [DOMAIN t.metrics -> Answers] :
        LET m      == measure(t, answers)
            streak == IF m = "pass" THEN 0 ELSE gate.streak + 1
            next   == AfterSample(m, streak, gate.try + 1)
        IN  /\ See([answer |-> m, series |-> answers])
            /\ IF next = "more"
                 THEN gate' = [gate EXCEPT !.try = @ + 1, !.streak = streak] /\ UNCHANGED results
                 ELSE Conclude(next)
  BY DEF Measure
<1> DEFINE m == measure(t, answers)
           e == [answer |-> m, series |-> answers]
           k == IF m = "pass" THEN 0 ELSE gate.streak + 1
           next == AfterSample(m, k, gate.try + 1)
           w == Append(s, e)
<1>3. gate.at = 3 /\ Len(results) = 2
  <2>1. gate.at = 3 BY <1>1, Names
  <2> QED BY <1>1, <2>1, AtOne
<1>4. t \in Templates /\ seen \in SeenRecord /\ s \in Seq(Measurements) /\ gate \in GateRecord
  BY <1>1 DEF GatesTypes, SeenRecord
<1>5. gate.try \in Nat /\ gate.streak \in Nat /\ Len(s) = gate.try /\ gate.try < Count(t) /\ Streak(s, gate.streak, n)
  BY <1>3, <1>4 DEF GatesInv, AnalysisSide, GateRecord
<1>6. Count(t) \in Nat /\ n \in Nat /\ t.limit \in Int BY <1>4, CountIsPositive, GatesAssumption
<1>7. m \in {"pass", "fail", "error"} BY DEF measure
<1>8. SeriesHealthy(e, t.metrics) BY <1>4, PassIsHealthy
<1>9. answers \in Series BY <1>4 DEF Series
<1>10. seen' = [seen EXCEPT !.analysis = w] BY <1>1, <1>2 DEF See
<1>11. e \in Measurements /\ e.answer = m
  <2> HIDE DEF m
  <2> QED BY <1>7, <1>9 DEF Measurements
<1>12. (m = "pass" => k = 0) /\ (m # "pass" => k = gate.streak + 1) OBVIOUS
<1>13. IF next = "more" THEN gate' = [gate EXCEPT !.try = @ + 1, !.streak = k] /\ UNCHANGED results ELSE Conclude(next)
  BY <1>2
<1>14. next = IF m # "pass" /\ k > t.limit THEN "fail"
              ELSE IF gate.try + 1 < Count(t) THEN "more"
              ELSE IF m = "error" THEN "fail" ELSE "pass"
  BY DEF AfterSample
<1> HIDE DEF m, e, k, next
<1>15. k \in Nat BY <1>5, <1>7, <1>12
<1>16. Bad(e) <=> m # "pass" BY <1>11 DEF Bad
<1>17. w \in Seq(Measurements) /\ Len(w) = gate.try + 1 /\ w[Len(w)] = e /\ \A i \in 1 .. Len(s) : w[i] = s[i]
  BY <1>4, <1>5, <1>11
<1>18. /\ m = "pass" => Streak(w, k, n)
       /\ m # "pass" /\ k <= n => Streak(w, k, n)
       /\ m # "pass" /\ k > n => BadRun(w, n)
  <2>1. /\ ~ Bad(e) => Streak(w, 0, n)
        /\ Bad(e) /\ gate.streak + 1 <= n => Streak(w, gate.streak + 1, n)
        /\ Bad(e) /\ gate.streak = n => BadRun(w, n)
    <3> HIDE DEF s, n
    <3> QED BY <1>4, <1>5, <1>6, <1>11, StreakGrows
  <2>2. gate.streak <= n BY <1>5 DEF Streak
  <2>3. gate.streak + 1 > n => gate.streak = n BY <1>5, <1>6, <2>2
  <2> HIDE DEF w, n
  <2> QED BY <1>12, <1>16, <2>1, <2>3
<1>19. Last(w) = e /\ w # <<>>
  <2>1. w # <<>> BY <1>5, <1>17
  <2> QED BY <1>17, <2>1 DEF Last
<1> HIDE DEF w
<1>20. seen' \in SeenRecord /\ seen'.analysis = w /\ seen'.health = seen.health /\ seen'.smoke = seen.smoke
  BY <1>4, <1>10, <1>17 DEF SeenRecord
<1>21. NoHiddenSeries'
  <2>1. DOMAIN w = 1 .. Len(w) /\ DOMAIN s = 1 .. Len(s) BY <1>4, <1>17
  <2>2. ASSUME NEW i \in DOMAIN w PROVE SeriesHealthy(w[i], t.metrics)
    <3>1. CASE i = Len(w) BY <1>8, <1>17, <3>1
    <3>2. CASE i # Len(w)
      <4>1. i \in 1 .. Len(s) BY <1>5, <1>17, <2>1, <3>2
      <4>2. SeriesHealthy(s[i], t.metrics) BY <2>1, <4>1 DEF GatesInv, NoHiddenSeries
      <4> QED BY <1>17, <4>1, <4>2
    <3> QED BY <3>1, <3>2
  <2> QED BY <1>1, <1>20, <2>2 DEF NoHiddenSeries
<1>22. (k > t.limit /\ m # "pass" => k > n) /\ (~ (k > t.limit) /\ m # "pass" => k <= n)
  <2>1. m # "pass" => k > 0 BY <1>5, <1>12
  <2>2. n = IF t.limit < 0 THEN 0 ELSE t.limit BY DEF Tolerated
  <2> HIDE DEF n, t
  <2> QED BY <1>6, <1>15, <2>1, <2>2
<1>23. CASE next = "more"
  <2>1. gate' = [gate EXCEPT !.try = @ + 1, !.streak = k] /\ results' = results BY <1>13, <1>23
  <2>2. gate' \in GateRecord /\ gate'.at = 3 /\ gate'.try = gate.try + 1 /\ gate'.streak = k
    <3>1. gate.try + 1 \in Nat BY <1>5
    <3>2. \A a \in Nat : LET g == [gate EXCEPT !.try = a, !.streak = k] IN
                         g \in GateRecord /\ g.at = gate.at /\ g.try = a /\ g.streak = k
      BY <1>4, <1>15 DEF GateRecord
    <3>3. gate' = [gate EXCEPT !.try = gate.try + 1, !.streak = k] BY <1>4, <2>1 DEF GateRecord
    <3> QED BY <1>3, <3>1, <3>2, <3>3
  <2>3. GatesTypes' BY <1>1, <1>3, <1>20, <2>1, <2>2 DEF GatesTypes
  <2>4. gate.try + 1 < Count(t) /\ Streak(w, k, n)
    <3>1. ~ (m # "pass" /\ k > t.limit) /\ gate.try + 1 < Count(t) BY <1>14, <1>23
    <3> HIDE DEF n, t
    <3> QED BY <1>18, <1>22, <3>1
  <2>5. HealthSide(gs.health, results, gate', seen.health) BY <1>3, <2>2 DEF GatesInv, HealthSide
  <2>6. SmokeSide(gs.smoke, results, gate', seen.smoke) BY <1>3, <2>2 DEF GatesInv, SmokeSide
  <2>7. AnalysisSide(t, results, gate', w) BY <1>3, <1>17, <2>2, <2>4 DEF AnalysisSide
  <2> QED BY <1>1, <1>20, <1>21, <2>1, <2>3, <2>5, <2>6, <2>7 DEF GatesInv
<1>24. CASE next # "more"
  <2>1. Conclude(next) /\ next \in {"pass", "fail"} BY <1>13, <1>14, <1>24
  <2>2. next \in Statuses BY <2>1 DEF Statuses
  <2>3. /\ Concluded(next) /\ gate' \in GateRecord /\ gate'.at = Len(results') + 1
        /\ \A i \in 1 .. Len(results') : results'[i].gate = GateNames[i]
        /\ results'[gate.at].status = next /\ gate'.at = gate.at + 1
    BY <1>1, <2>1, <2>2, ConcludeCases
  <2>4. GatesTypes' BY <1>1, <1>20, <2>3 DEF GatesTypes, Concluded
  <2>5. HealthSide(gs.health, results', gate', seen.health) /\ SmokeSide(gs.smoke, results', gate', seen.smoke)
    BY <1>1, <1>3, <2>1, <2>2, OthersStay
  <2>6. next = "pass" => Len(w) = Count(t) /\ Last(w).answer # "error" /\ ~ BadRun(w, n)
    <3> SUFFICES ASSUME next = "pass" PROVE Len(w) = Count(t) /\ Last(w).answer # "error" /\ ~ BadRun(w, n) OBVIOUS
    <3>1. ~ (m # "pass" /\ k > t.limit) /\ ~ (gate.try + 1 < Count(t)) /\ m # "error" BY <1>14
    <3>2. gate.try + 1 = Count(t) BY <1>5, <1>6, <3>1
    <3> HIDE DEF n, t
    <3>3. Streak(w, k, n) BY <1>18, <1>22, <3>1
    <3> QED BY <1>11, <1>17, <1>19, <3>1, <3>2, <3>3 DEF Streak
  <2>7. next = "fail" => BadRun(w, n) \/ (w # <<>> /\ Last(w).answer = "error")
    <3> SUFFICES ASSUME next = "fail" PROVE BadRun(w, n) \/ (w # <<>> /\ Last(w).answer = "error") OBVIOUS
    <3>1. (m # "pass" /\ k > t.limit) \/ m = "error" BY <1>14
    <3> HIDE DEF n, t
    <3> QED BY <1>11, <1>18, <1>19, <1>22, <3>1
  <2>8. AnalysisSide(t, results', gate', w) BY <1>3, <2>1, <2>3, <2>6, <2>7 DEF AnalysisSide
  <2> QED BY <1>1, <1>20, <1>21, <2>4, <2>5, <2>8 DEF GatesInv
<1> QED BY <1>23, <1>24

LEMMA GatesStart == GatesInit => GatesInv
<1> SUFFICES ASSUME GatesInit PROVE GatesInv OBVIOUS
<1>1. gate = AtGate(1) /\ results = <<>> /\ seen = [health |-> <<>>, smoke |-> <<>>, analysis |-> <<>>] BY DEF GatesInit
<1>2. gs \in [path : {"auto", "manual"}, health : BOOLEAN, smoke : BOOLEAN, analysis : Templates \cup {NoTemplate}]
  <2>1. PICK c \in Configs : gs = gatesFromConfig(c) \/ gs = gatesFromRollout(c) BY DEF GatesInit
  <2>2. c.healthCheck \in BOOLEAN /\ c.auto \in BOOLEAN /\ c.smoke \in BOOLEAN /\ c.analysis \in Templates \cup {NoTemplate}
    BY DEF Configs
  <2>3. (IF c.enabled THEN c.analysis ELSE NoTemplate) \in Templates \cup {NoTemplate} BY <2>2
  <2>4. (c.healthCheck \/ c.auto) \in BOOLEAN BY <2>2
  <2> DEFINE a == IF c.enabled THEN c.analysis ELSE NoTemplate
             h == c.healthCheck \/ c.auto
  <2>5. gs = [path |-> "auto", health |-> h, smoke |-> c.smoke, analysis |-> a]
        \/ gs = [path |-> "manual", health |-> TRUE, smoke |-> c.smoke, analysis |-> a]
    BY <2>1 DEF gatesFromConfig, gatesFromRollout
  <2>6. \A p \in {"auto", "manual"}, x \in BOOLEAN, y \in BOOLEAN, z \in Templates \cup {NoTemplate} :
          [path |-> p, health |-> x, smoke |-> y, analysis |-> z]
          \in [path : {"auto", "manual"}, health : BOOLEAN, smoke : BOOLEAN, analysis : Templates \cup {NoTemplate}]
    OBVIOUS
  <2>7. a \in Templates \cup {NoTemplate} /\ h \in BOOLEAN BY <2>3, <2>4
  <2> HIDE DEF a, h
  <2>8. CASE gs = [path |-> "auto", health |-> h, smoke |-> c.smoke, analysis |-> a]
    BY <2>2, <2>6, <2>7, <2>8, Zenon
  <2>9. CASE gs = [path |-> "manual", health |-> TRUE, smoke |-> c.smoke, analysis |-> a]
    <3>1. TRUE \in BOOLEAN OBVIOUS
    <3> QED BY <2>2, <2>6, <2>7, <2>9, <3>1, Zenon
  <2> QED BY <2>5, <2>8, <2>9
<1>3. gate.at = 1 /\ gate.try = 0 /\ gate.streak = 0 /\ gate \in GateRecord BY <1>1 DEF AtGate, GateRecord
<1>4. seen \in SeenRecord /\ seen.health = <<>> /\ seen.smoke = <<>> /\ seen.analysis = <<>> BY <1>1 DEF SeenRecord
<1>5. Len(results) = 0 /\ results \in Seq(Results) BY <1>1
<1>6. GatesTypes BY <1>2, <1>3, <1>4, <1>5 DEF GatesTypes
<1>7. HealthSide(gs.health, results, gate, seen.health)
  <2>1. Len(seen.health) = 0 BY <1>4
  <2> QED BY <1>3, <1>5, <2>1 DEF HealthSide, healthAttempts
<1>8. SmokeSide(gs.smoke, results, gate, seen.smoke) BY <1>4, <1>5 DEF SmokeSide
<1>9. AnalysisSide(gs.analysis, results, gate, seen.analysis)
  <2>1. gs.analysis \in Templates \cup {NoTemplate} BY <1>2
  <2> QED BY <1>1, <1>4, <1>5, <2>1, AnalysisWaits
<1>10. NoHiddenSeries BY <1>4 DEF NoHiddenSeries
<1> QED BY <1>6, <1>7, <1>8, <1>9, <1>10 DEF GatesInv

LEMMA GatesSteps == GatesInv /\ [GatesNext]_gatesVars => GatesInv'
<1> SUFFICES ASSUME GatesInv, [GatesNext]_gatesVars PROVE GatesInv' OBVIOUS
<1>1. CASE PassOver BY <1>1, PassOverKeeps
<1>2. CASE GateHealth BY <1>2, GateHealthKeeps
<1>3. CASE GateSmoke BY <1>3, GateSmokeKeeps
<1>4. CASE RefuseAnalysis BY <1>4, RefuseKeeps
<1>5. CASE Measure BY <1>5, MeasureKeeps
<1>6. CASE UNCHANGED gatesVars BY <1>6 DEF gatesVars, GatesInv, GatesTypes, NoHiddenSeries
<1> QED BY <1>1, <1>2, <1>3, <1>4, <1>5, <1>6 DEF GatesNext

\* The verdict of the gates is earned, whichever way it goes, for any number of
\* measurements, any limit (a negative one too) and any metrics: the newest
\* measurements and the streak the loop counts agree, so that the run which fails the
\* gate is there and no longer one passed unnoticed.
THEOREM VerdictsAreEarned == GatesSpec => []VerdictIsEarned
<1>1. GatesInv => VerdictIsEarned
  <2> SUFFICES ASSUME GatesInv PROVE VerdictIsEarned OBVIOUS
  <2>1. GatesTypes BY DEF GatesInv
  <2>2. /\ results \in Seq(Results) /\ Len(results) \in 0 .. 3 /\ DOMAIN results = 1 .. Len(results)
        /\ \A i \in 1 .. Len(results) : results[i].status \in Statuses /\ results[i].gate = GateNames[i]
    <3>1. results \in Seq(Results) /\ gate.at \in 1 .. 4 /\ gate.at = Len(results) + 1 BY <2>1 DEF GatesTypes, GateRecord
    <3>2. Len(results) \in 0 .. 3
      <4>1. Len(results) \in Nat BY <3>1
      <4>2. \A n \in Nat, a \in 1 .. 4 : a = n + 1 => n \in 0 .. 3 OBVIOUS
      <4> QED BY <3>1, <4>1, <4>2
    <3>3. \A i \in 1 .. Len(results) : results[i] \in Results BY <3>1
    <3> QED BY <2>1, <3>1, <3>2, <3>3 DEF GatesTypes, Results
  <2>3. GateNames[1] = "health" /\ GateNames[2] = "smoke" /\ GateNames[3] = "analysis" /\ Len(GateNames) = 3
    BY DEF GateNames
  <2>4. ASSUME Finished, ~ Failed PROVE PassHasEvidence
    <3>1. Len(results) = 3 /\ \A i \in 1 .. 3 : results[i].status \in Statuses /\ results[i].status # "fail"
      BY <2>2, <2>3, <2>4 DEF Finished, Failed
    <3>2. results[1].status # "fail" /\ results[2].status # "fail" /\ results[3].status # "fail" BY <3>1
    <3>3. results[1].status # "not-run" /\ results[2].status # "not-run" /\ results[3].status # "not-run"
      BY <3>1, <3>2 DEF GatesInv, HealthSide, SmokeSide, AnalysisSide
    <3>4. \A i \in 1 .. 3 : results[i].status \in {"pass", "skipped"} BY <3>1, <3>2, <3>3 DEF Statuses
    <3>5. results[1].status \in {"pass", "skipped"} /\ results[2].status \in {"pass", "skipped"}
          /\ results[3].status \in {"pass", "skipped"}
      BY <3>4
    <3>6. gs.health => seen.health # <<>> /\ Last(seen.health) \in {"healthy", "degraded", "unknown"}
      BY <3>1, <3>5 DEF GatesInv, HealthSide
    <3>7. gs.smoke => seen.smoke = <<"expected">> BY <3>1, <3>5 DEF GatesInv, SmokeSide
    <3>8. gs.analysis # NoTemplate => /\ Len(seen.analysis) = Count(gs.analysis)
                                      /\ Last(seen.analysis).answer # "error"
                                      /\ ~ BadRun(seen.analysis, Tolerated(gs.analysis))
      BY <3>1, <3>5 DEF GatesInv, AnalysisSide
    <3> QED BY <3>6, <3>7, <3>8 DEF PassHasEvidence
  <2>5. ASSUME NEW i \in DOMAIN results, results[i].status = "fail"
        PROVE  \/ results[i].gate = "health" /\ HealthCause
               \/ results[i].gate = "smoke" /\ SmokeCause
               \/ results[i].gate = "analysis" /\ AnalysisCause
    <3>1. i \in {1, 2, 3} /\ i \in 1 .. Len(results) /\ results[i].gate = GateNames[i] BY <2>2
    <3>2. CASE i = 1
      <4>1. Len(results) >= 1 BY <2>2, <3>1, <3>2
      <4>2. HealthCause BY <2>5, <3>2, <4>1 DEF GatesInv, HealthSide, HealthCause
      <4> QED BY <2>3, <3>1, <3>2, <4>2
    <3>3. CASE i = 2
      <4>1. Len(results) >= 2 BY <2>2, <3>1, <3>3
      <4>2. SmokeCause BY <2>5, <3>3, <4>1 DEF GatesInv, SmokeSide, SmokeCause
      <4> QED BY <2>3, <3>1, <3>3, <4>2
    <3>4. CASE i = 3
      <4>1. Len(results) >= 3 BY <2>2, <3>1, <3>4
      <4>2. AnalysisCause BY <2>5, <3>4, <4>1 DEF GatesInv, AnalysisSide, AnalysisCause
      <4> QED BY <2>3, <3>1, <3>4, <4>2
    <3> QED BY <3>1, <3>2, <3>3, <3>4
  <2>6. PassHasEvidence BY <2>4 DEF PassHasEvidence
  <2>7. FailHasCause BY <2>5 DEF FailHasCause
  <2> QED BY <2>6, <2>7 DEF VerdictIsEarned, GatesInv
<1> QED BY <1>1, GatesStart, GatesSteps, PTL DEF GatesSpec
=============================================================================
