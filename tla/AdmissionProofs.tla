-------------------------- MODULE AdmissionProofs --------------------------
(***************************************************************************)
(* Proofs about the admission of requests, for any number of daemons,       *)
(* requests, rollouts and schedules, any policy and any services.           *)
(***************************************************************************)
EXTENDS Admission, Integers, FiniteSetTheorems, TLAPS

Slots == Requests \cup Daemons
Ids == Callers \cup {Nobody}
TargetRefs == DOMAIN Services \cup {""}
Origins == DOMAIN Schedules \cup {""}
Places == {"idle", "admitted", "cleared", "loaded", "settled", "persisted", "deploying", "firing", "fired"}
Doings == Operations \cup {"", "schedule"}
Phases == {"awaiting", "deploying", "verifying", "rolled_back"}

CallRecord ==
  [pc : Places, d : Daemons \cup {""}, by : Ids, op : Doings, ref : TargetRefs, row : Nat,
   gated : BOOLEAN, under : BOOLEAN, tired : BOOLEAN, left : SUBSET DOMAIN Schedules, sch : Origins]
RowRecord ==
  [ref : TargetRefs, phase : Phases, by : Callers, approver : Ids, ran : BOOLEAN, sch : Origins]
SpareRecord ==
  [rows : Nat, rewrites : Nat, outages : Nat, intervals : Nat, queue : SUBSET DOMAIN Schedules,
   asks : SUBSET [by : Callers, op : Operations, ref : TargetRefs]]

AdmissionTypes ==
  /\ call \in [Slots -> CallRecord]
  /\ rollouts \in Seq(RowRecord)
  /\ frozen \in BOOLEAN
  /\ spare \in SpareRecord /\ queue \subseteq DOMAIN Schedules

Critical(ref) == Services[ref].criticality = "critical"

\* What holds of a call c while the store has these rows and this freeze.
Sound(c, rows, frz) ==
  /\ c.under => frz
  /\ c.pc \in {"cleared", "deploying"} => ~ c.under
  /\ c.op \in {"apply", "approve"} => c.by \in Callers
  /\ c.pc = "admitted" /\ c.op \in OnRow => c.row \in 1 .. Len(rows)
  /\ c.pc \in {"loaded", "settled"} => c.op \in OnRow /\ c.row \in 1 .. Len(rows)
  /\ c.pc = "cleared" => c.op = "apply" /\ (Critical(c.ref) => c.gated)
  /\ c.pc = "deploying" =>
       /\ c.op \in {"apply", "approve", "schedule"} /\ c.row \in 1 .. Len(rows)
       /\ c.op = "apply" => ~ Critical(rows[c.row].ref)
       /\ c.op = "schedule" => rows[c.row].sch = c.sch /\ c.sch \in DOMAIN Schedules
  /\ c.pc \in {"firing", "fired"} => c.op = "schedule"
  /\ c.pc = "fired" => \E i \in 1 .. Len(rows) : rows[i].sch = c.sch /\ rows[i].ran

\* What a row that ran has been through.
RowSound(r) == r.ran /\ Critical(r.ref) /\ r.sch = "" => r.approver # Nobody

\* A schedule that left its queue was sent.
Fired(was, now, rows) == \A s \in was \ now : \E i \in 1 .. Len(rows) : rows[i].sch = s /\ rows[i].ran

AdmissionInv ==
  /\ AdmissionTypes
  /\ \A q \in Slots : Sound(call[q], rollouts, frozen)
  /\ \A i \in 1 .. Len(rollouts) : RowSound(rollouts[i])
  /\ Fired(spare.queue, queue, rollouts)

-----------------------------------------------------------------------------
\* Rows are added and resolved; what they are for and that they ran stays.
Grows(rows, next) ==
  /\ Len(rows) <= Len(next)
  /\ \A i \in 1 .. Len(rows) :
       /\ next[i].ref = rows[i].ref /\ next[i].sch = rows[i].sch
       /\ rows[i].ran => next[i].ran

\* Two records of one call that differ in history flags and place only.
Like(c, k) ==
  /\ k.pc = c.pc /\ k.by = c.by /\ k.op = c.op /\ k.ref = c.ref /\ k.row = c.row
  /\ k.gated = c.gated /\ k.under = c.under /\ k.sch = c.sch

\* What holds of a call survives the steps of others.
LEMMA StaysSound ==
  ASSUME NEW rows \in Seq(RowRecord), NEW next \in Seq(RowRecord), Grows(rows, next), NEW frz, NEW frz2,
         NEW c \in CallRecord, NEW k \in CallRecord, Like(c, k), Sound(c, rows, frz), c.under => frz2
  PROVE  Sound(k, next, frz2)
<1>0. Len(rows) \in Nat /\ Len(next) \in Nat /\ Len(rows) <= Len(next) BY DEF Grows
<1>1. \A i \in 1 .. Len(rows) : i \in 1 .. Len(next) BY <1>0
<1>2. c.row \in Nat BY DEF CallRecord
<1>3. c.pc = "fired" => \E i \in 1 .. Len(next) : next[i].sch = c.sch /\ next[i].ran
  BY <1>1 DEF Sound, Grows
<1>4. c.row \in 1 .. Len(rows) => next[c.row].ref = rows[c.row].ref
                                  /\ next[c.row].sch = rows[c.row].sch /\ c.row \in 1 .. Len(next)
  BY <1>1 DEF Grows
<1>7. c.pc = "deploying" =>
       /\ c.op \in {"apply", "approve", "schedule"} /\ c.row \in 1 .. Len(next)
       /\ c.op = "apply" => ~ Critical(next[c.row].ref)
       /\ c.op = "schedule" => next[c.row].sch = c.sch /\ c.sch \in DOMAIN Schedules
  BY <1>4 DEF Sound
<1>8. /\ c.pc \in {"cleared", "deploying"} => ~ c.under
      /\ c.op \in {"apply", "approve"} => c.by \in Callers
      /\ c.pc = "admitted" /\ c.op \in OnRow => c.row \in 1 .. Len(next)
      /\ c.pc \in {"loaded", "settled"} => c.op \in OnRow /\ c.row \in 1 .. Len(next)
      /\ c.pc = "cleared" => c.op = "apply" /\ (Critical(c.ref) => c.gated)
      /\ c.pc \in {"firing", "fired"} => c.op = "schedule"
  BY <1>4 DEF Sound
<1> QED BY <1>3, <1>7, <1>8 DEF Sound, Like

\* The call of slot q becomes k, up to what Like leaves open; the others stay.
After(q, k) ==
  /\ call' \in [Slots -> CallRecord]
  /\ Like(k, call'[q])
  /\ \A x \in Slots \ {q} : Like(call[x], call'[x])

LEMMA LikeItself == ASSUME NEW c PROVE Like(c, c)
BY DEF Like

LEMMA Put ==
  ASSUME AdmissionTypes, NEW q \in Slots, NEW k \in CallRecord, call' = [call EXCEPT ![q] = k]
  PROVE  After(q, k)
<1>1. call \in [Slots -> CallRecord] BY DEF AdmissionTypes
<1>2. call' \in [Slots -> CallRecord] BY <1>1
<1>3. call'[q] = k BY <1>1
<1>4. ASSUME NEW x \in Slots \ {q} PROVE call'[x] = call[x] BY <1>1
<1> QED BY <1>2, <1>3, <1>4, LikeItself DEF After

\* A save clears a history flag of the calls about its target.
LEMMA PutSaved ==
  ASSUME AdmissionTypes, NEW q \in Slots, NEW k \in CallRecord, NEW ref, NEW phase,
         Saves([call EXCEPT ![q] = k], ref, phase)
  PROVE  After(q, k)
<1> DEFINE m == [call EXCEPT ![q] = k]
           n(x) == [m[x] EXCEPT !.tired = @ /\ (m[x].ref # ref \/ m[x].pc = "deploying")]
<1>1. call \in [Slots -> CallRecord] BY DEF AdmissionTypes
<1>2. m \in [Slots -> CallRecord] BY <1>1
<1>3. call' = [x \in DOMAIN m |-> n(x)] BY DEF Saves
<1>4. m[q] = k /\ \A x \in Slots \ {q} : m[x] = call[x] BY <1>1
<1> HIDE DEF m
<1>5. DOMAIN m = Slots BY <1>2
<1>6. ASSUME NEW x \in Slots PROVE n(x) \in CallRecord /\ Like(m[x], n(x))
  <2>1. m[x] \in CallRecord BY <1>2
  <2>2. n(x).tired \in BOOLEAN BY <2>1 DEF CallRecord
  <2>3. n(x) \in CallRecord BY <2>1, <2>2 DEF CallRecord
  <2>4. Like(m[x], n(x)) BY <2>1 DEF CallRecord, Like
  <2> QED BY <2>3, <2>4
<1>7. \A x \in Slots : call'[x] = n(x) BY <1>3, <1>5
<1> HIDE DEF n
<1>8. call' \in [Slots -> CallRecord] BY <1>3, <1>5, <1>6
<1> QED BY <1>4, <1>6, <1>7, <1>8 DEF After

\* A step of one call that resolves or adds rows as RowSound asks.
LEMMA Keeps ==
  ASSUME AdmissionInv, NEW q \in Slots, NEW k \in CallRecord, After(q, k),
         Sound(k, rollouts', frozen), frozen' = frozen,
         rollouts' \in Seq(RowRecord), Grows(rollouts, rollouts'),
         \A i \in 1 .. Len(rollouts') : RowSound(rollouts'[i]),
         spare' \in SpareRecord, queue' \subseteq DOMAIN Schedules, Fired(spare'.queue, queue', rollouts')
  PROVE  AdmissionInv'
<1>1. AdmissionTypes' BY DEF AdmissionInv, AdmissionTypes, After
<1>2. ASSUME NEW x \in Slots PROVE Sound(call'[x], rollouts', frozen')
  <2>0. call[x] \in CallRecord /\ call'[x] \in CallRecord BY DEF After, AdmissionInv, AdmissionTypes
  <2>1. rollouts \in Seq(RowRecord) BY DEF AdmissionInv, AdmissionTypes
  <2>2. CASE x = q
    <3>1. Grows(rollouts', rollouts') BY DEF Grows
    <3>2. Like(k, call'[x]) BY <2>2 DEF After
    <3>3. k.under => frozen BY DEF Sound
    <3> QED BY <2>0, <3>1, <3>2, <3>3, StaysSound
  <2>3. CASE x # q
    <3>1. Like(call[x], call'[x]) BY <2>3 DEF After
    <3>2. Sound(call[x], rollouts, frozen) BY DEF AdmissionInv
    <3>3. call[x].under => frozen BY <3>2 DEF Sound
    <3> QED BY <2>0, <2>1, <3>1, <3>2, <3>3, StaysSound
  <2> QED BY <2>2, <2>3
<1> QED BY <1>1, <1>2 DEF AdmissionInv

\* A step of one call that leaves the rows and the queue alone.
LEMMA Alone ==
  ASSUME AdmissionInv, NEW q \in Slots, NEW k \in CallRecord, After(q, k),
         Sound(k, rollouts, frozen), UNCHANGED <<frozen, rollouts, queue>>,
         spare' = spare \/ Outage
  PROVE  AdmissionInv'
<1>1. rollouts \in Seq(RowRecord) /\ Grows(rollouts, rollouts)
  BY DEF AdmissionInv, AdmissionTypes, Grows
<1>2. spare \in SpareRecord BY DEF AdmissionInv, AdmissionTypes
<1>3. spare' \in SpareRecord /\ spare'.queue = spare.queue
  BY <1>2 DEF Outage, SpareRecord
<1>4. Fired(spare'.queue, queue', rollouts') BY <1>3 DEF AdmissionInv
<1>5. queue' \subseteq DOMAIN Schedules BY DEF AdmissionInv, AdmissionTypes
<1>6. \A i \in 1 .. Len(rollouts') : RowSound(rollouts'[i]) BY DEF AdmissionInv
<1> QED BY <1>1, <1>3, <1>4, <1>5, <1>6, Keeps

\* The edits the handlers make leave a call well formed.
LEMMA EditPlace ==
  ASSUME NEW c \in CallRecord, NEW p \in Places
  PROVE  [c EXCEPT !.pc = p] \in CallRecord
BY DEF CallRecord

LEMMA EditGate ==
  ASSUME NEW c \in CallRecord, NEW p \in Places, NEW g \in BOOLEAN
  PROVE  [c EXCEPT !.pc = p, !.gated = g] \in CallRecord
BY DEF CallRecord

LEMMA EditRow ==
  ASSUME NEW c \in CallRecord, NEW p \in Places, NEW n \in Nat
  PROVE  [c EXCEPT !.pc = p, !.row = n] \in CallRecord
BY DEF CallRecord

LEMMA EditLeft ==
  ASSUME NEW c \in CallRecord, NEW l \in SUBSET DOMAIN Schedules
  PROVE  [c EXCEPT !.left = l] \in CallRecord
BY DEF CallRecord

LEMMA EditDone ==
  ASSUME NEW c \in CallRecord, NEW p \in Places, NEW l \in SUBSET DOMAIN Schedules
  PROVE  [c EXCEPT !.pc = p, !.left = l] \in CallRecord
BY DEF CallRecord

LEMMA EditFailed ==
  ASSUME NEW c \in CallRecord, NEW p \in Places, NEW l \in SUBSET DOMAIN Schedules, NEW g \in BOOLEAN
  PROVE  [c EXCEPT !.pc = p, !.left = l, !.under = g] \in CallRecord
BY DEF CallRecord

LEMMA EditFiring ==
  ASSUME NEW c \in CallRecord, NEW p \in Places, NEW s \in Ids, NEW r \in TargetRefs, NEW o \in Origins, NEW n \in Nat
  PROVE  [c EXCEPT !.pc = p, !.by = s, !.ref = r, !.sch = o, !.row = n] \in CallRecord
BY DEF CallRecord

\* So are the calls they make from nothing.
LEMMA Fresh ==
  ASSUME NEW p \in Places, NEW d \in Daemons \cup {""}, NEW b \in Ids, NEW o \in Doings, NEW r \in TargetRefs,
         NEW n \in Nat, NEW u \in BOOLEAN, NEW t \in BOOLEAN, NEW l \in SUBSET DOMAIN Schedules
  PROVE  [pc |-> p, d |-> d, by |-> b, op |-> o, ref |-> r, row |-> n,
          gated |-> FALSE, under |-> u, tired |-> t, left |-> l, sch |-> ""] \in CallRecord
<1>1. ASSUME NEW j \in BOOLEAN, NEW m \in Origins
      PROVE  [pc |-> p, d |-> d, by |-> b, op |-> o, ref |-> r, row |-> n,
              gated |-> j, under |-> u, tired |-> t, left |-> l, sch |-> m] \in CallRecord
  BY DEF CallRecord
<1>2. Nobody \in Ids /\ FALSE \in BOOLEAN /\ "" \in Origins BY DEF Ids, Origins
<1> QED BY <1>1, <1>2

LEMMA Nothing == NoCall \in CallRecord /\ \A rows, frz : Sound(NoCall, rows, frz)
<1>1. NoCall \in CallRecord
  <2>1. "" \in Daemons \cup {""} /\ "" \in TargetRefs /\ Nobody \in Ids /\ {} \in SUBSET DOMAIN Schedules
        /\ FALSE \in BOOLEAN /\ "idle" \in Places /\ "" \in Doings /\ 0 \in Nat
    BY DEF TargetRefs, Ids, Places, Doings
  <2> QED BY <2>1, Fresh DEF NoCall
<1>2. NoCall.pc = "idle" /\ NoCall.op = "" /\ NoCall.under = FALSE BY DEF NoCall
<1> QED BY <1>1, <1>2 DEF Sound

LEMMA Answered ==
  ASSUME AdmissionInv, NEW q \in Slots, Answer(q), UNCHANGED <<frozen, rollouts, queue>>, spare' = spare \/ Outage
  PROVE  AdmissionInv'
<1>1. After(q, NoCall) BY Nothing, Put DEF Answer, Returned, AdmissionInv
<1> QED BY <1>1, Nothing, Alone

-----------------------------------------------------------------------------
\* Requests

LEMMA ArriveKeeps == ASSUME AdmissionInv, NEW q \in Requests, Arrive(q) PROVE AdmissionInv'
<1>1. PICK d \in Daemons, a \in spare.asks, row \in 0 .. Len(rollouts) :
        /\ IF a.op \in OnRow THEN row > 0 /\ rollouts[row].ref = a.ref ELSE row = 0
        /\ call' = [call EXCEPT ![q] = [NoCall EXCEPT !.pc = "admitted", !.d = d, !.by = a.by, !.op = a.op, !.ref = a.ref,
                      !.row = row, !.under = frozen, !.tired = a.op = "apply" /\ Tired(a.ref)]]
        /\ UNCHANGED <<frozen, rollouts, queue, spare>>
  BY DEF Arrive, Permitted
<1> DEFINE t == a.op = "apply" /\ Tired(a.ref)
           k == [NoCall EXCEPT !.pc = "admitted", !.d = d, !.by = a.by, !.op = a.op, !.ref = a.ref,
                   !.row = row, !.under = frozen, !.tired = t]
<1>2. a \in [by : Callers, op : Operations, ref : TargetRefs]
  BY DEF AdmissionInv, AdmissionTypes, SpareRecord
<1>3. frozen \in BOOLEAN /\ Len(rollouts) \in Nat BY DEF AdmissionInv, AdmissionTypes
<1>4. t \in BOOLEAN /\ call' = [call EXCEPT ![q] = k] BY <1>1
<1> HIDE DEF t
<1>5. k \in CallRecord
  <2>0. row \in Nat BY <1>3
  <2>1. d \in Daemons \cup {""} /\ a.by \in Ids /\ a.op \in Doings /\ a.ref \in TargetRefs
        /\ "admitted" \in Places /\ {} \in SUBSET DOMAIN Schedules
    BY <1>2 DEF Ids, Doings, Places
  <2>2. ASSUME NEW u \in BOOLEAN, NEW v \in BOOLEAN
        PROVE  [NoCall EXCEPT !.pc = "admitted", !.d = d, !.by = a.by, !.op = a.op, !.ref = a.ref,
                   !.row = row, !.under = u, !.tired = v] \in CallRecord
    BY <2>0, <2>1, Nothing DEF CallRecord
  <2> QED BY <1>3, <1>4, <2>2
<1>6. k.pc = "admitted" /\ k.op = a.op /\ k.by = a.by /\ k.row = row /\ k.under = frozen BY DEF NoCall
<1>7. Sound(k, rollouts, frozen)
  <2>1. a.op \in OnRow => row \in 1 .. Len(rollouts) BY <1>1, <1>3
  <2>2. a.by \in Callers BY <1>2
  <2> HIDE DEF k
  <2> QED BY <1>6, <2>1, <2>2 DEF Sound
<1>8. After(q, k)
  <2> HIDE DEF k
  <2> QED BY <1>4, <1>5, Put DEF AdmissionInv, Slots
<1> HIDE DEF k
<1> QED BY <1>1, <1>5, <1>7, <1>8, Alone DEF Slots

LEMMA ApplyCheckKeeps == ASSUME AdmissionInv, NEW q \in Requests, ApplyCheck(q) PROVE AdmissionInv'
<1> DEFINE c == call[q]
           g == MustApprove(FloorOfConfig(c.ref)) \/ NeedsApproval(c.ref)
           k == [c EXCEPT !.pc = "cleared", !.gated = g]
<1>0. q \in Slots /\ UNCHANGED <<frozen, rollouts, queue>> /\ c.pc = "admitted" /\ c.op = "apply"
      /\ (spare' = spare \/ Outage)
  BY DEF ApplyCheck, Slots
<1>1. CASE Answer(q) BY <1>0, <1>1, Answered
<1>2. CASE Clears(c.d, c.by) /\ call' = [call EXCEPT ![q].pc = "cleared", ![q].gated = g]
  <2>1. c \in CallRecord /\ call \in [Slots -> CallRecord] BY <1>0 DEF AdmissionInv, AdmissionTypes
  <2>2. ~ frozen BY <1>2 DEF Clears
  <2>3. Critical(c.ref) => g BY DEF Critical, MustApprove, FloorOfConfig
  <2>4. g \in BOOLEAN BY DEF MustApprove
  <2>5. Sound(c, rollouts, frozen) BY <1>0 DEF AdmissionInv
  <2>6. call' = [call EXCEPT ![q] = k] BY <1>0, <1>2, <2>1
  <2> HIDE DEF g
  <2>7. k \in CallRecord
    <3>1. "cleared" \in Places /\ c \in CallRecord BY <2>1 DEF Places
    <3> HIDE DEF c
    <3> QED BY <2>4, <3>1, EditGate
  <2>8. k.pc = "cleared" /\ k.gated = g /\ k.op = c.op /\ k.ref = c.ref /\ k.under = c.under /\ k.by = c.by
    BY <2>1 DEF CallRecord
  <2> HIDE DEF k
  <2>9. Sound(k, rollouts, frozen)
    <3> HIDE DEF c
    <3> QED BY <1>0, <2>2, <2>3, <2>5, <2>8 DEF Sound
  <2>10. After(q, k) BY <1>0, <2>6, <2>7, Put DEF AdmissionInv
  <2> QED BY <1>0, <2>7, <2>9, <2>10, Alone
<1> QED BY <1>1, <1>2 DEF ApplyCheck

LEMMA LoadRowKeeps == ASSUME AdmissionInv, NEW q \in Requests, LoadRow(q) PROVE AdmissionInv'
<1> DEFINE c == call[q]
           p == IF rollouts[c.row].phase = "awaiting" THEN "loaded" ELSE "settled"
           k == [c EXCEPT !.pc = p]
<1>0. q \in Slots /\ UNCHANGED <<frozen, rollouts, queue, spare>> /\ c.pc = "admitted" /\ c.op \in OnRow
  BY DEF LoadRow, Slots
<1>1. CASE Answer(q) BY <1>0, <1>1, Answered
<1>2. CASE call' = Goto(q, p)
  <2>1. c \in CallRecord /\ call \in [Slots -> CallRecord] BY <1>0 DEF AdmissionInv, AdmissionTypes
  <2>2. Sound(c, rollouts, frozen) BY <1>0 DEF AdmissionInv
  <2>3. c.row \in 1 .. Len(rollouts) BY <1>0, <2>2 DEF Sound
  <2>4. p \in {"loaded", "settled"} OBVIOUS
  <2>5. p \in Places BY <2>4 DEF Places
  <2>6. call' = [call EXCEPT ![q] = k] BY <1>0, <1>2, <2>1 DEF Goto
  <2> HIDE DEF p
  <2>7. k \in CallRecord BY <2>1, <2>5 DEF CallRecord
  <2>8. k.pc = p /\ k.op = c.op /\ k.row = c.row /\ k.under = c.under /\ k.by = c.by BY <2>1 DEF CallRecord
  <2> HIDE DEF k
  <2>9. Sound(k, rollouts, frozen)
    <3> HIDE DEF c
    <3> QED BY <1>0, <2>2, <2>3, <2>4, <2>8 DEF Sound
  <2>10. After(q, k) BY <1>0, <2>6, <2>7, Put DEF AdmissionInv
  <2> QED BY <1>0, <2>7, <2>9, <2>10, Alone
<1> QED BY <1>0, <1>1, <1>2 DEF LoadRow

LEMMA ApproveStartKeeps == ASSUME AdmissionInv, NEW q \in Requests, ApproveStart(q) PROVE AdmissionInv'
<1> DEFINE c == call[q]
           k == [c EXCEPT !.pc = "deploying"]
<1>0. q \in Slots /\ UNCHANGED <<frozen, rollouts, queue>> /\ c.pc \in {"loaded", "settled"} /\ c.op = "approve"
      /\ (spare' = spare \/ Outage)
  BY DEF ApproveStart, Slots
<1>1. CASE Answer(q) BY <1>0, <1>1, Answered
<1>2. CASE c.pc # "settled" /\ Clears(c.d, c.by) /\ call' = Goto(q, "deploying")
  <2>1. c \in CallRecord /\ call \in [Slots -> CallRecord] BY <1>0 DEF AdmissionInv, AdmissionTypes
  <2>2. Sound(c, rollouts, frozen) BY <1>0 DEF AdmissionInv
  <2>3. ~ frozen BY <1>2 DEF Clears
  <2>4. call' = [call EXCEPT ![q] = k] BY <1>0, <1>2, <2>1 DEF Goto
  <2>5. k \in CallRecord
    <3>1. "deploying" \in Places /\ c \in CallRecord BY <2>1 DEF Places
    <3> HIDE DEF c
    <3> QED BY <3>1, EditPlace
  <2>6. k.pc = "deploying" /\ k.op = c.op /\ k.row = c.row /\ k.under = c.under /\ k.by = c.by
    BY <2>1 DEF CallRecord
  <2> HIDE DEF k
  <2>7. Sound(k, rollouts, frozen)
    <3>1. c.pc = "loaded" BY <1>0, <1>2
    <3> HIDE DEF c
    <3> QED BY <1>0, <2>2, <2>3, <2>6, <3>1 DEF Sound
  <2>8. After(q, k) BY <1>0, <2>4, <2>5, Put DEF AdmissionInv
  <2> QED BY <1>0, <2>5, <2>7, <2>8, Alone
<1> QED BY <1>1, <1>2 DEF ApproveStart

\* What a new row, and the resolution of one, leave true of the rows.
LEMMA Added ==
  ASSUME NEW rows \in Seq(RowRecord), \A i \in 1 .. Len(rows) : RowSound(rows[i]),
         NEW r \in RowRecord, RowSound(r), NEW next, next = Append(rows, r)
  PROVE  /\ next \in Seq(RowRecord) /\ Grows(rows, next) /\ \A i \in 1 .. Len(next) : RowSound(next[i])
         /\ Len(next) = Len(rows) + 1 /\ next[Len(next)] = r
<1>1. next \in Seq(RowRecord) /\ Len(next) = Len(rows) + 1 /\ next[Len(next)] = r /\ Len(rows) \in Nat OBVIOUS
<1>2. \A i \in 1 .. Len(rows) : next[i] = rows[i] OBVIOUS
<1>3. \A i \in 1 .. Len(next) : i = Len(next) \/ i \in 1 .. Len(rows) BY <1>1
<1>4. Grows(rows, next) BY <1>1, <1>2 DEF Grows
<1> QED BY <1>1, <1>2, <1>3, <1>4

\* What a row is for, where it came from and that it ran is kept.
Resolves(w, r) == r.ref = w.ref /\ r.sch = w.sch /\ (w.ran => r.ran)

\* Row n, and no other, becomes r.
Swaps(rows, next, n, r) ==
  /\ Len(next) = Len(rows) /\ next[n] = r
  /\ \A i \in 1 .. Len(rows) : i # n => next[i] = rows[i]

LEMMA Resolved ==
  ASSUME NEW rows \in Seq(RowRecord), \A i \in 1 .. Len(rows) : RowSound(rows[i]), NEW n \in 1 .. Len(rows),
         NEW r \in RowRecord, RowSound(r), NEW next \in Seq(RowRecord), Swaps(rows, next, n, r), Resolves(rows[n], r)
  PROVE  Grows(rows, next) /\ \A i \in 1 .. Len(next) : RowSound(next[i])
<1>1. Grows(rows, next) BY DEF Grows, Resolves, Swaps
<1> QED BY <1>1 DEF Swaps

LEMMA StaysFired ==
  ASSUME NEW rows \in Seq(RowRecord), NEW next \in Seq(RowRecord), Grows(rows, next), NEW was, NEW now, Fired(was, now, rows)
  PROVE  Fired(was, now, next)
<1>1. \A i \in 1 .. Len(rows) : i \in 1 .. Len(next) BY DEF Grows
<1> QED BY <1>1 DEF Fired, Grows

\* A step of one call that saves a row as well.
LEMMA Stored ==
  ASSUME AdmissionInv, NEW q \in Slots, NEW k \in CallRecord, After(q, k), Sound(k, rollouts', frozen),
         UNCHANGED <<frozen, queue, spare>>,
         rollouts' \in Seq(RowRecord), Grows(rollouts, rollouts'), \A i \in 1 .. Len(rollouts') : RowSound(rollouts'[i])
  PROVE  AdmissionInv'
<1>1. rollouts \in Seq(RowRecord) /\ spare \in SpareRecord /\ queue \subseteq DOMAIN Schedules
      /\ Fired(spare.queue, queue, rollouts)
  BY DEF AdmissionInv, AdmissionTypes
<1>2. Fired(spare.queue, queue, rollouts') BY <1>1, StaysFired
<1> QED BY <1>1, <1>2, Keeps

LEMMA RowIsRecord ==
  ASSUME NEW ref \in TargetRefs, NEW phase \in Phases, NEW by \in Callers, NEW sch \in Origins
  PROVE  Row(ref, phase, by, sch) \in RowRecord /\ RowSound(Row(ref, phase, by, sch))
<1>1. Nobody \in Ids /\ by \in Ids BY DEF Ids
<1>2. Row(ref, phase, by, sch) \in RowRecord BY <1>1 DEF Row, RowRecord
<1>3. RowSound(Row(ref, phase, by, sch)) BY DEF Row, RowSound
<1> QED BY <1>2, <1>3

LEMMA ApplyStoreKeeps == ASSUME AdmissionInv, NEW q \in Requests, ApplyStore(q) PROVE AdmissionInv'
<1> DEFINE c == call[q]
           p == IF c.gated THEN "awaiting" ELSE "deploying"
           r == Row(c.ref, p, c.by, "")
           n == Len(rollouts) + 1
<1>0. q \in Slots /\ UNCHANGED <<frozen, queue, spare>> /\ c.pc = "cleared" BY DEF ApplyStore, Slots
<1>1. CASE Answer(q) /\ UNCHANGED rollouts BY <1>0, <1>1, Answered
<1>2. CASE /\ rollouts' = Append(rollouts, r)
           /\ Saves(IF c.gated THEN Returned(q) ELSE [Goto(q, "deploying") EXCEPT ![q].row = n],
                    c.ref, rollouts'[Len(rollouts')].phase)
  <2>1. c \in CallRecord /\ call \in [Slots -> CallRecord] BY <1>0 DEF AdmissionInv, AdmissionTypes
  <2>2. Sound(c, rollouts, frozen) BY <1>0 DEF AdmissionInv
  <2>3. c.op = "apply" /\ ~ c.under /\ c.by \in Callers /\ (Critical(c.ref) => c.gated) BY <1>0, <2>2 DEF Sound
  <2>4. rollouts \in Seq(RowRecord) /\ (\A i \in 1 .. Len(rollouts) : RowSound(rollouts[i])) /\ n \in Nat
    BY DEF AdmissionInv, AdmissionTypes
  <2>5. r \in RowRecord /\ RowSound(r) /\ r.ref = c.ref
    <3>1. c.ref \in TargetRefs /\ p \in Phases /\ "" \in Origins BY <2>1 DEF CallRecord, Phases, Origins
    <3>2. c.by \in Callers BY <2>3
    <3> HIDE DEF c, p
    <3>3. r \in RowRecord /\ RowSound(r) BY <3>1, <3>2, RowIsRecord
    <3>4. r.ref = c.ref BY DEF Row
    <3> QED BY <3>3, <3>4
  <2> HIDE DEF r
  <2>6. /\ rollouts' \in Seq(RowRecord) /\ Grows(rollouts, rollouts')
        /\ \A i \in 1 .. Len(rollouts') : RowSound(rollouts'[i])
        /\ Len(rollouts') = Len(rollouts) + 1 /\ rollouts'[Len(rollouts')] = r
    BY <1>2, <2>4, <2>5, Added
  <2>7. CASE c.gated
    <3>1. Saves([call EXCEPT ![q] = NoCall], c.ref, rollouts'[Len(rollouts')].phase) BY <1>2, <2>7 DEF Returned, Saves
    <3>2. After(q, NoCall) BY <1>0, <3>1, Nothing, PutSaved DEF AdmissionInv
    <3> QED BY <1>0, <2>6, <3>2, Nothing, Stored
  <2>8. CASE ~ c.gated
    <3> DEFINE k == [c EXCEPT !.pc = "deploying", !.row = n]
    <3>1. [Goto(q, "deploying") EXCEPT ![q].row = n] = [call EXCEPT ![q] = k] BY <1>0, <2>1 DEF Goto
    <3>2. k \in CallRecord
      <4>1. "deploying" \in Places /\ c \in CallRecord BY <2>1 DEF Places
      <4> HIDE DEF c, n
      <4> QED BY <2>4, <4>1, EditRow
    <3>3. k.pc = "deploying" /\ k.row = n /\ k.op = c.op /\ k.under = c.under /\ k.by = c.by
      BY <2>1 DEF CallRecord
    <3> HIDE DEF k
    <3>4. Saves([call EXCEPT ![q] = k], c.ref, rollouts'[Len(rollouts')].phase) BY <1>2, <2>8, <3>1 DEF Saves
    <3>5. After(q, k) BY <1>0, <3>2, <3>4, PutSaved DEF AdmissionInv
    <3>6. n \in 1 .. Len(rollouts') /\ rollouts'[n].ref = c.ref BY <2>4, <2>5, <2>6
    <3>7. Sound(k, rollouts', frozen)
      <4> HIDE DEF c, n
      <4> QED BY <2>3, <2>8, <3>3, <3>6 DEF Sound
    <3> QED BY <1>0, <2>6, <3>2, <3>5, <3>7, Stored
  <2> QED BY <2>7, <2>8
<1> QED BY <1>1, <1>2 DEF ApplyStore

LEMMA RejectKeeps == ASSUME AdmissionInv, NEW q \in Requests, Reject(q) PROVE AdmissionInv'
<1> DEFINE c == call[q]
           w == rollouts[c.row]
           r == [w EXCEPT !.phase = "rolled_back"]
<1>0. q \in Slots /\ UNCHANGED <<frozen, queue, spare>> /\ c.pc \in {"loaded", "settled"} BY DEF Reject, Slots
<1>1. CASE Answer(q) /\ UNCHANGED rollouts BY <1>0, <1>1, Answered
<1>2. CASE /\ rollouts' = [rollouts EXCEPT ![c.row].phase = "rolled_back"]
           /\ Saves(Returned(q), c.ref, "rolled_back")
  <2>1. c \in CallRecord /\ call \in [Slots -> CallRecord] BY <1>0 DEF AdmissionInv, AdmissionTypes
  <2>2. Sound(c, rollouts, frozen) BY <1>0 DEF AdmissionInv
  <2>3. c.row \in 1 .. Len(rollouts) BY <1>0, <2>2 DEF Sound
  <2>4. rollouts \in Seq(RowRecord) /\ \A i \in 1 .. Len(rollouts) : RowSound(rollouts[i])
    BY DEF AdmissionInv, AdmissionTypes
  <2>5. w \in RowRecord /\ RowSound(w) BY <2>3, <2>4
  <2>7. rollouts' = [rollouts EXCEPT ![c.row] = r] BY <1>2, <2>3, <2>4
  <2> HIDE DEF w
  <2>8. r \in RowRecord BY <2>5 DEF RowRecord, Phases
  <2>9. r.ref = w.ref /\ r.sch = w.sch /\ r.ran = w.ran /\ r.approver = w.approver
        /\ r.phase = "rolled_back"
    BY <2>5 DEF RowRecord
  <2>10. RowSound(r) /\ Resolves(w, r) BY <2>5, <2>9 DEF RowSound, Resolves
  <2> HIDE DEF r
  <2>11. rollouts' \in Seq(RowRecord) /\ Swaps(rollouts, rollouts', c.row, r) BY <2>3, <2>4, <2>7, <2>8 DEF Swaps
  <2>12. /\ rollouts' \in Seq(RowRecord) /\ Grows(rollouts, rollouts')
         /\ \A i \in 1 .. Len(rollouts') : RowSound(rollouts'[i])
    BY <2>3, <2>4, <2>8, <2>10, <2>11, Resolved DEF w
  <2>13. After(q, NoCall) BY <1>0, <1>2, Nothing, PutSaved DEF AdmissionInv, Returned
  <2> QED BY <1>0, <2>12, <2>13, Nothing, Stored
<1> QED BY <1>1, <1>2 DEF Reject

LEMMA DeployKeeps == ASSUME AdmissionInv, NEW q \in Slots, Deploy(q) PROVE AdmissionInv'
<1> DEFINE c == call[q]
           w == rollouts[c.row]
           a == IF c.op = "approve" THEN c.by ELSE w.approver
<1>1. PICK ok \in BOOLEAN :
        /\ c.pc = "deploying"
        /\ rollouts' = [rollouts EXCEPT ![c.row].phase = IF ok THEN "verifying" ELSE "rolled_back", ![c.row].ran = TRUE,
                          ![c.row].approver = IF c.op = "approve" THEN c.by ELSE @]
        /\ Saves(IF c.op # "schedule" THEN Returned(q) ELSE IF ok THEN Goto(q, "fired")
                 ELSE [Goto(q, "firing") EXCEPT ![q].left = @ \ {c.sch}, ![q].under = FALSE],
                 c.ref, IF ok THEN "verifying" ELSE "rolled_back")
        /\ UNCHANGED <<frozen, queue, spare>>
  BY DEF Deploy
<1> DEFINE p == IF ok THEN "verifying" ELSE "rolled_back"
           r == [w EXCEPT !.phase = p, !.ran = TRUE, !.approver = a]
<1>2. c \in CallRecord /\ call \in [Slots -> CallRecord] BY DEF AdmissionInv, AdmissionTypes
<1>3. Sound(c, rollouts, frozen) BY DEF AdmissionInv
<1>4. c.row \in 1 .. Len(rollouts) BY <1>1, <1>3 DEF Sound
<1>5. rollouts \in Seq(RowRecord) /\ \A i \in 1 .. Len(rollouts) : RowSound(rollouts[i])
  BY DEF AdmissionInv, AdmissionTypes
<1>6. w \in RowRecord /\ RowSound(w) BY <1>4, <1>5
<1>7. rollouts' = [rollouts EXCEPT ![c.row] = r] BY <1>1, <1>4, <1>5
<1>8. a \in Ids /\ p \in Phases /\ p # "awaiting" BY <1>2, <1>6 DEF RowRecord, CallRecord, Phases
<1>9. /\ c.op \in {"apply", "approve", "schedule"}
      /\ c.op = "approve" => a = c.by /\ c.by \in Callers
      /\ c.op # "approve" => a = w.approver
      /\ c.op = "apply" => ~ Critical(w.ref)
      /\ c.op = "schedule" => w.sch = c.sch /\ c.sch \in DOMAIN Schedules
  BY <1>1, <1>3 DEF Sound
<1> HIDE DEF a, p, w, c
<1>10. r \in RowRecord BY <1>6, <1>8 DEF RowRecord
<1>11. r.ref = w.ref /\ r.sch = w.sch /\ r.ran = TRUE /\ r.approver = a /\ r.phase = p
  BY <1>6 DEF RowRecord
<1> HIDE DEF r
<1>12. RowSound(r) /\ Resolves(w, r) BY <1>6, <1>8, <1>9, <1>11, AdmissionAssumption DEF RowSound, Resolves
<1>13. rollouts' \in Seq(RowRecord) /\ Swaps(rollouts, rollouts', c.row, r) BY <1>4, <1>5, <1>7, <1>10 DEF Swaps
<1>14. /\ rollouts' \in Seq(RowRecord) /\ Grows(rollouts, rollouts')
       /\ \A i \in 1 .. Len(rollouts') : RowSound(rollouts'[i])
       /\ Len(rollouts') = Len(rollouts) /\ rollouts'[c.row] = r
  <2>1. Len(rollouts') = Len(rollouts) /\ rollouts'[c.row] = r BY <1>13 DEF Swaps
  <2> QED BY <1>4, <1>5, <1>10, <1>12, <1>13, <2>1, Resolved DEF w
<1>15. CASE c.op # "schedule"
  <2>1. Saves([call EXCEPT ![q] = NoCall], c.ref, p) BY <1>1, <1>15 DEF Returned, Saves, p, c
  <2>2. After(q, NoCall) BY <2>1, Nothing, PutSaved DEF AdmissionInv
  <2> QED BY <1>1, <1>14, <2>2, Nothing, Stored
<1>16. CASE c.op = "schedule" /\ ok
  <2> DEFINE k == [c EXCEPT !.pc = "fired"]
  <2>1. Goto(q, "fired") = [call EXCEPT ![q] = k] BY <1>2 DEF Goto, c
  <2>2. "fired" \in Places BY DEF Places
  <2>3. k \in CallRecord BY <1>2, <2>2, EditPlace
  <2>4. k.pc = "fired" /\ k.op = c.op /\ k.sch = c.sch /\ k.under = c.under BY <1>2 DEF CallRecord
  <2> HIDE DEF k
  <2>5. Saves([call EXCEPT ![q] = k], c.ref, p) BY <1>1, <1>16, <2>1 DEF Saves, p, c
  <2>6. After(q, k) BY <2>3, <2>5, PutSaved DEF AdmissionInv
  <2>7. Sound(k, rollouts', frozen) BY <1>1, <1>3, <1>4, <1>9, <1>11, <1>14, <1>16, <2>4 DEF Sound
  <2> QED BY <1>1, <1>14, <2>3, <2>6, <2>7, Stored
<1>17. CASE c.op = "schedule" /\ ~ ok
  <2> DEFINE l == c.left \ {c.sch}
             k == [c EXCEPT !.pc = "firing", !.left = l, !.under = FALSE]
  <2>1. [Goto(q, "firing") EXCEPT ![q].left = @ \ {c.sch}, ![q].under = FALSE] = [call EXCEPT ![q] = k]
    BY <1>2 DEF Goto, c, CallRecord
  <2>2. "firing" \in Places /\ FALSE \in BOOLEAN /\ l \in SUBSET DOMAIN Schedules BY <1>2 DEF Places, CallRecord
  <2> HIDE DEF l
  <2>3. k \in CallRecord BY <1>2, <2>2, EditFailed
  <2>4. k.pc = "firing" /\ k.op = c.op /\ k.under = FALSE BY <1>2 DEF CallRecord
  <2> HIDE DEF k
  <2>5. Saves([call EXCEPT ![q] = k], c.ref, p) BY <1>1, <1>17, <2>1 DEF Saves, p, c
  <2>6. After(q, k) BY <2>3, <2>5, PutSaved DEF AdmissionInv
  <2>7. Sound(k, rollouts', frozen) BY <1>17, <2>4 DEF Sound
  <2> QED BY <1>1, <1>14, <2>3, <2>6, <2>7, Stored
<1> QED BY <1>15, <1>16, <1>17

\* A freeze marks nobody, a lift clears everybody's mark.
LEMMA FreezePersistKeeps == ASSUME AdmissionInv, NEW q \in Requests, FreezePersist(q) PROVE AdmissionInv'
<1> DEFINE c == call[q]
           f == c.op = "freeze"
<1>0. q \in Slots /\ UNCHANGED <<rollouts, queue>> /\ c.pc = "admitted" /\ c.op \in OnFreeze BY DEF FreezePersist, Slots
<1>1. CASE Outage /\ Answer(q) /\ UNCHANGED frozen BY <1>0, <1>1, Answered
<1>2. CASE /\ frozen' = f /\ UNCHANGED spare
           /\ call' = [x \in DOMAIN call |-> [Goto(q, "persisted")[x] EXCEPT !.under = @ /\ f]]
  <2> DEFINE m == Goto(q, "persisted")
             n(x) == [m[x] EXCEPT !.under = @ /\ f]
  <2>1. c \in CallRecord /\ call \in [Slots -> CallRecord] BY <1>0 DEF AdmissionInv, AdmissionTypes
  <2>2. "persisted" \in Places BY DEF Places
  <2>3. m = [call EXCEPT ![q] = [c EXCEPT !.pc = "persisted"]] BY <1>0, <2>1 DEF Goto
  <2>4. [c EXCEPT !.pc = "persisted"] \in CallRecord
    <3>1. c \in CallRecord BY <2>1
    <3> HIDE DEF c
    <3> QED BY <2>2, <3>1, EditPlace
  <2>5. m \in [Slots -> CallRecord] BY <1>0, <2>1, <2>3, <2>4
  <2>6. DOMAIN call = Slots /\ m[q] = [c EXCEPT !.pc = "persisted"] /\ \A x \in Slots \ {q} : m[x] = call[x]
    BY <1>0, <2>1, <2>3
  <2>7. m[q].pc = "persisted" /\ m[q].op = c.op BY <2>1, <2>6 DEF CallRecord
  <2>8. ASSUME NEW x \in Slots
        PROVE  /\ call'[x] \in CallRecord /\ (call'[x].under => m[x].under /\ f)
               /\ call'[x] = n(x)
    <3>1. call'[x] = n(x) BY <1>2, <2>6
    <3>2. m[x] \in CallRecord BY <2>5
    <3> HIDE DEF m, f
    <3>3. n(x).under \in BOOLEAN /\ (n(x).under => m[x].under /\ f) BY <3>2 DEF CallRecord
    <3>4. n(x) \in CallRecord BY <3>2, <3>3 DEF CallRecord
    <3> QED BY <3>1, <3>3, <3>4
  <2>9. ASSUME NEW x \in Slots
        PROVE  /\ call'[x].pc = m[x].pc /\ call'[x].by = m[x].by /\ call'[x].op = m[x].op /\ call'[x].ref = m[x].ref
               /\ call'[x].row = m[x].row /\ call'[x].gated = m[x].gated /\ call'[x].sch = m[x].sch
    <3>1. m[x] \in CallRecord BY <2>5
    <3>2. call'[x] = n(x) BY <2>8
    <3> HIDE DEF m, f
    <3>3. /\ n(x).pc = m[x].pc /\ n(x).by = m[x].by /\ n(x).op = m[x].op /\ n(x).ref = m[x].ref
          /\ n(x).row = m[x].row /\ n(x).gated = m[x].gated /\ n(x).sch = m[x].sch
      BY <3>1 DEF CallRecord
    <3> HIDE DEF n
    <3> QED BY <3>2, <3>3
  <2>10. call' \in [Slots -> CallRecord]
    <3>1. DOMAIN call' = Slots BY <1>2, <2>6
    <3>2. call' = [x \in Slots |-> call'[x]] BY <1>2, <2>6
    <3> QED BY <2>8, <3>2
  <2> HIDE DEF n
  <2>11. ASSUME NEW x \in Slots PROVE Sound(call'[x], rollouts, frozen')
    <3>1. call'[x].under => frozen' BY <1>2, <2>8
    <3>2. CASE x = q
      <4>1. call'[x].pc = "persisted" /\ call'[x].op \in OnFreeze BY <1>0, <2>7, <2>9, <3>2
      <4> HIDE DEF m, c, f
      <4> QED BY <3>1, <4>1 DEF Sound, OnFreeze
    <3>3. CASE x # q
      <4>1. Sound(call[x], rollouts, frozen) BY DEF AdmissionInv
      <4>2. m[x] = call[x] BY <2>6, <3>3
      <4> HIDE DEF m, c, f
      <4> QED BY <2>8, <2>9, <3>1, <4>1, <4>2 DEF Sound
    <3> QED BY <3>2, <3>3
  <2>12. frozen' \in BOOLEAN BY <1>2
  <2> QED BY <1>0, <1>2, <2>10, <2>11, <2>12 DEF AdmissionInv, AdmissionTypes
<1> QED BY <1>1, <1>2 DEF FreezePersist

-----------------------------------------------------------------------------
\* Schedules

LEMMA TickKeeps == ASSUME AdmissionInv, NEW d \in Daemons, TickSchedules(d) PROVE AdmissionInv'
<1> DEFINE k == [NoCall EXCEPT !.pc = "firing", !.d = d, !.op = "schedule", !.left = queue]
<1>0. d \in Slots /\ UNCHANGED <<frozen, rollouts, queue, spare>> /\ call' = [call EXCEPT ![d] = k]
  BY DEF TickSchedules, Slots
<1>1. queue \in SUBSET DOMAIN Schedules BY DEF AdmissionInv, AdmissionTypes
<1>2. k \in CallRecord BY <1>1, Nothing DEF CallRecord, Places, Doings
<1>3. k.pc = "firing" /\ k.op = "schedule" /\ k.under = FALSE BY DEF NoCall
<1> HIDE DEF k
<1>4. Sound(k, rollouts, frozen) BY <1>3 DEF Sound
<1>5. After(d, k) BY <1>0, <1>2, Put DEF AdmissionInv
<1> QED BY <1>0, <1>2, <1>4, <1>5, Alone

LEMMA FireNextKeeps == ASSUME AdmissionInv, NEW d \in Daemons, FireNext(d) PROVE AdmissionInv'
<1> DEFINE c == call[d]
           n == Len(rollouts) + 1
<1>1. PICK s \in c.left :
        LET sch == Schedules[s]  skipped == [call EXCEPT ![d].left = @ \ {s}] IN
        /\ c.pc = "firing"
        /\ \/ call' = skipped /\ UNCHANGED <<rollouts, spare>>
           \/ Outage /\ call' = skipped /\ UNCHANGED rollouts
           \/ /\ Clears(d, sch.by) /\ UNCHANGED spare
              /\ rollouts' = Append(rollouts, Row(sch.ref, "deploying", sch.by, s))
              /\ Saves([call EXCEPT ![d].pc = "deploying", ![d].by = sch.by, ![d].ref = sch.ref, ![d].sch = s,
                                    ![d].row = n], sch.ref, "deploying")
        /\ UNCHANGED <<frozen, queue>>
  BY DEF FireNext
<1> DEFINE sch == Schedules[s]
           r == Row(sch.ref, "deploying", sch.by, s)
<1>2. d \in Slots /\ c \in CallRecord /\ call \in [Slots -> CallRecord] BY DEF Slots, AdmissionInv, AdmissionTypes
<1>3. Sound(c, rollouts, frozen) BY <1>2 DEF AdmissionInv
<1>4. s \in DOMAIN Schedules /\ sch.ref \in TargetRefs /\ sch.by \in Callers /\ s \in Origins
  BY <1>2, AdmissionAssumption DEF CallRecord, TargetRefs, Origins
<1>5. CASE call' = [call EXCEPT ![d].left = @ \ {s}] /\ UNCHANGED rollouts /\ (spare' = spare \/ Outage)
  <2> DEFINE l == c.left \ {s}
             k == [c EXCEPT !.left = l]
  <2>1. call' = [call EXCEPT ![d] = k] BY <1>2, <1>5
  <2>2. l \in SUBSET DOMAIN Schedules BY <1>2 DEF CallRecord
  <2>3. k \in CallRecord /\ Like(c, k)
    <3>1. c \in CallRecord BY <1>2
    <3> HIDE DEF c, l
    <3>2. k \in CallRecord BY <2>2, <3>1, EditLeft
    <3>3. Like(c, k) BY <3>1 DEF CallRecord, Like
    <3> QED BY <3>2, <3>3
  <2> HIDE DEF k
  <2>4. Sound(k, rollouts, frozen)
    <3>1. rollouts \in Seq(RowRecord) /\ Grows(rollouts, rollouts) BY DEF AdmissionInv, AdmissionTypes, Grows
    <3>2. c.under => frozen BY <1>3 DEF Sound
    <3> HIDE DEF c
    <3> QED BY <1>2, <1>3, <2>3, <3>1, <3>2, StaysSound DEF c
  <2>5. After(d, k) BY <1>2, <2>1, <2>3, Put DEF AdmissionInv
  <2> QED BY <1>1, <1>2, <1>5, <2>3, <2>4, <2>5, Alone
<1>6. CASE /\ Clears(d, sch.by) /\ UNCHANGED spare
           /\ rollouts' = Append(rollouts, r)
           /\ Saves([call EXCEPT ![d].pc = "deploying", ![d].by = sch.by, ![d].ref = sch.ref, ![d].sch = s,
                                 ![d].row = n], sch.ref, "deploying")
  <2> DEFINE k == [c EXCEPT !.pc = "deploying", !.by = sch.by, !.ref = sch.ref, !.sch = s, !.row = n]
  <2>1. [call EXCEPT ![d].pc = "deploying", ![d].by = sch.by, ![d].ref = sch.ref, ![d].sch = s, ![d].row = n]
        = [call EXCEPT ![d] = k]
    BY <1>2
  <2>2. "deploying" \in Places /\ "deploying" \in Phases /\ n \in Nat /\ sch.by \in Ids
    BY <1>4 DEF Places, Phases, Ids, AdmissionInv, AdmissionTypes
  <2>3. r \in RowRecord /\ RowSound(r) /\ r.sch = s
    <3> HIDE DEF sch
    <3>1. r \in RowRecord /\ RowSound(r) BY <1>4, <2>2, RowIsRecord
    <3>2. r.sch = s BY DEF Row
    <3> QED BY <3>1, <3>2
  <2> HIDE DEF r
  <2>4. k \in CallRecord
    <3>1. c \in CallRecord BY <1>2
    <3> HIDE DEF c, n, sch
    <3> QED BY <1>4, <2>2, <3>1, EditFiring
  <2>5. k.pc = "deploying" /\ k.row = n /\ k.op = c.op /\ k.under = c.under /\ k.sch = s /\ k.by = sch.by
    BY <1>2 DEF CallRecord
  <2> HIDE DEF k
  <2>6. Saves([call EXCEPT ![d] = k], sch.ref, "deploying") BY <1>6, <2>1 DEF Saves
  <2>7. After(d, k) BY <1>2, <2>4, <2>6, PutSaved DEF AdmissionInv
  <2>8. rollouts \in Seq(RowRecord) /\ \A i \in 1 .. Len(rollouts) : RowSound(rollouts[i])
    BY DEF AdmissionInv, AdmissionTypes
  <2>9. /\ rollouts' \in Seq(RowRecord) /\ Grows(rollouts, rollouts')
        /\ \A i \in 1 .. Len(rollouts') : RowSound(rollouts'[i])
        /\ Len(rollouts') = Len(rollouts) + 1 /\ rollouts'[Len(rollouts')] = r
    BY <1>6, <2>3, <2>8, Added
  <2>10. n \in 1 .. Len(rollouts') /\ rollouts'[n].sch = s BY <2>2, <2>3, <2>9
  <2>11. ~ frozen BY <1>6 DEF Clears
  <2>12. Sound(k, rollouts', frozen)
    <3>1. c.op = "schedule" /\ ~ c.under BY <1>1, <1>3, <2>11 DEF Sound
    <3> HIDE DEF c, n, sch
    <3> QED BY <1>4, <2>5, <2>10, <2>11, <3>1 DEF Sound
  <2> QED BY <1>1, <1>2, <1>6, <2>4, <2>7, <2>9, <2>12, Stored
<1> QED BY <1>1, <1>5, <1>6

LEMMA DeleteScheduleKeeps == ASSUME AdmissionInv, NEW d \in Daemons, DeleteSchedule(d) PROVE AdmissionInv'
<1> DEFINE c == call[d]
           l == c.left \ {c.sch}
           k == [c EXCEPT !.pc = "firing", !.left = l]
<1>0. d \in Slots /\ UNCHANGED <<frozen, rollouts>> /\ c.pc = "fired" /\ (spare' = spare \/ Outage)
      /\ queue' \in {queue, queue \ {c.sch}}
      /\ call' = [Goto(d, "firing") EXCEPT ![d].left = @ \ {c.sch}]
  BY DEF DeleteSchedule, Slots
<1>1. c \in CallRecord /\ call \in [Slots -> CallRecord] BY <1>0 DEF AdmissionInv, AdmissionTypes
<1>2. Sound(c, rollouts, frozen) BY <1>0 DEF AdmissionInv
<1>3. call' = [call EXCEPT ![d] = k] BY <1>0, <1>1 DEF Goto, CallRecord
<1>4. "firing" \in Places /\ l \in SUBSET DOMAIN Schedules BY <1>1 DEF Places, CallRecord
<1>5. k \in CallRecord
  <2>1. c \in CallRecord BY <1>1
  <2> HIDE DEF c, l
  <2> QED BY <1>4, <2>1, EditDone
<1>6. k.pc = "firing" /\ k.op = c.op /\ k.under = c.under BY <1>1 DEF CallRecord
<1> HIDE DEF k
<1>7. Sound(k, rollouts', frozen)
  <2> HIDE DEF c
  <2> QED BY <1>0, <1>2, <1>6 DEF Sound
<1>8. After(d, k) BY <1>0, <1>3, <1>5, Put DEF AdmissionInv
<1>9. rollouts \in Seq(RowRecord) /\ Grows(rollouts, rollouts') /\ queue \subseteq DOMAIN Schedules /\ spare \in SpareRecord
  BY <1>0 DEF AdmissionInv, AdmissionTypes, Grows
<1>10. spare' \in SpareRecord /\ spare'.queue = spare.queue BY <1>0, <1>9 DEF Outage, SpareRecord
<1>11. Fired(spare'.queue, queue', rollouts')
  <2>1. \E i \in 1 .. Len(rollouts) : rollouts[i].sch = c.sch /\ rollouts[i].ran BY <1>0, <1>2 DEF Sound
  <2> QED BY <1>0, <1>10, <2>1 DEF AdmissionInv, Fired
<1>12. rollouts' \in Seq(RowRecord) /\ queue' \subseteq DOMAIN Schedules BY <1>0, <1>9
<1>13. \A i \in 1 .. Len(rollouts') : RowSound(rollouts'[i]) BY <1>0 DEF AdmissionInv
<1> QED BY <1>0, <1>5, <1>7, <1>8, <1>9, <1>10, <1>11, <1>12, <1>13, Keeps

-----------------------------------------------------------------------------
\* The operator and the daemons

LEMMA Unmoved ==
  ASSUME AdmissionInv, UNCHANGED <<frozen, rollouts, queue, call>>, spare' \in SpareRecord, spare'.queue = spare.queue
  PROVE  AdmissionInv'
BY DEF AdmissionInv, AdmissionTypes

\* The calls of a daemon that stops are gone; the others stay.
LEMMA StopKeeps == ASSUME AdmissionInv, NEW d \in Daemons, Stop(d) PROVE AdmissionInv'
<1>0. UNCHANGED <<frozen, rollouts, queue>> /\ Outage
      /\ call' = [q \in DOMAIN call |-> IF call[q].d = d THEN NoCall ELSE call[q]]
  BY DEF Stop
<1>1. call \in [Slots -> CallRecord] /\ spare \in SpareRecord BY DEF AdmissionInv, AdmissionTypes
<1>2. \A q \in Slots : call'[q] \in {NoCall, call[q]} BY <1>0, <1>1
<1>3. call' \in [Slots -> CallRecord] BY <1>0, <1>1, Nothing
<1>4. spare' \in SpareRecord /\ spare'.queue = spare.queue BY <1>0, <1>1 DEF Outage, SpareRecord
<1>5. ASSUME NEW q \in Slots PROVE Sound(call'[q], rollouts', frozen')
  <2>1. CASE call'[q] = NoCall BY <2>1, Nothing
  <2>2. CASE call'[q] = call[q] BY <1>0, <2>2 DEF AdmissionInv
  <2> QED BY <1>2, <2>1, <2>2
<1> QED BY <1>0, <1>3, <1>4, <1>5 DEF AdmissionInv, AdmissionTypes

LEMMA AdmissionStarts == AdmissionInit => AdmissionInv
<1> SUFFICES ASSUME AdmissionInit PROVE AdmissionInv OBVIOUS
<1>1. call = [q \in Slots |-> NoCall] /\ rollouts = <<>> /\ frozen = FALSE /\ queue = spare.queue /\ spare \in Scenarios
  BY DEF AdmissionInit, Slots
<1>2. spare \in SpareRecord
  <2>1. Scenarios \subseteq SpareRecord BY Zenon, AdmissionAssumption DEF SpareRecord, TargetRefs
  <2> QED BY <1>1, <2>1
<1>3. spare.queue \subseteq DOMAIN Schedules BY <1>2 DEF SpareRecord
<1>4. call \in [Slots -> CallRecord] /\ \A q \in Slots : call[q] = NoCall BY <1>1, Nothing
<1>5. AdmissionTypes
  <2>1. rollouts \in Seq(RowRecord) BY <1>1
  <2>2. frozen \in BOOLEAN BY <1>1
  <2>3. queue \subseteq DOMAIN Schedules BY <1>1, <1>3
  <2> QED BY <1>2, <1>4, <2>1, <2>2, <2>3 DEF AdmissionTypes
<1>6. \A q \in Slots : Sound(call[q], rollouts, frozen) BY <1>4, Nothing
<1>7. Fired(spare.queue, queue, rollouts) BY <1>1 DEF Fired
<1>8. \A i \in 1 .. Len(rollouts) : RowSound(rollouts[i]) BY <1>1
<1> QED BY <1>5, <1>6, <1>7, <1>8 DEF AdmissionInv

LEMMA AdmissionStep == AdmissionInv /\ [AdmissionNext]_admissionVars => AdmissionInv'
<1> SUFFICES ASSUME AdmissionInv, [AdmissionNext]_admissionVars PROVE AdmissionInv' OBVIOUS
<1>0. spare \in SpareRecord BY DEF AdmissionInv, AdmissionTypes
<1>1. ASSUME NEW q \in Requests, Arrive(q) PROVE AdmissionInv' BY <1>1, ArriveKeeps
<1>2. ASSUME NEW q \in Requests, ApplyCheck(q) PROVE AdmissionInv' BY <1>2, ApplyCheckKeeps
<1>3. ASSUME NEW q \in Requests, ApplyStore(q) PROVE AdmissionInv' BY <1>3, ApplyStoreKeeps
<1>4. ASSUME NEW q \in Requests, LoadRow(q) PROVE AdmissionInv' BY <1>4, LoadRowKeeps
<1>5. ASSUME NEW q \in Requests, ApproveStart(q) PROVE AdmissionInv' BY <1>5, ApproveStartKeeps
<1>6. ASSUME NEW q \in Requests, Reject(q) PROVE AdmissionInv' BY <1>6, RejectKeeps
<1>7. ASSUME NEW q \in Requests, FreezePersist(q) PROVE AdmissionInv' BY <1>7, FreezePersistKeeps
<1>8. ASSUME NEW q \in Requests, FreezeEngage(q) PROVE AdmissionInv' BY <1>8, Answered DEF FreezeEngage, Slots
<1>9. ASSUME NEW q \in Slots, Deploy(q) PROVE AdmissionInv' BY <1>9, DeployKeeps
<1>10. ASSUME NEW d \in Daemons, TickSchedules(d) PROVE AdmissionInv' BY <1>10, TickKeeps
<1>11. ASSUME NEW d \in Daemons, FireNext(d) PROVE AdmissionInv' BY <1>11, FireNextKeeps
<1>12. ASSUME NEW d \in Daemons, DeleteSchedule(d) PROVE AdmissionInv' BY <1>12, DeleteScheduleKeeps
<1>13. ASSUME NEW d \in Daemons, TickEnds(d) PROVE AdmissionInv' BY <1>13, Answered DEF TickEnds, Slots
<1>14. ASSUME NEW d \in Daemons, Reload(d) \/ Start(d) PROVE AdmissionInv' BY <1>0, <1>14, Unmoved DEF Reload, Start
<1>15. ASSUME NEW d \in Daemons, Stop(d) PROVE AdmissionInv' BY <1>15, StopKeeps
<1>16. ASSUME NEW d \in Daemons, Interval(d) PROVE AdmissionInv'
  <2>1. spare' \in SpareRecord /\ spare'.queue = spare.queue BY <1>0, <1>16 DEF Interval, SpareRecord
  <2> QED BY <1>16, <2>1, Unmoved DEF Interval
<1>17. ASSUME Rewrite PROVE AdmissionInv'
  <2>1. spare' \in SpareRecord /\ spare'.queue = spare.queue BY <1>0, <1>17 DEF Rewrite, SpareRecord
  <2> QED BY <1>17, <2>1, Unmoved DEF Rewrite
<1>18. ASSUME UNCHANGED admissionVars PROVE AdmissionInv' BY <1>0, <1>18, Unmoved DEF admissionVars
<1> QED BY <1>1, <1>2, <1>3, <1>4, <1>5, <1>6, <1>7, <1>8, <1>9, <1>10, <1>11, <1>12, <1>13, <1>14, <1>15, <1>16,
           <1>17, <1>18 DEF AdmissionNext, Slots

LEMMA AdmissionHolds == AdmissionSpec => []AdmissionInv
BY AdmissionStarts, AdmissionStep, PTL DEF AdmissionSpec

-----------------------------------------------------------------------------
\* What arrived under a freeze that nobody lifted is not deployed, whichever
\* replica engaged it and whatever crashed since: CheckApply reads the freeze row
\* of the store, and a call that passed it is marked by no later freeze.
THEOREM FrozenWaits == AdmissionSpec => []FreezeHolds
<1>1. AdmissionInv => FreezeHolds
  <2> SUFFICES ASSUME AdmissionInv, NEW q \in DOMAIN call, call[q].pc = "deploying" PROVE ~ call[q].under
    BY DEF FreezeHolds
  <2>1. q \in Slots BY DEF AdmissionInv, AdmissionTypes
  <2>2. Sound(call[q], rollouts, frozen) BY <2>1 DEF AdmissionInv
  <2> QED BY <2>2 DEF Sound
<1> QED BY <1>1, AdmissionHolds, PTL

LEMMA RowNumbers == AdmissionInv => DOMAIN rollouts = 1 .. Len(rollouts)
BY DEF AdmissionInv, AdmissionTypes

\* A critical target runs what was applied to it only once somebody approved it,
\* however requests, crashes and failed store calls interleave: ApplyCheck's floor
\* gates the rollout, and only Approve moves a gated one.
THEOREM CriticalWaits == AdmissionSpec => []GatedWaits
<1>1. AdmissionInv => GatedWaits
  <2> SUFFICES ASSUME AdmissionInv, NEW i \in DOMAIN rollouts, rollouts[i].ran, Critical(rollouts[i].ref),
                      rollouts[i].sch = ""
               PROVE  rollouts[i].approver # Nobody
    BY DEF GatedWaits, Critical
  <2>1. i \in 1 .. Len(rollouts) BY RowNumbers
  <2> QED BY <2>1 DEF AdmissionInv, RowSound
<1> QED BY <1>1, AdmissionHolds, PTL

\* The schedules that left the queue were sent to their targets: FireDueSchedules
\* deletes a schedule after its deploy, also with several daemons that fire it.
THEOREM SchedulesFire == AdmissionSpec => []ScheduleNotLost
<1>1. AdmissionInv => ScheduleNotLost
  <2> SUFFICES ASSUME AdmissionInv, NEW s \in spare.queue \ queue
               PROVE  \E i \in DOMAIN rollouts : rollouts[i].sch = s /\ rollouts[i].ran
    BY DEF ScheduleNotLost
  <2> QED BY RowNumbers DEF AdmissionInv, Fired
<1> QED BY <1>1, AdmissionHolds, PTL

-----------------------------------------------------------------------------
\* The policy of a daemon.  What is in force was built from one file that loaded.
Agents == {c.name : c \in {c \in Callers : c.kind = "agent"}}
Whole(files) == {buildPolicy(f) : f \in {f \in files : Loads(f)}}
TokenSets == TokenFiles \cup {InitialTokens, {}}
DaemonRecord(files) ==
  [up : BOOLEAN, policy : Whole(files), tokens : TokenSets, frozen : BOOLEAN, budget : [Agents -> Int]]

PolicyInv ==
  /\ daemon \in [Daemons -> DaemonRecord(onDisk)]
  /\ policyFile \in onDisk /\ tokenFile \in TokenSets /\ frozen \in BOOLEAN

LEMMA FullBudget == Full \in [Agents -> Int]
<1>0. Burst \in Nat \ {0} BY Zenon, AdmissionAssumption
<1>1. Burst \in Int BY <1>0
<1>2. Full = [a \in Agents |-> Burst] BY Zenon DEF Full, Agents
<1> QED BY <1>1, <1>2

LEMMA WholeGrows ==
  ASSUME NEW files, NEW more, files \subseteq more, daemon \in [Daemons -> DaemonRecord(files)]
  PROVE  daemon \in [Daemons -> DaemonRecord(more)]
<1>1. Whole(files) \subseteq Whole(more) BY DEF Whole
<1>2. DaemonRecord(files) \subseteq DaemonRecord(more) BY <1>1 DEF DaemonRecord
<1> QED BY <1>2

LEMMA ChargedIsRecord ==
  ASSUME PolicyInv, NEW d, NEW id, daemon' = Charged(d, id)
  PROVE  daemon' \in [Daemons -> DaemonRecord(onDisk)]
<1>1. CASE id.kind # "agent" BY <1>1 DEF Charged, PolicyInv
<1>2. CASE id.kind = "agent" /\ d \notin Daemons
  <2>1. daemon \in [Daemons -> DaemonRecord(onDisk)] BY DEF PolicyInv
  <2>2. daemon' = [daemon EXCEPT ![d].budget[id.name] = @ - 1] BY <1>2 DEF Charged
  <2> QED BY <1>2, <2>1, <2>2
<1>3. CASE id.kind = "agent" /\ d \in Daemons
  <2> DEFINE b == [daemon[d].budget EXCEPT ![id.name] = daemon[d].budget[id.name] - 1]
             e == [daemon[d] EXCEPT !.budget = b]
  <2>1. daemon \in [Daemons -> DaemonRecord(onDisk)] BY DEF PolicyInv
  <2>2. daemon' = [daemon EXCEPT ![d] = e] BY <1>3, <2>1 DEF Charged
  <2>3. daemon[d] \in DaemonRecord(onDisk) BY <1>3, <2>1
  <2>4. b \in [Agents -> Int]
    <3>1. daemon[d].budget \in [Agents -> Int] BY <2>3 DEF DaemonRecord
    <3>2. PICK f \in [Agents -> Int] : f = daemon[d].budget BY <3>1
    <3>3. CASE id.name \in Agents
      <4>1. PICK a \in Agents : a = id.name BY <3>3
      <4>2. f[a] - 1 \in Int OBVIOUS
      <4>3. [f EXCEPT ![a] = f[a] - 1] \in [Agents -> Int] BY <4>2
      <4> QED BY <3>2, <4>1, <4>3
    <3>4. CASE id.name \notin Agents
      <4>1. b = f BY <3>2, <3>4
      <4> QED BY <4>1
    <3> QED BY <3>3, <3>4
  <2> HIDE DEF b
  <2>5. e \in DaemonRecord(onDisk) BY <2>3, <2>4 DEF DaemonRecord
  <2> HIDE DEF e
  <2> QED BY <2>1, <2>2, <2>5
<1> QED BY <1>1, <1>2, <1>3

LEMMA PolicyStarts == AdmissionInit => PolicyInv
<1> SUFFICES ASSUME AdmissionInit PROVE PolicyInv OBVIOUS
<1> DEFINE e == [up |-> TRUE, policy |-> buildPolicy(policyFile), tokens |-> tokenFile, frozen |-> FALSE, budget |-> Full]
<1>1. daemon = [d \in Daemons |-> e] BY DEF AdmissionInit
<1>2. policyFile = InitialPolicy /\ tokenFile = InitialTokens /\ onDisk = {policyFile} /\ frozen = FALSE BY DEF AdmissionInit
<1>3. buildPolicy(policyFile) \in Whole(onDisk) BY <1>2, InitialPolicyLoads DEF Whole
<1>4. tokenFile \in TokenSets BY <1>2 DEF TokenSets
<1>5. e \in DaemonRecord(onDisk) BY <1>3, <1>4, FullBudget DEF DaemonRecord
<1> HIDE DEF e
<1> QED BY <1>1, <1>2, <1>4, <1>5 DEF PolicyInv

LEMMA PolicyStep == PolicyInv /\ [AdmissionNext]_admissionVars => PolicyInv'
<1> SUFFICES ASSUME PolicyInv, [AdmissionNext]_admissionVars PROVE PolicyInv' OBVIOUS
<1>0. daemon \in [Daemons -> DaemonRecord(onDisk)] /\ policyFile \in onDisk /\ tokenFile \in TokenSets /\ frozen \in BOOLEAN
  BY DEF PolicyInv
<1>1. ASSUME UNCHANGED <<policyFile, tokenFile, daemon, onDisk>>, frozen' \in BOOLEAN PROVE PolicyInv'
  BY <1>0, <1>1 DEF PolicyInv
<1>2. ASSUME UNCHANGED <<policyFile, tokenFile, frozen, onDisk>>, NEW d, NEW id, daemon' = Charged(d, id) PROVE PolicyInv'
  <2>1. daemon' \in [Daemons -> DaemonRecord(onDisk)] BY <1>2, ChargedIsRecord
  <2> QED BY <1>0, <1>2, <2>1 DEF PolicyInv
<1>3. ASSUME UNCHANGED <<policyFile, tokenFile, frozen, onDisk>>, NEW d, NEW e, daemon' = [daemon EXCEPT ![d] = e],
             d \in Daemons => e \in DaemonRecord(onDisk)
      PROVE  PolicyInv'
  <2>1. daemon' \in [Daemons -> DaemonRecord(onDisk)] BY <1>0, <1>3
  <2> QED BY <1>0, <1>3, <2>1 DEF PolicyInv
<1>4. ASSUME NEW q \in Requests, Arrive(q) PROVE PolicyInv' BY <1>0, <1>1, <1>4 DEF Arrive
<1>5. ASSUME NEW q \in Requests, ApplyCheck(q) PROVE PolicyInv'
  <2>1. CASE UNCHANGED daemon BY <1>0, <1>1, <1>5, <2>1 DEF ApplyCheck
  <2>2. CASE daemon' = Charged(call[q].d, call[q].by) BY <1>2, <1>5, <2>2 DEF ApplyCheck
  <2> QED BY <1>5, <2>1, <2>2 DEF ApplyCheck
<1>6. ASSUME NEW q \in Requests, ApplyStore(q) PROVE PolicyInv' BY <1>0, <1>1, <1>6 DEF ApplyStore
<1>7. ASSUME NEW q \in Requests, LoadRow(q) PROVE PolicyInv' BY <1>0, <1>1, <1>7 DEF LoadRow
<1>8. ASSUME NEW q \in Requests, ApproveStart(q) PROVE PolicyInv'
  <2>1. CASE UNCHANGED daemon BY <1>0, <1>1, <1>8, <2>1 DEF ApproveStart
  <2>2. CASE daemon' = Charged(call[q].d, call[q].by) BY <1>2, <1>8, <2>2 DEF ApproveStart
  <2> QED BY <1>8, <2>1, <2>2 DEF ApproveStart
<1>9. ASSUME NEW q \in Requests, Reject(q) PROVE PolicyInv' BY <1>0, <1>1, <1>9 DEF Reject
<1>10. ASSUME NEW q \in Requests, FreezePersist(q) PROVE PolicyInv'
  <2>1. frozen' \in BOOLEAN BY <1>0, <1>10 DEF FreezePersist
  <2> QED BY <1>1, <1>10, <2>1 DEF FreezePersist
<1>11. ASSUME NEW q \in Requests, FreezeEngage(q) PROVE PolicyInv'
  <2> DEFINE d == call[q].d
             f == call[q].op = "freeze"
             e == [daemon[d] EXCEPT !.frozen = f]
  <2>1. f \in BOOLEAN OBVIOUS
  <2>2. daemon' = [daemon EXCEPT ![d] = e] BY <1>0, <1>11 DEF FreezeEngage
  <2> HIDE DEF f, d
  <2>3. d \in Daemons => e \in DaemonRecord(onDisk) BY <1>0, <2>1 DEF DaemonRecord
  <2> HIDE DEF e
  <2> QED BY <1>3, <1>11, <2>2, <2>3 DEF FreezeEngage
<1>12. ASSUME NEW q \in Slots, Deploy(q) PROVE PolicyInv' BY <1>0, <1>1, <1>12 DEF Deploy
<1>13. ASSUME NEW d \in Daemons, TickSchedules(d) \/ DeleteSchedule(d) \/ TickEnds(d) PROVE PolicyInv'
  BY <1>0, <1>1, <1>13 DEF TickSchedules, DeleteSchedule, TickEnds
<1>14. ASSUME NEW d \in Daemons, FireNext(d) PROVE PolicyInv'
  <2>1. PICK s \in call[d].left : UNCHANGED daemon \/ daemon' = Charged(d, Schedules[s].by) BY <1>14 DEF FireNext
  <2>2. UNCHANGED <<policyFile, tokenFile, frozen, onDisk>> BY <1>14 DEF FireNext
  <2> QED BY <1>0, <1>1, <1>2, <2>1, <2>2
<1>15. ASSUME NEW d \in Daemons, Reload(d) PROVE PolicyInv'
  <2> DEFINE p == IF Loads(policyFile) THEN buildPolicy(policyFile) ELSE daemon[d].policy
             t == IF tokenFile = Malformed THEN daemon[d].tokens ELSE tokenFile
             e == [daemon[d] EXCEPT !.policy = p, !.tokens = t]
  <2>1. daemon[d] \in DaemonRecord(onDisk) BY <1>0
  <2>2. p \in Whole(onDisk)
    <3>1. CASE Loads(policyFile) BY <1>0, <3>1 DEF Whole
    <3>2. CASE ~ Loads(policyFile) BY <2>1, <3>2 DEF DaemonRecord
    <3> QED BY <3>1, <3>2
  <2>3. t \in TokenSets BY <1>0, <2>1 DEF DaemonRecord
  <2>4. daemon' = [daemon EXCEPT ![d] = e] BY <1>0, <1>15 DEF Reload
  <2> HIDE DEF p, t
  <2>5. e \in DaemonRecord(onDisk) BY <2>1, <2>2, <2>3 DEF DaemonRecord
  <2> HIDE DEF e
  <2> QED BY <1>3, <1>15, <2>4, <2>5 DEF Reload
<1>16. ASSUME NEW d \in Daemons, Stop(d) PROVE PolicyInv'
  <2> DEFINE e == [daemon[d] EXCEPT !.up = FALSE]
  <2>1. daemon' = [daemon EXCEPT ![d] = e] BY <1>0, <1>16 DEF Stop
  <2>2. e \in DaemonRecord(onDisk) BY <1>0 DEF DaemonRecord
  <2> HIDE DEF e
  <2> QED BY <1>3, <1>16, <2>1, <2>2 DEF Stop
<1>17. ASSUME NEW d \in Daemons, Start(d) PROVE PolicyInv'
  <2> DEFINE t == IF tokenFile = Malformed THEN {} ELSE tokenFile
             e == [up |-> TRUE, policy |-> buildPolicy(policyFile), tokens |-> t, frozen |-> frozen, budget |-> Full]
  <2>1. t \in TokenSets BY <1>0 DEF TokenSets
  <2>2. buildPolicy(policyFile) \in Whole(onDisk) BY <1>0, <1>17 DEF Start, Whole
  <2>3. daemon' = [daemon EXCEPT ![d] = e] BY <1>17 DEF Start
  <2> HIDE DEF t
  <2>4. e \in DaemonRecord(onDisk) BY <1>0, <2>1, <2>2, FullBudget DEF DaemonRecord
  <2> HIDE DEF e
  <2> QED BY <1>3, <1>17, <2>3, <2>4 DEF Start
<1>18. ASSUME NEW d \in Daemons, Interval(d) PROVE PolicyInv'
  <2> DEFINE e == [daemon[d] EXCEPT !.budget = Full]
  <2>1. daemon' = [daemon EXCEPT ![d] = e] BY <1>0, <1>18 DEF Interval
  <2>2. e \in DaemonRecord(onDisk) BY <1>0, FullBudget DEF DaemonRecord
  <2> HIDE DEF e
  <2> QED BY <1>3, <1>18, <2>1, <2>2 DEF Interval
<1>19. ASSUME Rewrite PROVE PolicyInv'
  <2>1. daemon' \in [Daemons -> DaemonRecord(onDisk')] BY <1>0, <1>19, WholeGrows DEF Rewrite
  <2>2. policyFile' \in onDisk' /\ tokenFile' \in TokenSets /\ frozen' = frozen BY <1>19 DEF Rewrite, TokenSets
  <2> QED BY <1>0, <2>1, <2>2 DEF PolicyInv
<1>20. ASSUME UNCHANGED admissionVars PROVE PolicyInv' BY <1>0, <1>1, <1>20 DEF admissionVars
<1> QED BY <1>4, <1>5, <1>6, <1>7, <1>8, <1>9, <1>10, <1>11, <1>12, <1>13, <1>14, <1>15, <1>16, <1>17, <1>18, <1>19,
           <1>20 DEF AdmissionNext, Slots

\* Whatever files the operator installs, and however reloads and restarts fall
\* among them, a running daemon obeys the policy of one whole file that loaded.
THEOREM PolicyStaysWhole == AdmissionSpec => []PolicyIsWhole
<1>1. PolicyInv => PolicyIsWhole
  <2> SUFFICES ASSUME PolicyInv, NEW d \in Daemons PROVE daemon[d].policy \in Whole(onDisk)
    BY DEF PolicyIsWhole, Whole
  <2> QED BY DEF PolicyInv, DaemonRecord
<1> QED BY <1>1, PolicyStarts, PolicyStep, PTL DEF AdmissionSpec

-----------------------------------------------------------------------------
\* Failures that escalate.  The history of a service that has one brings its score to
\* the threshold when it is at its limit, and the lookback reaches that far.
Escalates ==
  \A ref \in DOMAIN Services :
    LET h == Services[ref].history IN h.weight > 0 => h.max <= h.lookback /\ AtThreshold(ref, h.max)

\* What holds of a call whose target had failed up to the limit: it has yet to be
\* checked, and no record was added, or it waits for an approval.
Weary(c) ==
  c.tired => /\ c.op = "apply" /\ c.pc \in {"admitted", "cleared"}
             /\ c.pc = "admitted" => Tired(c.ref)
             /\ c.pc = "cleared" => c.gated

WearyInv == records \in [DOMAIN Services -> Seq(Phases)] /\ \A q \in Slots : Weary(call[q])

\* The newest records are within the lookback: a target that failed up to the limit
\* is at the threshold.
LEMMA TiredNeeds ==
  ASSUME Escalates, records \in [DOMAIN Services -> Seq(Phases)], NEW ref, Tired(ref) PROVE NeedsApproval(ref)
<1> DEFINE h == Services[ref].history
           S == {i \in DOMAIN History(ref) : i <= h.lookback /\ History(ref)[i] = "rolled_back"}
<1>1. ref \in DOMAIN Services /\ h.weight > 0 /\ Len(History(ref)) >= h.max
      /\ \A i \in 1 .. h.max : History(ref)[i] = "rolled_back"
  BY DEF Tired
<1>2. h.weight \in Nat /\ h.lookback \in Nat /\ h.max \in Nat BY <1>1, AdmissionAssumption
<1>3. h.max <= h.lookback /\ AtThreshold(ref, h.max) BY <1>1 DEF Escalates
<1>4. History(ref) \in Seq(Phases) BY <1>1 DEF History
<1> HIDE DEF h
<1>5. DOMAIN History(ref) = 1 .. Len(History(ref)) /\ Len(History(ref)) \in Nat BY <1>4
<1>6. 1 .. h.max \subseteq S BY <1>1, <1>2, <1>3, <1>5
<1>7. IsFiniteSet(S)
  <2>1. IsFiniteSet(1 .. Len(History(ref))) BY <1>5, FS_Interval
  <2>2. S \subseteq 1 .. Len(History(ref)) BY <1>5
  <2> QED BY <2>1, <2>2, FS_Subset
<1>8. Cardinality(1 .. h.max) = h.max
  <2>1. h.max \in Int /\ 1 \in Int BY <1>2
  <2>2. Cardinality(1 .. h.max) = IF 1 > h.max THEN 0 ELSE h.max - 1 + 1 BY <2>1, FS_Interval
  <2> QED BY <1>2, <2>2
<1>9. Cardinality(S) \in Nat /\ h.max <= Cardinality(S)
  <2>1. Cardinality(1 .. h.max) <= Cardinality(S) BY <1>6, <1>7, FS_Subset
  <2> QED BY <1>7, <1>8, <2>1, FS_CardinalityType
<1>10. RecentFailures(ref, h) = Cardinality(S) BY DEF RecentFailures
<1>11. Score(ref, Cardinality(S)) = Score(ref, h.max)
  <2>1. (IF Cardinality(S) > h.max THEN h.max ELSE Cardinality(S)) = (IF h.max > h.max THEN h.max ELSE h.max)
    BY <1>2, <1>9
  <2> HIDE DEF S
  <2> QED BY <2>1 DEF Score, h
<1> HIDE DEF S
<1>12. AtThreshold(ref, Cardinality(S)) BY <1>3, <1>11 DEF AtThreshold
<1> QED BY <1>10, <1>12 DEF NeedsApproval, h

\* A call that is not about to be checked is not marked.
LEMMA Rested ==
  ASSUME WearyInv, NEW q \in Slots, call[q].pc \notin {"admitted", "cleared"} \/ call[q].op # "apply"
  PROVE  ~ call[q].tired
BY DEF WearyInv, Weary

\* Calls that were not about to be checked, or kept what they were while no record of
\* their target was added.
LEMMA WearyStep ==
  ASSUME WearyInv, records' \in [DOMAIN Services -> Seq(Phases)],
         \A x \in Slots :
           \/ ~ call'[x].tired
           \/ /\ call[x].tired /\ call'[x].pc = call[x].pc /\ call'[x].op = call[x].op
              /\ call'[x].ref = call[x].ref /\ call'[x].gated = call[x].gated
              /\ call[x].ref \in DOMAIN Services => records'[call[x].ref] = records[call[x].ref]
  PROVE  WearyInv'
<1>1. ASSUME NEW x \in Slots PROVE Weary(call[x])'
  <2>1. Weary(call[x]) BY DEF WearyInv
  <2>2. CASE ~ call'[x].tired BY <2>2 DEF Weary
  <2>3. CASE call'[x].tired
    <3>1. /\ call[x].tired /\ call'[x].pc = call[x].pc /\ call'[x].op = call[x].op
          /\ call'[x].ref = call[x].ref /\ call'[x].gated = call[x].gated
          /\ call[x].ref \in DOMAIN Services => records'[call[x].ref] = records[call[x].ref]
      BY <2>3
    <3>2. Tired(call[x].ref) => Tired(call[x].ref)' BY <3>1 DEF Tired, History
    <3> QED BY <2>1, <3>1, <3>2 DEF Weary
  <2> QED BY <2>2, <2>3
<1> QED BY <1>1 DEF WearyInv

\* A step that replaces the call of slot q by one without the mark.
LEMMA WearyPut ==
  ASSUME AdmissionInv, WearyInv, records' = records, NEW q \in Slots, NEW k, ~ k.tired, call' = [call EXCEPT ![q] = k]
  PROVE  WearyInv'
<1>1. call \in [Slots -> CallRecord] BY DEF AdmissionInv, AdmissionTypes
<1>2. \A x \in Slots : call'[x] = IF x = q THEN k ELSE call[x] BY <1>1
<1>3. records' \in [DOMAIN Services -> Seq(Phases)] BY DEF WearyInv
<1>4. \A x \in Slots : ~ call'[x].tired \/ (call[x].tired /\ call'[x] = call[x]) BY <1>2
<1> QED BY <1>3, <1>4, WearyStep

\* A call returns.
LEMMA WearyAnswer ==
  ASSUME AdmissionInv, WearyInv, records' = records, NEW q \in Slots, Answer(q) PROVE WearyInv'
<1>1. ~ NoCall.tired BY DEF NoCall
<1> QED BY <1>1, WearyPut DEF Answer, Returned

\* A save clears the marks of the calls about its target, and the records of the other
\* targets stay.
LEMMA WearySaves ==
  ASSUME AdmissionInv, WearyInv, NEW q \in Slots, NEW k \in CallRecord, ~ k.tired, NEW ref, NEW phase \in Phases,
         Saves([call EXCEPT ![q] = k], ref, phase)
  PROVE  WearyInv'
<1> DEFINE m == [call EXCEPT ![q] = k]
<1>1. call \in [Slots -> CallRecord] BY DEF AdmissionInv, AdmissionTypes
<1>2. m \in [Slots -> CallRecord] /\ m[q] = k /\ \A x \in Slots \ {q} : m[x] = call[x] BY <1>1
<1>3. /\ call' = [x \in DOMAIN m |-> [m[x] EXCEPT !.tired = @ /\ (m[x].ref # ref \/ m[x].pc = "deploying")]]
      /\ records' = [records EXCEPT ![ref] = <<phase>> \o @]
  BY DEF Saves
<1> HIDE DEF m
<1>4. records \in [DOMAIN Services -> Seq(Phases)] BY DEF WearyInv
<1>5. records' \in [DOMAIN Services -> Seq(Phases)]
  <2>1. \A r \in DOMAIN Services : <<phase>> \o records[r] \in Seq(Phases) BY <1>4
  <2> QED BY <1>3, <1>4, <2>1
<1>6. \A r \in DOMAIN Services : r # ref => records'[r] = records[r] BY <1>3, <1>4
<1>7. ASSUME NEW x \in Slots, call'[x].tired
      PROVE  /\ call[x].tired /\ call'[x].pc = call[x].pc /\ call'[x].op = call[x].op
             /\ call'[x].ref = call[x].ref /\ call'[x].gated = call[x].gated
             /\ call[x].ref \in DOMAIN Services => records'[call[x].ref] = records[call[x].ref]
  <2>1. m[x] \in CallRecord /\ DOMAIN m = Slots BY <1>2
  <2>2. call'[x] = [m[x] EXCEPT !.tired = @ /\ (m[x].ref # ref \/ m[x].pc = "deploying")] BY <1>3, <2>1
  <2>3. /\ call'[x].pc = m[x].pc /\ call'[x].op = m[x].op /\ call'[x].ref = m[x].ref /\ call'[x].gated = m[x].gated
    BY <2>1, <2>2 DEF CallRecord
  <2>4. call'[x].tired = (m[x].tired /\ (m[x].ref # ref \/ m[x].pc = "deploying"))
    BY <2>1, <2>2 DEF CallRecord
  <2>5. m[x].tired /\ (m[x].ref # ref \/ m[x].pc = "deploying") BY <1>7, <2>4
  <2>6. x # q /\ m[x] = call[x] BY <1>2, <2>5
  <2>7. Weary(call[x]) BY DEF WearyInv
  <2>8. call[x].ref # ref BY <2>5, <2>6, <2>7 DEF Weary
  <2> QED BY <1>6, <2>3, <2>5, <2>6, <2>8
<1> QED BY <1>5, <1>7, WearyStep

\* One step of each handler.
LEMMA WearyArrive == ASSUME AdmissionInv, WearyInv, NEW q \in Requests, Arrive(q) PROVE WearyInv'
<1>1. PICK d \in Daemons, a \in spare.asks, row \in 0 .. Len(rollouts) :
        /\ call' = [call EXCEPT ![q] = [NoCall EXCEPT !.pc = "admitted", !.d = d, !.by = a.by, !.op = a.op, !.ref = a.ref,
                      !.row = row, !.under = frozen, !.tired = a.op = "apply" /\ Tired(a.ref)]]
        /\ records' = records
  BY DEF Arrive, Permitted
<1> DEFINE t == a.op = "apply" /\ Tired(a.ref)
           k == [NoCall EXCEPT !.pc = "admitted", !.d = d, !.by = a.by, !.op = a.op, !.ref = a.ref,
                   !.row = row, !.under = frozen, !.tired = t]
<1>2. q \in Slots /\ call \in [Slots -> CallRecord] BY DEF Slots, AdmissionInv, AdmissionTypes
<1>3. \A x \in Slots : call'[x] = IF x = q THEN k ELSE call[x] BY <1>1, <1>2
<1>4. k.pc = "admitted" /\ k.op = a.op /\ k.ref = a.ref /\ k.tired = t BY DEF NoCall
<1>5. \A r : Tired(r)' <=> Tired(r) BY <1>1 DEF Tired, History
<1> HIDE DEF k
<1>6. ASSUME NEW x \in Slots PROVE Weary(call[x])'
  <2>1. CASE x = q
    <3>1. call'[x] = k BY <1>3, <2>1
    <3>2. k.tired => a.op = "apply" /\ Tired(a.ref)' BY <1>1, <1>4 DEF Tired, History
    <3> QED BY <1>4, <3>1, <3>2 DEF Weary
  <2>2. CASE x # q
    <3>1. call'[x] = call[x] /\ Weary(call[x]) BY <1>3, <2>2 DEF WearyInv
    <3>2. Tired(call[x].ref) => Tired(call[x].ref)' BY <1>1, <3>1 DEF Tired, History
    <3> QED BY <3>1, <3>2 DEF Weary
  <2> QED BY <2>1, <2>2
<1> QED BY <1>1, <1>6 DEF WearyInv

LEMMA WearyCheck == ASSUME Escalates, AdmissionInv, WearyInv, NEW q \in Requests, ApplyCheck(q) PROVE WearyInv'
<1> DEFINE c == call[q]
           g == MustApprove(FloorOfConfig(c.ref)) \/ NeedsApproval(c.ref)
           k == [c EXCEPT !.pc = "cleared", !.gated = g]
<1>0. q \in Slots /\ c.pc = "admitted" /\ c.op = "apply" /\ records' = records BY DEF ApplyCheck, Slots
<1>1. CASE Answer(q) BY <1>0, <1>1, WearyAnswer
<1>2. CASE call' = [call EXCEPT ![q].pc = "cleared", ![q].gated = g]
  <2>1. c \in CallRecord /\ call \in [Slots -> CallRecord] BY <1>0 DEF AdmissionInv, AdmissionTypes
  <2>2. \A x \in Slots : call'[x] = IF x = q THEN k ELSE call[x] BY <1>2, <2>1
  <2>3. k.pc = "cleared" /\ k.gated = g /\ k.op = c.op /\ k.tired = c.tired BY <2>1 DEF CallRecord
  <2>4. c.tired => g
    <3>1. Weary(c) BY <1>0 DEF WearyInv
    <3>2. records \in [DOMAIN Services -> Seq(Phases)] BY DEF WearyInv
    <3>3. ASSUME c.tired PROVE NeedsApproval(c.ref)
      <4>1. Tired(c.ref) BY <1>0, <3>1, <3>3 DEF Weary
      <4> QED BY <3>2, <4>1, TiredNeeds
    <3> QED BY <3>3
  <2> HIDE DEF k, g
  <2>5. ASSUME NEW x \in Slots PROVE Weary(call[x])'
    <3>1. CASE x = q
      <4>1. call'[x] = k BY <2>2, <3>1
      <4> HIDE DEF c
      <4> QED BY <1>0, <2>3, <2>4, <4>1 DEF Weary
    <3>2. CASE x # q
      <4>1. call'[x] = call[x] /\ Weary(call[x]) BY <2>2, <3>2 DEF WearyInv
      <4>2. Tired(call[x].ref) => Tired(call[x].ref)' BY <1>0, <4>1 DEF Tired, History
      <4> QED BY <4>1, <4>2 DEF Weary
    <3> QED BY <3>1, <3>2
  <2> QED BY <1>0, <2>5 DEF WearyInv
<1> QED BY <1>1, <1>2 DEF ApplyCheck

LEMMA WearyStore == ASSUME AdmissionInv, WearyInv, NEW q \in Requests, ApplyStore(q) PROVE WearyInv'
<1> DEFINE c == call[q]
           p == IF c.gated THEN "awaiting" ELSE "deploying"
           n == Len(rollouts) + 1
<1>0. q \in Slots /\ c.pc = "cleared" BY DEF ApplyStore, Slots
<1>1. CASE Answer(q) /\ records' = records BY <1>0, <1>1, WearyAnswer
<1>2. CASE /\ rollouts' = Append(rollouts, Row(c.ref, p, c.by, ""))
           /\ Saves(IF c.gated THEN Returned(q) ELSE [Goto(q, "deploying") EXCEPT ![q].row = n],
                    c.ref, rollouts'[Len(rollouts')].phase)
  <2>1. c \in CallRecord /\ call \in [Slots -> CallRecord] BY <1>0 DEF AdmissionInv, AdmissionTypes
  <2>2. rollouts'[Len(rollouts')].phase \in Phases
    <3>1. rollouts \in Seq(RowRecord) BY DEF AdmissionInv, AdmissionTypes
    <3> DEFINE r == Row(c.ref, p, c.by, "")
    <3>2. r.phase = p BY DEF Row
    <3>3. rollouts' = Append(rollouts, r) BY <1>2
    <3>4. p \in Phases BY DEF Phases
    <3> HIDE DEF r, p
    <3>5. Len(rollouts') = Len(rollouts) + 1 /\ rollouts'[Len(rollouts) + 1] = r BY <3>1, <3>3
    <3> QED BY <3>2, <3>4, <3>5
  <2>3. CASE c.gated
    <3>1. Saves([call EXCEPT ![q] = NoCall], c.ref, rollouts'[Len(rollouts')].phase) BY <1>2, <2>3 DEF Returned, Saves
    <3>2. ~ NoCall.tired BY DEF NoCall
    <3> QED BY <1>0, <2>2, <3>1, <3>2, Nothing, WearySaves
  <2>4. CASE ~ c.gated
    <3> DEFINE k == [c EXCEPT !.pc = "deploying", !.row = n]
    <3>1. [Goto(q, "deploying") EXCEPT ![q].row = n] = [call EXCEPT ![q] = k] BY <1>0, <2>1 DEF Goto
    <3>2. k \in CallRecord
      <4>1. "deploying" \in Places /\ c \in CallRecord BY <2>1 DEF Places
      <4>2. n \in Nat BY DEF AdmissionInv, AdmissionTypes
      <4> HIDE DEF c, n
      <4> QED BY <4>1, <4>2, EditRow
    <3>3. ~ c.tired BY <1>0, <2>4 DEF WearyInv, Weary
    <3>4. ~ k.tired BY <2>1, <3>3 DEF CallRecord
    <3> HIDE DEF k
    <3>5. Saves([call EXCEPT ![q] = k], c.ref, rollouts'[Len(rollouts')].phase) BY <1>2, <2>4, <3>1 DEF Saves
    <3> QED BY <1>0, <2>2, <3>2, <3>4, <3>5, WearySaves
  <2> QED BY <2>3, <2>4
<1> QED BY <1>1, <1>2 DEF ApplyStore

LEMMA WearyLoad == ASSUME AdmissionInv, WearyInv, NEW q \in Requests, LoadRow(q) PROVE WearyInv'
<1> DEFINE c == call[q]
           p == IF rollouts[c.row].phase = "awaiting" THEN "loaded" ELSE "settled"
           k == [c EXCEPT !.pc = p]
<1>0. q \in Slots /\ c.op \in OnRow /\ records' = records BY DEF LoadRow, Slots
<1>1. CASE Answer(q) BY <1>0, <1>1, WearyAnswer
<1>2. CASE call' = Goto(q, p)
  <2>1. c \in CallRecord /\ call \in [Slots -> CallRecord] BY <1>0 DEF AdmissionInv, AdmissionTypes
  <2>2. call' = [call EXCEPT ![q] = k] BY <1>2, <2>1 DEF Goto
  <2>3. k.tired = c.tired BY <2>1 DEF CallRecord
  <2>4. ~ c.tired BY <1>0, Rested DEF OnRow
  <2> HIDE DEF k
  <2> QED BY <1>0, <2>2, <2>3, <2>4, WearyPut
<1> QED BY <1>1, <1>2 DEF LoadRow

LEMMA WearyApprove == ASSUME AdmissionInv, WearyInv, NEW q \in Requests, ApproveStart(q) PROVE WearyInv'
<1> DEFINE c == call[q]
           k == [c EXCEPT !.pc = "deploying"]
<1>0. q \in Slots /\ c.op = "approve" /\ records' = records BY DEF ApproveStart, Slots
<1>1. CASE Answer(q) BY <1>0, <1>1, WearyAnswer
<1>2. CASE call' = Goto(q, "deploying")
  <2>1. c \in CallRecord /\ call \in [Slots -> CallRecord] BY <1>0 DEF AdmissionInv, AdmissionTypes
  <2>2. call' = [call EXCEPT ![q] = k] BY <1>2, <2>1 DEF Goto
  <2>3. k.tired = c.tired BY <2>1 DEF CallRecord
  <2>4. ~ c.tired BY <1>0, Rested
  <2> HIDE DEF k
  <2> QED BY <1>0, <2>2, <2>3, <2>4, WearyPut
<1> QED BY <1>1, <1>2 DEF ApproveStart

LEMMA WearyReject == ASSUME AdmissionInv, WearyInv, NEW q \in Requests, Reject(q) PROVE WearyInv'
<1>0. q \in Slots BY DEF Slots
<1>1. CASE Answer(q) /\ records' = records BY <1>0, <1>1, WearyAnswer
<1>2. CASE Saves(Returned(q), call[q].ref, "rolled_back")
  <2>1. Saves([call EXCEPT ![q] = NoCall], call[q].ref, "rolled_back") BY <1>2 DEF Returned
  <2>2. ~ NoCall.tired /\ "rolled_back" \in Phases BY DEF NoCall, Phases
  <2> QED BY <1>0, <2>1, <2>2, Nothing, WearySaves
<1> QED BY <1>1, <1>2 DEF Reject

LEMMA WearyDeploy == ASSUME AdmissionInv, WearyInv, NEW q \in Slots, Deploy(q) PROVE WearyInv'
<1> DEFINE c == call[q]
<1>1. PICK ok \in BOOLEAN :
        /\ c.pc = "deploying"
        /\ Saves(IF c.op # "schedule" THEN Returned(q)
                 ELSE IF ok THEN Goto(q, "fired")
                 ELSE [Goto(q, "firing") EXCEPT ![q].left = @ \ {c.sch}, ![q].under = FALSE],
                 c.ref, IF ok THEN "verifying" ELSE "rolled_back")
  BY DEF Deploy
<1> DEFINE phase == IF ok THEN "verifying" ELSE "rolled_back"
<1>2. phase \in Phases BY DEF Phases
<1>3. c \in CallRecord /\ call \in [Slots -> CallRecord] BY DEF AdmissionInv, AdmissionTypes
<1>4. ~ c.tired BY <1>1, Rested
<1> HIDE DEF phase
<1>5. CASE c.op # "schedule"
  <2>1. Saves([call EXCEPT ![q] = NoCall], c.ref, phase) BY <1>1, <1>5 DEF Returned, phase
  <2>2. ~ NoCall.tired BY DEF NoCall
  <2> QED BY <1>2, <2>1, <2>2, Nothing, WearySaves
<1>6. CASE c.op = "schedule" /\ ok
  <2> DEFINE k == [c EXCEPT !.pc = "fired"]
  <2>1. Goto(q, "fired") = [call EXCEPT ![q] = k] BY <1>3 DEF Goto
  <2>2. k.tired = c.tired BY <1>3 DEF CallRecord
  <2>3. k \in CallRecord
    <3>1. "fired" \in Places /\ c \in CallRecord BY <1>3 DEF Places
    <3> HIDE DEF c
    <3> QED BY <3>1, EditPlace
  <2> HIDE DEF k
  <2>4. Saves([call EXCEPT ![q] = k], c.ref, phase) BY <1>1, <1>6, <2>1 DEF phase
  <2> QED BY <1>2, <1>4, <2>2, <2>3, <2>4, WearySaves
<1>7. CASE c.op = "schedule" /\ ~ ok
  <2> DEFINE l == c.left \ {c.sch}
             k == [c EXCEPT !.pc = "firing", !.left = l, !.under = FALSE]
  <2>1. [Goto(q, "firing") EXCEPT ![q].left = @ \ {c.sch}, ![q].under = FALSE] = [call EXCEPT ![q] = k]
    BY <1>3 DEF Goto, CallRecord
  <2>2. k.tired = c.tired BY <1>3 DEF CallRecord
  <2>3. k \in CallRecord
    <3>1. "firing" \in Places /\ c \in CallRecord /\ l \in SUBSET DOMAIN Schedules /\ FALSE \in BOOLEAN
      BY <1>3 DEF Places, CallRecord
    <3> HIDE DEF c, l
    <3> QED BY <3>1, EditFailed
  <2> HIDE DEF k
  <2>4. Saves([call EXCEPT ![q] = k], c.ref, phase) BY <1>1, <1>7, <2>1 DEF phase
  <2> QED BY <1>2, <1>4, <2>2, <2>3, <2>4, WearySaves
<1> QED BY <1>5, <1>6, <1>7

\* A freeze that is lifted changes no mark.
LEMMA WearyFreeze == ASSUME AdmissionInv, WearyInv, NEW q \in Requests, FreezePersist(q) PROVE WearyInv'
<1> DEFINE c == call[q]
           g == Goto(q, "persisted")
<1>0. q \in Slots /\ c.op \in OnFreeze /\ records' = records BY DEF FreezePersist, Slots
<1>1. CASE Answer(q) BY <1>0, <1>1, WearyAnswer
<1>2. CASE call' = [x \in DOMAIN call |-> [g[x] EXCEPT !.under = @ /\ c.op = "freeze"]]
  <2>1. c \in CallRecord /\ call \in [Slots -> CallRecord] BY <1>0 DEF AdmissionInv, AdmissionTypes
  <2>2. \A x \in Slots : call'[x] = [g[x] EXCEPT !.under = @ /\ c.op = "freeze"] BY <1>2, <2>1
  <2>3. g[q] = [c EXCEPT !.pc = "persisted"] /\ \A x \in Slots \ {q} : g[x] = call[x] BY <1>0, <2>1 DEF Goto
  <2>4. ~ c.tired BY <1>0, Rested DEF OnFreeze
  <2> HIDE DEF g
  <2>5. ASSUME NEW x \in Slots
        PROVE  \/ ~ call'[x].tired
               \/ /\ call[x].tired /\ call'[x].pc = call[x].pc /\ call'[x].op = call[x].op
                  /\ call'[x].ref = call[x].ref /\ call'[x].gated = call[x].gated
    <3>1. CASE x = q
      <4>1. g[x] = [c EXCEPT !.pc = "persisted"] BY <2>3, <3>1, Zenon
      <4>2. g[x].tired = c.tired BY <2>1, <4>1 DEF CallRecord
      <4>3. call'[x] = [g[x] EXCEPT !.under = @ /\ c.op = "freeze"] BY <2>2, Zenon
      <4>4. call'[x].tired = g[x].tired BY <2>1, <4>1, <4>3 DEF CallRecord
      <4> QED BY <2>4, <4>2, <4>4
    <3>2. CASE x # q
      <4>1. call'[x] = [call[x] EXCEPT !.under = @ /\ c.op = "freeze"] BY <2>2, <2>3, <3>2
      <4>2. call[x] \in CallRecord BY <2>1
      <4>3. /\ call'[x].tired = call[x].tired /\ call'[x].pc = call[x].pc /\ call'[x].op = call[x].op
            /\ call'[x].ref = call[x].ref /\ call'[x].gated = call[x].gated
        BY <4>1, <4>2 DEF CallRecord
      <4> QED BY <4>3
    <3> QED BY <3>1, <3>2
  <2>6. records' \in [DOMAIN Services -> Seq(Phases)] BY <1>0 DEF WearyInv
  <2> QED BY <1>0, <2>5, <2>6, WearyStep
<1> QED BY <1>1, <1>2 DEF FreezePersist

LEMMA WearyTick == ASSUME AdmissionInv, WearyInv, NEW d \in Daemons, TickSchedules(d) PROVE WearyInv'
<1> DEFINE k == [NoCall EXCEPT !.pc = "firing", !.d = d, !.op = "schedule", !.left = queue]
<1>0. d \in Slots /\ records' = records /\ call' = [call EXCEPT ![d] = k] BY DEF TickSchedules, Slots
<1>1. ~ k.tired BY DEF NoCall
<1> HIDE DEF k
<1> QED BY <1>0, <1>1, WearyPut

LEMMA WearyFire == ASSUME AdmissionInv, WearyInv, NEW d \in Daemons, FireNext(d) PROVE WearyInv'
<1> DEFINE c == call[d]
           n == Len(rollouts) + 1
<1>1. PICK s \in c.left :
        LET sch == Schedules[s] IN
        /\ c.pc = "firing"
        /\ \/ call' = [call EXCEPT ![d].left = @ \ {s}] /\ records' = records
           \/ Saves([call EXCEPT ![d].pc = "deploying", ![d].by = sch.by, ![d].ref = sch.ref, ![d].sch = s,
                                 ![d].row = n], sch.ref, "deploying")
  BY DEF FireNext
<1> DEFINE sch == Schedules[s]
<1>2. d \in Slots /\ c \in CallRecord /\ call \in [Slots -> CallRecord] BY DEF Slots, AdmissionInv, AdmissionTypes
<1>3. ~ c.tired BY <1>1, <1>2, Rested
<1>4. CASE call' = [call EXCEPT ![d].left = @ \ {s}] /\ records' = records
  <2> DEFINE k == [c EXCEPT !.left = c.left \ {s}]
  <2>1. call' = [call EXCEPT ![d] = k] BY <1>2, <1>4
  <2>2. k.tired = c.tired BY <1>2 DEF CallRecord
  <2> HIDE DEF k
  <2> QED BY <1>2, <1>3, <1>4, <2>1, <2>2, WearyPut
<1>5. CASE Saves([call EXCEPT ![d].pc = "deploying", ![d].by = sch.by, ![d].ref = sch.ref, ![d].sch = s,
                              ![d].row = n], sch.ref, "deploying")
  <2> DEFINE k == [c EXCEPT !.pc = "deploying", !.by = sch.by, !.ref = sch.ref, !.sch = s, !.row = n]
  <2>1. [call EXCEPT ![d].pc = "deploying", ![d].by = sch.by, ![d].ref = sch.ref, ![d].sch = s, ![d].row = n]
        = [call EXCEPT ![d] = k]
    BY <1>2
  <2>2. s \in DOMAIN Schedules /\ sch.ref \in TargetRefs /\ sch.by \in Ids /\ s \in Origins
    BY <1>2, AdmissionAssumption DEF CallRecord, TargetRefs, Origins, Ids
  <2>3. "deploying" \in Places /\ "deploying" \in Phases /\ n \in Nat
    BY DEF Places, Phases, AdmissionInv, AdmissionTypes
  <2>4. k \in CallRecord
    <3>1. c \in CallRecord BY <1>2
    <3> HIDE DEF c, n, sch
    <3> QED BY <2>2, <2>3, <3>1, EditFiring
  <2>5. k.tired = c.tired BY <1>2 DEF CallRecord
  <2> HIDE DEF k
  <2>6. Saves([call EXCEPT ![d] = k], sch.ref, "deploying") BY <1>5, <2>1 DEF Saves
  <2> QED BY <1>2, <1>3, <2>3, <2>4, <2>5, <2>6, WearySaves
<1> QED BY <1>1, <1>4, <1>5

LEMMA WearyDelete == ASSUME AdmissionInv, WearyInv, NEW d \in Daemons, DeleteSchedule(d) PROVE WearyInv'
<1> DEFINE c == call[d]
           k == [c EXCEPT !.pc = "firing", !.left = c.left \ {c.sch}]
<1>0. d \in Slots /\ c.pc = "fired" /\ records' = records /\ call' = [Goto(d, "firing") EXCEPT ![d].left = @ \ {c.sch}]
  BY DEF DeleteSchedule, Slots
<1>1. c \in CallRecord /\ call \in [Slots -> CallRecord] BY <1>0 DEF AdmissionInv, AdmissionTypes
<1>2. call' = [call EXCEPT ![d] = k] BY <1>0, <1>1 DEF Goto, CallRecord
<1>3. k.tired = c.tired BY <1>1 DEF CallRecord
<1>4. ~ c.tired BY <1>0, Rested
<1> HIDE DEF k
<1> QED BY <1>0, <1>2, <1>3, <1>4, WearyPut

LEMMA WearyStop == ASSUME AdmissionInv, WearyInv, NEW d \in Daemons, Stop(d) PROVE WearyInv'
<1>0. records' = records /\ call' = [q \in DOMAIN call |-> IF call[q].d = d THEN NoCall ELSE call[q]] BY DEF Stop
<1>1. call \in [Slots -> CallRecord] BY DEF AdmissionInv, AdmissionTypes
<1>2. \A q \in Slots : call'[q] \in {NoCall, call[q]} BY <1>0, <1>1
<1>3. ~ NoCall.tired BY DEF NoCall
<1>4. \A q \in Slots : ~ call'[q].tired \/ (call[q].tired /\ call'[q] = call[q]) BY <1>2, <1>3
<1>5. records' \in [DOMAIN Services -> Seq(Phases)] BY <1>0 DEF WearyInv
<1> QED BY <1>0, <1>4, <1>5, WearyStep

LEMMA WearyStill == ASSUME WearyInv, records' = records, call' = call PROVE WearyInv'
<1>1. records' \in [DOMAIN Services -> Seq(Phases)] BY DEF WearyInv
<1> QED BY <1>1, WearyStep

LEMMA WearyNext == ASSUME Escalates, AdmissionInv, WearyInv, [AdmissionNext]_admissionVars PROVE WearyInv'
<1>1. ASSUME NEW q \in Requests, Arrive(q) PROVE WearyInv' BY <1>1, WearyArrive
<1>2. ASSUME NEW q \in Requests, ApplyCheck(q) PROVE WearyInv' BY <1>2, WearyCheck
<1>3. ASSUME NEW q \in Requests, ApplyStore(q) PROVE WearyInv' BY <1>3, WearyStore
<1>4. ASSUME NEW q \in Requests, LoadRow(q) PROVE WearyInv' BY <1>4, WearyLoad
<1>5. ASSUME NEW q \in Requests, ApproveStart(q) PROVE WearyInv' BY <1>5, WearyApprove
<1>6. ASSUME NEW q \in Requests, Reject(q) PROVE WearyInv' BY <1>6, WearyReject
<1>7. ASSUME NEW q \in Requests, FreezePersist(q) PROVE WearyInv' BY <1>7, WearyFreeze
<1>8. ASSUME NEW q \in Requests, FreezeEngage(q) PROVE WearyInv' BY <1>8, WearyAnswer DEF FreezeEngage, Slots
<1>9. ASSUME NEW q \in Slots, Deploy(q) PROVE WearyInv' BY <1>9, WearyDeploy
<1>10. ASSUME NEW d \in Daemons, TickSchedules(d) PROVE WearyInv' BY <1>10, WearyTick
<1>11. ASSUME NEW d \in Daemons, FireNext(d) PROVE WearyInv' BY <1>11, WearyFire
<1>12. ASSUME NEW d \in Daemons, DeleteSchedule(d) PROVE WearyInv' BY <1>12, WearyDelete
<1>13. ASSUME NEW d \in Daemons, TickEnds(d) PROVE WearyInv' BY <1>13, WearyAnswer DEF TickEnds, Slots
<1>14. ASSUME NEW d \in Daemons, Stop(d) PROVE WearyInv' BY <1>14, WearyStop
<1>15. ASSUME NEW d \in Daemons, Reload(d) \/ Start(d) \/ Interval(d) PROVE WearyInv'
  BY <1>15, WearyStill DEF Reload, Start, Interval
<1>16. ASSUME Rewrite PROVE WearyInv' BY <1>16, WearyStill DEF Rewrite
<1>17. ASSUME UNCHANGED admissionVars PROVE WearyInv' BY <1>17, WearyStill DEF admissionVars
<1> QED BY <1>1, <1>2, <1>3, <1>4, <1>5, <1>6, <1>7, <1>8, <1>9, <1>10, <1>11, <1>12, <1>13, <1>14, <1>15, <1>16,
           <1>17 DEF AdmissionNext, Slots

LEMMA WearyStarts == AdmissionInit => WearyInv
<1> SUFFICES ASSUME AdmissionInit PROVE WearyInv OBVIOUS
<1>1. call = [q \in Slots |-> NoCall] /\ records = [r \in DOMAIN Services |-> <<>>] BY DEF AdmissionInit, Slots
<1>2. records \in [DOMAIN Services -> Seq(Phases)] BY <1>1
<1>3. ~ NoCall.tired BY DEF NoCall
<1>4. \A q \in Slots : call[q] = NoCall BY <1>1
<1> QED BY <1>2, <1>3, <1>4 DEF WearyInv, Weary

\* An apply that arrives after as many failures as the limit waits for an approval,
\* whatever else is stored, approved or fired in between: the check counts the newest
\* records, and a record that is added after the request arrived takes its mark away.
\* The weight, the limit and the lookback of a service have to allow it (Escalates);
\* the code accepts others.
THEOREM FailuresWait == Escalates => (AdmissionSpec => []FailuresEscalate)
<1> SUFFICES ASSUME Escalates PROVE AdmissionSpec => []FailuresEscalate OBVIOUS
<1>1. AdmissionInit => WearyInv BY WearyStarts
<1>2. AdmissionInv /\ WearyInv /\ [AdmissionNext]_admissionVars => WearyInv' BY WearyNext
<1>3. AdmissionInv /\ WearyInv => FailuresEscalate
  <2> SUFFICES ASSUME AdmissionInv, WearyInv PROVE FailuresEscalate OBVIOUS
  <2>1. DOMAIN call = Slots BY DEF AdmissionInv, AdmissionTypes
  <2> QED BY <2>1, Rested DEF FailuresEscalate
<1> QED BY <1>1, <1>2, <1>3, AdmissionHolds, PTL DEF AdmissionSpec
=============================================================================
