-------------------------- MODULE RolloutEngineProofs --------------------------
(***************************************************************************)
(* Theorems about RolloutEngine for every set of callers, replicas and      *)
(* manifests and every bound.                                               *)
(***************************************************************************)
EXTENDS RolloutEngine, WellFoundedInduction, TLAPS

(***************************************************************************)
(* Operators.                                                               *)
(***************************************************************************)

\* A non-empty set of natural numbers has a least member.
LEMMA LeastNatural ==
    ASSUME NEW T, T \subseteq Nat, T # {}
    PROVE  \E x \in T : \A y \in T : x <= y
<1> DEFINE R == {ss \in Nat \X Nat : ss[1] < ss[2]}
<1>1. IsWellFoundedOn(R, Nat)
  <2>1. OpToRel(<, Nat) = R
    BY DEF OpToRel
  <2> QED
    BY <2>1, NatLessThanWellFounded
<1>2. \E x \in T : \A y \in T : ~(<<y, x>> \in R)
  <2> HIDE DEF R
  <2> QED
    BY <1>1, WFMin
<1>3. PICK x \in T : \A y \in T : ~(<<y, x>> \in R)
  BY <1>2
<1>4. ASSUME NEW y \in T PROVE x <= y
  <2>1. x \in Nat /\ y \in Nat
    OBVIOUS
  <2>2. ~(y < x)
    BY <1>3, <2>1
  <2> QED
    BY <2>1, <2>2
<1> QED
  BY <1>4

\* A non-empty set of rows has a newest one, because the places ListRollouts
\* gives are natural numbers.
LEMMA NewestIsMember ==
    ASSUME pos \in [Ids -> Nat], NEW S, S \subseteq Ids, S # {}
    PROVE  Newest(S) \in S
<1> DEFINE T == {pos[i] : i \in S}
<1>1. T \subseteq Nat /\ T # {}
  OBVIOUS
<1>2. \E x \in T : \A y \in T : x <= y
  <2> HIDE DEF T
  <2> QED
    BY <1>1, LeastNatural
<1>3. \E i \in S : \A j \in S : pos[i] <= pos[j]
  BY <1>2
<1> QED
  BY <1>3 DEF Newest

\* Send leads from a phase to a phase, whether the event is accepted or refused.
LEMMA SendType ==
    ASSUME NEW c, NEW e, NEW p \in Phases
    PROVE  Send(c, p, e) \in Phases
<1>1. CASE Accepts(c, p, e)
  BY <1>1 DEF Accepts, Send
<1>2. CASE ~Accepts(c, p, e)
  BY <1>2 DEF Send
<1> QED
  BY <1>1, <1>2

\* The gate leaves a new rollout deploying or awaiting approval.
LEMMA GateType ==
    ASSUME NEW g \in BOOLEAN
    PROVE  Send([planProduced |-> TRUE, needsApproval |-> g], "validating", "GATE")
               \in {"deploying", "awaiting"}
<1> DEFINE c == [planProduced |-> TRUE, needsApproval |-> g]
           to == IF g THEN "awaiting" ELSE "deploying"
<1>1. \A q : <<"validating", "GATE", q>> \in Edges(c) <=> q = to
  BY DEF Edges
<1>2. to \in Phases /\ Accepts(c, "validating", "GATE")
  BY <1>1 DEF Accepts, Phases
<1> QED
  BY <1>1, <1>2 DEF Send

\* A row that has not been created is available as long as the bound is not met.
LEMMA FreshIdType ==
    ASSUME Created # Ids
    PROVE  FreshId \in Ids \ Created
<1>1. Ids \ Created \subseteq Nat /\ Ids \ Created # {}
  BY DEF Ids, Created
<1> QED
  BY <1>1, LeastNatural DEF FreshId

(***************************************************************************)
(* Types.                                                                   *)
(***************************************************************************)
StoreOK == rows \in [Ids -> Row \cup {NoRow}] /\ pos \in [Ids -> Nat]

RestOK ==
    /\ live \in Manifests \cup {Foreign}
    /\ queue \subseteq Manifests
    /\ faults \in 0..MaxFaults
    /\ cleared \subseteq Manifests
    /\ ran \in [Ids -> Manifests \cup {Foreign, None}]

\* What the locals of an operation o mean, given the set C of stored rows: it
\* holds the id of a stored row unless it is still to create one, a row unless
\* it has yet to load one, and a manifest wherever it is about to deploy one.
Good(o, C) ==
    /\ o.id # 0 => o.id \in C
    /\ o.id = 0 => /\ o.pc \in {"idle", "acquire", "locked", "baseline", "create", "release"}
                   /\ o.kind \in {"none", "apply", "schedule"}
                   /\ o.row.phase # "verifying"
    /\ o.row = NoRow => o.pc \in {"idle", "promoteLoad", "rollbackLoad"}
    /\ o.m = None => /\ o.kind \notin {"apply", "schedule", "rollback"}
                     /\ o.pc \notin {"revert", "reverted", "fire", "gates", "rollbackLoad"}
                     /\ o.kind = "verify" => o.pc = "finalize"

TypeInv == TypeOK /\ \A p \in Procs : Good(op[p], Created)

\* What one caller's step other than Acquire and Release does: rows are never
\* removed, the locks are untouched, no other caller's locals change, and the
\* caller does not enter the critical section.
Local(p) ==
    /\ StoreOK' /\ Created \subseteq Created'
    /\ RestOK' /\ UNCHANGED locks
    /\ \E o \in Op : /\ Good(o, Created')
                     /\ op' = [op EXCEPT ![p] = o]
                     /\ o.pc \in Holding => InCS(p)

\* A row other than the empty one is a rollout.
LEMMA RowExists ==
    ASSUME StoreOK, NEW i \in Created
    PROVE  i \in Ids /\ rows[i] \in Row
<1>1. i \in Ids /\ rows[i].phase # "none"
  BY DEF Created, Exists
<1>2. rows[i] # NoRow
  BY <1>1 DEF NoRow, NewRow
<1> QED
  BY <1>1, <1>2 DEF StoreOK

\* SaveRollout keeps the store well typed and removes nothing.
LEMMA SaveType ==
    ASSUME StoreOK, NEW id, NEW r \in Row, Save(id, r)
    PROVE  StoreOK' /\ Created \subseteq Created' /\ (id \in Ids => id \in Created')
<1>1. rows' = [rows EXCEPT ![id] = r] /\ rows' \in [Ids -> Row \cup {NoRow}]
  BY DEF Save, StoreOK
<1>2. pos' \in [Ids -> Nat]
  BY DEF Save, StoreOK
<1>3. r.phase # "none"
  BY DEF Row, Phases
<1>4. \A j \in Ids : rows'[j] = IF j = id THEN r ELSE rows[j]
  BY <1>1 DEF StoreOK
<1> QED
  BY <1>1, <1>2, <1>3, <1>4 DEF StoreOK, Created, Exists

\* A prior manifest, when there is one, is a manifest.
LEMMA PriorType ==
    ASSUME StoreOK, NEW m, Priors(m) # {}
    PROVE  Prior(m) \in Manifests
<1>1. Newest(Priors(m)) \in Created
  BY NewestIsMember DEF Priors, Created, StoreOK
<1>2. rows[Newest(Priors(m))] \in Row
  BY <1>1, RowExists
<1> QED
  BY <1>2 DEF Prior, Row

\* The initial states are well typed and no caller has locals.
LEMMA TypeInit == Init => TypeInv
<1> SUFFICES ASSUME Init PROVE TypeInv
  OBVIOUS
<1>1. Idle \in Op
  BY EngineAssumption DEF Op, Idle, PCs
<1>2. TypeOK
  BY <1>1, EngineAssumption DEF Init, TypeOK
<1>3. Good(Idle, Created)
  BY DEF Good, Idle, NoRow, NewRow
<1> QED
  BY <1>2, <1>3 DEF Init, TypeInv

\* A step that leaves the store and the world alone.
LEMMA QuietStep ==
    ASSUME TypeInv, UNCHANGED <<store, locks, live, queue, faults, history>>
    PROVE  /\ StoreOK' /\ Created' = Created
           /\ RestOK' /\ UNCHANGED locks
<1>1. rows' = rows /\ pos' = pos
  BY DEF store
<1>2. Created' = Created
  BY <1>1 DEF Created, Exists
<1>3. live' = live /\ queue' = queue /\ faults' = faults /\ cleared' = cleared /\ ran' = ran
  BY DEF history
<1>4. RestOK'
  BY <1>3 DEF TypeInv, TypeOK, RestOK
<1> QED
  BY <1>1, <1>2, <1>4 DEF TypeInv, TypeOK, StoreOK

\* Updates of an operation's locals.
LEMMA OpUpdates ==
    ASSUME NEW o \in Op, NEW c \in PCs
    PROVE  /\ [o EXCEPT !.pc = c] \in Op
           /\ \A r \in Row : [o EXCEPT !.pc = c, !.row = r] \in Op
           /\ \A m \in Manifests : [o EXCEPT !.pc = c, !.m = m] \in Op
           /\ \A r \in Row, m \in Manifests : [o EXCEPT !.pc = c, !.row = r, !.m = m] \in Op
           /\ \A id \in Ids : [o EXCEPT !.pc = c, !.id = id] \in Op
           /\ \A k \in 0..NSteps : [o EXCEPT !.pc = c, !.k = k] \in Op
           /\ \A k \in 0..NSteps : [o EXCEPT !.k = k, !.pc = c] \in Op
           /\ \A kind \in Kinds : [o EXCEPT !.kind = kind, !.pc = c] \in Op
<1> USE DEF Op
<1>1. [o EXCEPT !.pc = c] \in Op
  OBVIOUS
<1>2. \A r \in Row : [o EXCEPT !.pc = c, !.row = r] \in Op
  OBVIOUS
<1>3. \A m \in Manifests : [o EXCEPT !.pc = c, !.m = m] \in Op
  OBVIOUS
<1>4. \A r \in Row, m \in Manifests : [o EXCEPT !.pc = c, !.row = r, !.m = m] \in Op
  OBVIOUS
<1>5. \A id \in Ids : [o EXCEPT !.pc = c, !.id = id] \in Op
  <2>1. Ids \subseteq 0..MaxRows
    BY EngineAssumption DEF Ids
  <2> QED
    BY <2>1
<1>6. \A k \in 0..NSteps : /\ [o EXCEPT !.pc = c, !.k = k] \in Op
                           /\ [o EXCEPT !.k = k, !.pc = c] \in Op
  OBVIOUS
<1>7. \A kind \in Kinds : [o EXCEPT !.kind = kind, !.pc = c] \in Op
  OBVIOUS
<1> QED
  BY <1>1, <1>2, <1>3, <1>4, <1>5, <1>6, <1>7

\* A caller that only moves to another program point.
LEMMA GotoStep ==
    ASSUME TypeInv, NEW p \in Procs, NEW c \in PCs, Goto(p, c),
           UNCHANGED <<store, locks, live, queue, faults, history>>,
           Good([op[p] EXCEPT !.pc = c], Created), c \in Holding => InCS(p)
    PROVE  Local(p)
<1> DEFINE o == [op[p] EXCEPT !.pc = c]
<1>1. op[p] \in Op
  BY DEF TypeInv, TypeOK
<1>2. o \in Op /\ o.pc = c
  BY <1>1, OpUpdates DEF Op
<1>3. op' = [op EXCEPT ![p] = o]
  BY DEF Goto
<1> QED
  BY <1>2, <1>3, QuietStep DEF Local

\* A caller that returns.
LEMMA ReturnStep ==
    ASSUME TypeInv, NEW p \in Procs, Return(p), StoreOK', Created \subseteq Created',
           RestOK', UNCHANGED locks
    PROVE  Local(p)
<1>1. Idle \in Op /\ Idle.pc \notin Holding
  BY EngineAssumption DEF Op, Idle, PCs, Holding
<1>2. Good(Idle, Created')
  BY DEF Good, Idle, NoRow, NewRow
<1> QED
  BY <1>1, <1>2 DEF Local, Return

\* A caller that stores its row and goes on to the deferred release.
LEMMA SaveAndReleaseStep ==
    ASSUME TypeInv, NEW p \in Procs, NEW r \in Row, SaveAndRelease(p, r), InCS(p),
           op[p].id # 0, UNCHANGED <<locks, live, queue, faults, history>>
    PROVE  Local(p)
<1> DEFINE o == [op[p] EXCEPT !.pc = "release", !.row = r]
<1>1. op[p] \in Op /\ Good(op[p], Created)
  BY DEF TypeInv, TypeOK
<1>2. "release" \in PCs /\ "release" \notin {"revert", "reverted", "fire", "gates", "rollbackLoad"}
  BY DEF PCs
<1>3. o \in Op
  BY <1>1, <1>2, OpUpdates
<1>4. StoreOK' /\ Created \subseteq Created'
  BY SaveType DEF SaveAndRelease, StoreOK, TypeInv, TypeOK
<1>5. RestOK'
  BY DEF RestOK, history, TypeInv, TypeOK
<1>6. /\ o.pc = "release" /\ o.row = r /\ o.id = op[p].id
      /\ o.m = op[p].m /\ o.kind = op[p].kind
  BY <1>1 DEF Op
<1>7. op[p].pc # "finalize" /\ r # NoRow
  BY DEF InCS, Holding, Row, NoRow, NewRow, Phases
<1>8. Good(o, Created')
  BY <1>1, <1>4, <1>6, <1>7 DEF Good
<1>9. op' = [op EXCEPT ![p] = o]
  BY DEF SaveAndRelease
<1> QED
  BY <1>3, <1>4, <1>5, <1>8, <1>9 DEF Local

(***************************************************************************)
(* The actions of one caller.                                               *)
(***************************************************************************)

\* A caller that begins an operation with the locals o.
LEMMA BeginStep ==
    ASSUME TypeInv, NEW p \in Procs, NEW kind, NEW o \in Op, Begin(p, kind, o),
           UNCHANGED <<store, locks, live, queue, faults, history>>,
           Good(o, Created), o.pc \notin Holding
    PROVE  Local(p)
BY QuietStep DEF Local, Begin

\* An idle caller holds no locals.
LEMMA IdleOp == Idle \in Op
BY EngineAssumption DEF Op, Idle, PCs

\* StartApply is a local step of its caller: types kept, locks untouched.
LEMMA StartApplyLocal ==
    ASSUME TypeInv, NEW p \in Procs, StartApply(p) PROVE Local(p)
<1>1. PICK m \in Manifests, gated \in GateModes, auto \in AutoModes :
        LET c == [planProduced |-> TRUE, needsApproval |-> gated]
            r == NewRow(Send(c, "validating", "GATE"), m)
        IN  /\ Begin(p, "apply", [Idle EXCEPT !.kind = "apply", !.pc = "acquire",
                                              !.row = r, !.m = m, !.auto = auto])
            /\ UNCHANGED <<store, locks, live, queue, faults, history>>
  BY DEF StartApply
<1> DEFINE c == [planProduced |-> TRUE, needsApproval |-> gated]
           ph == Send(c, "validating", "GATE")
           r == NewRow(ph, m)
           o == [Idle EXCEPT !.kind = "apply", !.pc = "acquire", !.row = r, !.m = m,
                             !.auto = auto]
<1>2. ph \in {"deploying", "awaiting"}
  BY EngineAssumption, GateType
<1> HIDE DEF ph
<1>3. r \in Row /\ r.phase = ph /\ r # NoRow
  BY <1>2, EngineAssumption DEF Row, Phases, NoRow, NewRow
<1> HIDE DEF r
<1>4. o \in Op
  <2>1. "apply" \in Kinds /\ "acquire" \in PCs
    BY DEF Kinds, PCs
  <2> QED
    BY <1>3, <2>1, IdleOp, EngineAssumption DEF Op
<1>5. o.kind = "apply" /\ o.pc = "acquire" /\ o.id = 0 /\ o.row = r /\ o.m = m
  BY IdleOp DEF Op, Idle
<1>6. Begin(p, "apply", o) /\ UNCHANGED <<store, locks, live, queue, faults, history>>
  BY <1>1 DEF ph, r
<1> HIDE DEF o
<1>7. Good(o, Created)
  BY <1>2, <1>3, <1>5, EngineAssumption DEF Good
<1> QED
  BY <1>4, <1>5, <1>6, <1>7, BeginStep DEF Holding

\* LoadThenLock keeps the types and takes no lock.
LEMMA LoadThenLockLocal ==
    ASSUME TypeInv, NEW p \in Procs, NEW kind \in {"pause", "resume", "abort", "approve"},
           NEW id \in Ids, LoadThenLock(p, kind, id)
    PROVE  Local(p)
<1> DEFINE o == [Idle EXCEPT !.kind = kind, !.pc = "acquire", !.id = id, !.row = rows[id]]
<1>1. id \in Created /\ rows[id] \in Row
  BY RowExists DEF LoadThenLock, Created, TypeInv, TypeOK, StoreOK
<1>2. id \in 0..MaxRows /\ id # 0
  BY EngineAssumption DEF Ids
<1>3. rows[id] # NoRow
  BY <1>1 DEF Row, NoRow, NewRow, Phases
<1>4. o \in Op
  <2>1. kind \in Kinds /\ "acquire" \in PCs
    BY DEF Kinds, PCs
  <2> QED
    BY <1>1, <1>2, <2>1, IdleOp DEF Op
<1>5. o.kind = kind /\ o.pc = "acquire" /\ o.id = id /\ o.row = rows[id]
  BY IdleOp DEF Op, Idle
<1>6. Begin(p, kind, o) /\ UNCHANGED <<store, locks, live, queue, faults, history>>
  BY DEF LoadThenLock
<1> HIDE DEF o
<1>7. Good(o, Created)
  BY <1>1, <1>2, <1>3, <1>5 DEF Good
<1> QED
  BY <1>4, <1>5, <1>6, <1>7, BeginStep DEF Holding

\* StartTick is a local step of its caller: types kept, locks untouched.
LEMMA StartTickLocal ==
    ASSUME TypeInv, NEW p \in Procs, StartTick(p) PROVE Local(p)
<1>1. PICK id \in InFlight, auto \in AutoModes :
        /\ Begin(p, "tick", [Idle EXCEPT !.kind = "tick", !.pc = "tickLoad", !.id = id,
                                         !.row = rows[id], !.auto = auto])
        /\ UNCHANGED <<store, locks, live, queue, faults, history>>
  BY DEF StartTick
<1> DEFINE o == [Idle EXCEPT !.kind = "tick", !.pc = "tickLoad", !.id = id,
                             !.row = rows[id], !.auto = auto]
<1>2. id \in Created
  BY DEF InFlight, InFlightPhase, Created, Exists
<1>3. rows[id] \in Row /\ rows[id] # NoRow
  BY <1>2, RowExists DEF TypeInv, TypeOK, StoreOK, Row, NoRow, NewRow, Phases
<1>4. id \in 0..MaxRows /\ id # 0
  BY <1>2, EngineAssumption DEF Ids, Created
<1>5. o \in Op
  <2>1. "tick" \in Kinds /\ "tickLoad" \in PCs /\ auto \in BOOLEAN
    BY EngineAssumption DEF Kinds, PCs
  <2> QED
    BY <1>3, <1>4, <2>1, IdleOp DEF Op
<1>6. o.kind = "tick" /\ o.pc = "tickLoad" /\ o.id = id /\ o.row = rows[id]
  BY IdleOp DEF Op, Idle
<1>7. Begin(p, "tick", o)
  BY <1>1
<1> HIDE DEF o
<1>8. Good(o, Created)
  BY <1>2, <1>3, <1>4, <1>6 DEF Good
<1> QED
  BY <1>1, <1>5, <1>6, <1>7, <1>8, BeginStep DEF Holding

\* StartControl is a local step of its caller: types kept, locks untouched.
LEMMA StartControlLocal ==
    ASSUME TypeInv, NEW p \in Procs, StartControl(p) PROVE Local(p)
BY LoadThenLockLocal DEF StartControl

\* StartReject is a local step of its caller: types kept, locks untouched.
LEMMA StartRejectLocal ==
    ASSUME TypeInv, NEW p \in Procs, StartReject(p) PROVE Local(p)
<1>1. PICK id \in Ids :
        /\ Accepts(Resumed, rows[id].phase, "REJECT")
        /\ Begin(p, "reject", [Idle EXCEPT !.kind = "reject", !.pc = "reject",
                                           !.id = id, !.row = rows[id]])
        /\ UNCHANGED <<store, locks, live, queue, faults, history>>
  BY DEF StartReject
<1> DEFINE o == [Idle EXCEPT !.kind = "reject", !.pc = "reject", !.id = id, !.row = rows[id]]
<1>2. id \in Created
  BY <1>1 DEF Accepts, Edges, Resumed, Created, Exists
<1>3. rows[id] \in Row /\ rows[id] # NoRow
  BY <1>2, RowExists DEF TypeInv, TypeOK, StoreOK, Row, NoRow, NewRow, Phases
<1>4. id \in 0..MaxRows /\ id # 0
  BY EngineAssumption DEF Ids
<1>5. o \in Op
  <2>1. "reject" \in Kinds /\ "reject" \in PCs
    BY DEF Kinds, PCs
  <2> QED
    BY <1>3, <1>4, <2>1, IdleOp DEF Op
<1>6. o.kind = "reject" /\ o.pc = "reject" /\ o.id = id /\ o.row = rows[id]
  BY IdleOp DEF Op, Idle
<1>7. Begin(p, "reject", o)
  BY <1>1
<1> HIDE DEF o
<1>8. Good(o, Created)
  BY <1>2, <1>3, <1>4, <1>6 DEF Good
<1> QED
  BY <1>1, <1>5, <1>6, <1>7, <1>8, BeginStep DEF Holding

\* StartVerify is a local step of its caller: types kept, locks untouched.
LEMMA StartVerifyLocal ==
    ASSUME TypeInv, NEW p \in Procs, StartVerify(p) PROVE Local(p)
<1> DEFINE id == Newest(Created)
<1>1. id \in Created
  BY NewestIsMember DEF StartVerify, Created, TypeInv, TypeOK
<1> HIDE DEF id
<1>2. PICK auto \in AutoModes :
        Begin(p, "verify", [Idle EXCEPT !.kind = "verify", !.pc = "finalize", !.id = id,
                                        !.row = rows[id], !.auto = auto])
  BY DEF StartVerify, id
<1> DEFINE o == [Idle EXCEPT !.kind = "verify", !.pc = "finalize", !.id = id,
                             !.row = rows[id], !.auto = auto]
<1>3. rows[id] \in Row /\ rows[id] # NoRow
  BY <1>1, RowExists DEF TypeInv, TypeOK, StoreOK, Row, NoRow, NewRow, Phases
<1>4. id \in 0..MaxRows /\ id # 0
  BY <1>1, EngineAssumption DEF Ids, Created
<1>5. o \in Op
  <2>1. "verify" \in Kinds /\ "finalize" \in PCs /\ auto \in BOOLEAN
    BY EngineAssumption DEF Kinds, PCs
  <2> QED
    BY <1>3, <1>4, <2>1, IdleOp DEF Op
<1>6. o.kind = "verify" /\ o.pc = "finalize" /\ o.id = id /\ o.row = rows[id]
  BY IdleOp DEF Op, Idle
<1>7. Begin(p, "verify", o)
  BY <1>2
<1> HIDE DEF o
<1>8. Good(o, Created)
  BY <1>1, <1>3, <1>4, <1>6 DEF Good
<1> QED
  BY <1>5, <1>6, <1>7, <1>8, BeginStep DEF Holding, StartVerify

\* StartPromote is a local step of its caller: types kept, locks untouched.
LEMMA StartPromoteLocal ==
    ASSUME TypeInv, NEW p \in Procs, StartPromote(p) PROVE Local(p)
<1>1. PICK id \in Ids :
        /\ Exists(id)
        /\ Begin(p, "promote", [Idle EXCEPT !.kind = "promote", !.pc = "promoteLoad", !.id = id])
        /\ UNCHANGED <<store, locks, live, queue, faults, history>>
  BY DEF StartPromote
<1> DEFINE o == [Idle EXCEPT !.kind = "promote", !.pc = "promoteLoad", !.id = id]
<1>2. id \in Created /\ id \in 0..MaxRows /\ id # 0
  BY <1>1, EngineAssumption DEF Ids, Created
<1>3. o \in Op
  <2>1. "promote" \in Kinds /\ "promoteLoad" \in PCs
    BY DEF Kinds, PCs
  <2> QED
    BY <1>2, <2>1, IdleOp DEF Op
<1>4. o.kind = "promote" /\ o.pc = "promoteLoad" /\ o.id = id
  BY IdleOp DEF Op, Idle
<1>5. Begin(p, "promote", o)
  BY <1>1
<1> HIDE DEF o
<1>6. Good(o, Created)
  BY <1>2, <1>4 DEF Good
<1> QED
  BY <1>1, <1>3, <1>4, <1>5, <1>6, BeginStep DEF Holding

\* StartRollback is a local step of its caller: types kept, locks untouched.
LEMMA StartRollbackLocal ==
    ASSUME TypeInv, NEW p \in Procs, StartRollback(p) PROVE Local(p)
<1> DEFINE id == Newest(Created)
           m == Prior(rows[id].desired)
           o == [Idle EXCEPT !.kind = "rollback", !.id = id, !.pc = "rollbackLoad", !.m = m]
<1>1. id \in Created /\ id \in 0..MaxRows /\ id # 0
  <2>1. id \in Created
    BY NewestIsMember DEF StartRollback, Created, TypeInv, TypeOK
  <2> QED
    BY <2>1, EngineAssumption DEF Created, Ids
<1>2. Priors(rows[id].desired) # {} /\ Begin(p, "rollback", o)
  BY DEF StartRollback
<1>3. m \in Manifests
  BY <1>2, PriorType DEF TypeInv, TypeOK, StoreOK
<1> HIDE DEF id, m
<1>4. o \in Op
  <2>1. "rollback" \in Kinds /\ "rollbackLoad" \in PCs
    BY DEF Kinds, PCs
  <2> QED
    BY <1>1, <1>3, <2>1, IdleOp DEF Op
<1>5. o.kind = "rollback" /\ o.pc = "rollbackLoad" /\ o.id = id /\ o.m = m
  BY IdleOp DEF Op, Idle
<1> HIDE DEF o
<1>6. Good(o, Created)
  BY <1>1, <1>3, <1>5, EngineAssumption DEF Good
<1> QED
  BY <1>2, <1>4, <1>5, <1>6, BeginStep DEF Holding, StartRollback

\* StartScheduled is a local step of its caller: types kept, locks untouched.
LEMMA StartScheduledLocal ==
    ASSUME TypeInv, NEW p \in Procs, StartScheduled(p) PROVE Local(p)
<1>1. PICK m \in queue :
        /\ Begin(p, "schedule", [Idle EXCEPT !.kind = "schedule", !.pc = "acquire",
                                             !.row = NewRow("deploying", m), !.m = m])
        /\ UNCHANGED <<store, locks, live, queue, faults, history>>
  BY DEF StartScheduled
<1> DEFINE r == NewRow("deploying", m)
           o == [Idle EXCEPT !.kind = "schedule", !.pc = "acquire", !.row = r, !.m = m]
<1>2. m \in Manifests
  BY DEF TypeInv, TypeOK
<1>3. r \in Row /\ r.phase = "deploying" /\ r # NoRow
  BY <1>2, EngineAssumption DEF Row, Phases, NoRow, NewRow
<1> HIDE DEF r
<1>4. o \in Op
  <2>1. "schedule" \in Kinds /\ "acquire" \in PCs
    BY DEF Kinds, PCs
  <2> QED
    BY <1>2, <1>3, <2>1, IdleOp DEF Op
<1>5. o.kind = "schedule" /\ o.pc = "acquire" /\ o.id = 0 /\ o.row = r /\ o.m = m
  BY IdleOp DEF Op, Idle
<1>6. Begin(p, "schedule", o)
  BY <1>1 DEF r
<1> HIDE DEF o
<1>7. Good(o, Created)
  BY <1>2, <1>3, <1>5, EngineAssumption DEF Good
<1> QED
  BY <1>1, <1>4, <1>5, <1>6, <1>7, BeginStep DEF Holding

\* Inside the critical section an operation has loaded a row.
LEMMA CSFacts ==
    ASSUME TypeInv, NEW p \in Procs, InCS(p)
    PROVE  op[p] \in Op /\ op[p].row \in Row /\ Good(op[p], Created)
<1>1. op[p] \in Op /\ Good(op[p], Created)
  BY DEF TypeInv, TypeOK
<1>2. op[p].row # NoRow
  BY <1>1 DEF Good, InCS, Holding
<1> QED
  BY <1>1, <1>2 DEF Op

\* The program points of an operation that has the id of its row.
LEMMA IdFacts ==
    ASSUME TypeInv, NEW p \in Procs,
           \/ op[p].pc \notin {"idle", "acquire", "locked", "baseline", "create", "release"}
           \/ op[p].kind \notin {"none", "apply", "schedule"}
    PROVE  op[p].id \in Created /\ op[p].id \in Ids /\ op[p].id # 0 /\ rows[op[p].id] \in Row
<1>1. Good(op[p], Created)
  BY DEF TypeInv
<1>2. op[p].id # 0 /\ op[p].id \in Created
  BY <1>1 DEF Good
<1> QED
  BY <1>2, RowExists DEF TypeInv, TypeOK, StoreOK

\* A move inside the critical section that deploys nothing next.
LEMMA GoodInCS ==
    ASSUME TypeInv, NEW p \in Procs, InCS(p), NEW C, Created \subseteq C, NEW o \in Op,
           o.kind = op[p].kind, o.id = op[p].id, o.m = op[p].m, o.row \in Row,
           o.pc \in Holding \ {"revert", "reverted", "fire"},
           op[p].id = 0 => /\ o.pc \in {"locked", "baseline", "create", "release"}
                           /\ o.row.phase # "verifying"
    PROVE  Good(o, C)
<1>1. Good(op[p], Created)
  BY CSFacts
<1>2. op[p].pc # "finalize" /\ o.pc \notin {"revert", "reverted", "fire", "gates", "rollbackLoad"}
  BY DEF InCS, Holding
<1>3. o.row # NoRow
  BY DEF Row, NoRow, NewRow, Phases
<1> QED
  BY <1>1, <1>2, <1>3 DEF Good

\* A jump of one caller between two points that hold the lock.
LEMMA GotoInCS ==
    ASSUME TypeInv, NEW p \in Procs, InCS(p), NEW c \in Holding \ {"revert", "reverted", "fire"},
           op[p].id = 0 => c \in {"locked", "baseline", "create", "release"},
           Goto(p, c), StoreOK', Created \subseteq Created', RestOK', UNCHANGED locks
    PROVE  Local(p)
<1> DEFINE o == [op[p] EXCEPT !.pc = c]
<1>1. op[p] \in Op /\ op[p].row \in Row /\ Good(op[p], Created)
  BY CSFacts
<1>2. c \in PCs
  BY DEF Holding, PCs
<1>3. /\ o \in Op
      /\ o.pc = c /\ o.kind = op[p].kind /\ o.id = op[p].id /\ o.row = op[p].row /\ o.m = op[p].m
  BY <1>1, <1>2, OpUpdates DEF Op
<1>4. op' = [op EXCEPT ![p] = o]
  BY DEF Goto
<1> HIDE DEF o
<1>5. op[p].id = 0 => op[p].row.phase # "verifying"
  BY <1>1 DEF Good
<1>6. Good(o, Created')
  BY <1>1, <1>3, <1>5, GoodInCS
<1> QED
  BY <1>3, <1>4, <1>6 DEF Local

\* ApplyInFlight is a local step of its caller: types kept, locks untouched.
LEMMA ApplyInFlightLocal ==
    ASSUME TypeInv, NEW p \in Procs, ApplyInFlight(p) PROVE Local(p)
<1>1. InCS(p)
  BY DEF ApplyInFlight, At, InCS, Holding
<1>2. PICK c \in {"baseline", "release"} : Goto(p, c)
  BY DEF ApplyInFlight
<1>3. c \in Holding \ {"revert", "reverted", "fire"}
  BY <1>2 DEF Holding
<1>4. UNCHANGED <<store, locks, live, queue, faults, history>>
  BY DEF ApplyInFlight
<1> QED
  BY <1>1, <1>2, <1>3, <1>4, QuietStep, GotoInCS

\* ApplyBaseline is a local step of its caller: types kept, locks untouched.
LEMMA ApplyBaselineLocal ==
    ASSUME TypeInv, NEW p \in Procs, ApplyBaseline(p) PROVE Local(p)
<1>1. InCS(p) /\ UNCHANGED <<store, locks, live, queue, faults, history>>
  BY DEF ApplyBaseline, At, InCS, Holding
<1>2. op[p] \in Op /\ op[p].row \in Row /\ Good(op[p], Created)
  BY <1>1, CSFacts
<1>3. PICK b \in BOOLEAN :
        op' = [op EXCEPT ![p].pc = "create", ![p].row.blocked = b, ![p].base = live]
  BY DEF ApplyBaseline, BaselineDiffers
<1> DEFINE r == [op[p].row EXCEPT !.blocked = b]
           o == [op[p] EXCEPT !.pc = "create", !.row = r, !.base = live]
<1>4. r \in Row /\ r.phase = op[p].row.phase
  BY <1>2 DEF Row
<1>5. op' = [op EXCEPT ![p] = o]
  BY <1>3, <1>2 DEF Op, TypeInv, TypeOK
<1> HIDE DEF r
<1>6. /\ o \in Op
      /\ o.pc = "create" /\ o.kind = op[p].kind /\ o.id = op[p].id /\ o.row = r /\ o.m = op[p].m
  <2>1. "create" \in PCs /\ live \in Manifests \cup {Foreign, None}
    BY DEF PCs, TypeInv, TypeOK
  <2> QED
    BY <1>2, <1>4, <2>1 DEF Op
<1> HIDE DEF o
<1>7. op[p].id = 0 => r.phase # "verifying"
  BY <1>2, <1>4 DEF Good
<1>8. "create" \in Holding
  BY DEF Holding
<1>9. Good(o, Created)
  BY <1>1, <1>4, <1>6, <1>7, <1>8, GoodInCS
<1> QED
  BY <1>1, <1>5, <1>6, <1>9, QuietStep DEF Local

\* ApplyCreate is a local step of its caller: types kept, locks untouched.
LEMMA ApplyCreateLocal ==
    ASSUME TypeInv, NEW p \in Procs, ApplyCreate(p) PROVE Local(p)
<1>1. InCS(p) /\ UNCHANGED <<locks, live, queue, faults>> /\ op[p].kind = "apply"
  BY DEF ApplyCreate, At, InCS, Holding
<1>2. op[p] \in Op /\ op[p].row \in Row /\ Good(op[p], Created)
  BY <1>1, CSFacts
<1>3. FreshId \in Ids /\ FreshId # 0
  BY FreshIdType DEF ApplyCreate, Ids
<1>4. StoreOK' /\ Created \subseteq Created' /\ FreshId \in Created'
  BY <1>2, <1>3, SaveType DEF ApplyCreate, TypeInv, TypeOK, StoreOK
<1>5. PICK c \in {"release", "deploy"} : op' = [op EXCEPT ![p].pc = c, ![p].id = FreshId]
  BY DEF ApplyCreate
<1>6. RestOK'
  <2>1. cleared' \subseteq Manifests
    BY <1>2 DEF ApplyCreate, history, TypeInv, TypeOK, Row
  <2>2. ran' \in [Ids -> Manifests \cup {Foreign, None}]
    <3>1. op[p].base \in Manifests \cup {Foreign, None}
      BY <1>2 DEF Op
    <3> QED
      BY <1>3, <3>1 DEF ApplyCreate, history, TypeInv, TypeOK
  <2> QED
    BY <1>1, <2>1, <2>2 DEF RestOK, TypeInv, TypeOK
<1> DEFINE o == [op[p] EXCEPT !.pc = c, !.id = FreshId]
<1>7. /\ o \in Op
      /\ o.pc = c /\ o.kind = op[p].kind /\ o.id = FreshId /\ o.row = op[p].row /\ o.m = op[p].m
  <2>1. c \in PCs
    BY <1>5 DEF PCs
  <2>2. o \in Op
    BY <1>2, <1>3, <2>1, OpUpdates
  <2> QED
    BY <1>2, <2>2 DEF Op
<1>8. op' = [op EXCEPT ![p] = o]
  BY <1>5
<1> HIDE DEF o
<1>9. op[p].row # NoRow
  BY <1>2 DEF Row, NoRow, NewRow, Phases
<1>10. Good(o, Created')
  BY <1>1, <1>2, <1>3, <1>4, <1>5, <1>7, <1>9 DEF Good
<1> QED
  BY <1>1, <1>4, <1>6, <1>7, <1>8, <1>10 DEF Local

\* Updates of a row.
LEMMA RowUpdates ==
    ASSUME NEW r \in Row
    PROVE  /\ \A ph \in Phases : [r EXCEPT !.phase = ph] \in Row
           /\ \A k \in 0..NSteps : /\ [r EXCEPT !.snap = k] \in Row
                                   /\ [r EXCEPT !.snap = k].phase = r.phase
                                   /\ [r EXCEPT !.step = k] \in Row
                                   /\ [r EXCEPT !.step = k].phase = r.phase
           /\ \A k \in 0..NSteps, ph \in Phases : [r EXCEPT !.snap = k, !.phase = ph] \in Row
           /\ \A ph \in Phases : [r EXCEPT !.phase = ph, !.blocked = TRUE] \in Row
           /\ \A m \in Manifests : [r EXCEPT !.desired = m] \in Row
           /\ r.phase \in Phases /\ r.desired \in Manifests
BY DEF Row

\* A deploy inside the critical section: live becomes the manifest or stays.
LEMMA DeployedStep ==
    ASSUME TypeInv, NEW p \in Procs, InCS(p), NEW m \in Manifests, op[p].id # 0,
           NEW ok \in Holding, NEW bad \in Holding,
           {ok, bad} \cap {"revert", "fire"} = {},
           "reverted" \in {ok, bad} => op[p].m # None,
           Deployed(p, m, ok, bad), UNCHANGED <<store, locks, queue, faults, history>>
    PROVE  Local(p)
<1>1. op[p] \in Op /\ op[p].row \in Row /\ Good(op[p], Created)
  BY CSFacts
<1>2. live' \in Manifests \cup {Foreign}
  BY DEF Deployed, TypeInv, TypeOK
<1>3. PICK c \in {ok, bad} : Goto(p, c)
  BY DEF Deployed
<1>4. rows' = rows /\ pos' = pos /\ cleared' = cleared /\ ran' = ran
  BY DEF store, history
<1>5. StoreOK' /\ Created' = Created
  BY <1>4 DEF StoreOK, TypeInv, TypeOK, Created, Exists
<1>6. RestOK'
  BY <1>2, <1>4 DEF RestOK, TypeInv, TypeOK
<1> DEFINE o == [op[p] EXCEPT !.pc = c]
<1>7. c \in PCs /\ c \in Holding
  BY <1>3 DEF Holding, PCs
<1>8. o \in Op
  BY <1>1, <1>7, OpUpdates
<1>9. o.pc = c /\ o.kind = op[p].kind /\ o.id = op[p].id /\ o.row = op[p].row /\ o.m = op[p].m
  BY <1>1 DEF Op
<1>10. op' = [op EXCEPT ![p] = o]
  BY <1>3 DEF Goto
<1> HIDE DEF o
<1>11. op[p].row # NoRow
  BY <1>1 DEF Row, NoRow, NewRow, Phases
<1>12. op[p].pc # "finalize" /\ c \notin {"gates", "rollbackLoad"}
  BY <1>7 DEF Holding, InCS
<1>13. Good(o, Created)
  BY <1>1, <1>3, <1>9, <1>11, <1>12 DEF Good
<1> QED
  BY <1>5, <1>6, <1>7, <1>8, <1>9, <1>10, <1>13 DEF Local

\* ApplyDeploy is a local step of its caller: types kept, locks untouched.
LEMMA ApplyDeployLocal ==
    ASSUME TypeInv, NEW p \in Procs, ApplyDeploy(p) PROVE Local(p)
<1>1. /\ InCS(p) /\ op[p].pc = "deploy" /\ op[p].kind = "apply"
      /\ UNCHANGED <<store, locks, queue, faults, history>>
  BY DEF ApplyDeploy, At, InCS, Holding
<1>2. op[p] \in Op /\ op[p].row \in Row /\ Good(op[p], Created)
  BY <1>1, CSFacts
<1>3. op[p].id # 0 /\ op[p].m \in Manifests
  BY <1>1, <1>2 DEF Good, Op
<1>4. CASE live' \in {live, op[p].m} /\ Goto(p, "fail")
  <2>1. Deployed(p, op[p].m, "record", "fail")
    BY <1>4 DEF Deployed
  <2>2. "record" \in Holding /\ "fail" \in Holding
    BY DEF Holding
  <2> QED
    BY <1>1, <1>3, <2>1, <2>2, DeployedStep
<1>5. CASE live' = op[p].m /\ op' = [op EXCEPT ![p].pc = "record", ![p].k = 1]
  <2> DEFINE o == [op[p] EXCEPT !.pc = "record", !.k = 1]
  <2>1. rows' = rows /\ pos' = pos /\ cleared' = cleared /\ ran' = ran
    BY <1>1 DEF store, history
  <2>2. StoreOK' /\ Created' = Created
    BY <2>1 DEF StoreOK, TypeInv, TypeOK, Created, Exists
  <2>3. RestOK'
    BY <1>1, <1>3, <1>5, <2>1 DEF RestOK, TypeInv, TypeOK
  <2>4. "record" \in PCs /\ "record" \in Holding /\ 1 \in 0..NSteps
    BY EngineAssumption DEF PCs, Holding
  <2>5. o \in Op
    BY <1>2, <2>4, OpUpdates
  <2>6. /\ o.pc = "record" /\ o.kind = op[p].kind /\ o.id = op[p].id
        /\ o.row = op[p].row /\ o.m = op[p].m
    BY <1>2 DEF Op
  <2>7. op' = [op EXCEPT ![p] = o]
    BY <1>5
  <2> HIDE DEF o
  <2>8. Good(o, Created)
    BY <1>1, <1>2, <1>3, <2>4, <2>5, <2>6, GoodInCS
  <2> QED
    BY <1>1, <2>2, <2>3, <2>5, <2>7, <2>8 DEF Local
<1> QED
  BY <1>4, <1>5 DEF ApplyDeploy

\* RecordStep is a local step of its caller: types kept, locks untouched.
LEMMA RecordStepLocal ==
    ASSUME TypeInv, NEW p \in Procs, RecordStep(p) PROVE Local(p)
<1>1. /\ InCS(p) /\ op[p].pc = "record"
      /\ UNCHANGED <<locks, live, queue, faults, history>>
  BY DEF RecordStep, InCS, Holding
<1>2. op[p] \in Op /\ op[p].row \in Row /\ Good(op[p], Created)
  BY <1>1, CSFacts
<1>3. op[p].id \in Ids /\ op[p].id # 0
  BY <1>1, IdFacts
<1> DEFINE r == [op[p].row EXCEPT !.step = op[p].k]
<1>4. r \in Row /\ Save(op[p].id, r)
  BY <1>2, RowUpdates DEF Op, RecordStep
<1>5. PICK c \in {"drive", "fail"} : op' = [op EXCEPT ![p].pc = c, ![p].row = r]
  BY DEF RecordStep
<1> HIDE DEF r
<1>6. StoreOK' /\ Created \subseteq Created'
  BY <1>4, SaveType DEF TypeInv, TypeOK, StoreOK
<1>7. RestOK'
  BY <1>1 DEF RestOK, history, TypeInv, TypeOK
<1> DEFINE o == [op[p] EXCEPT !.pc = c, !.row = r]
<1>8. c \in PCs /\ c \in Holding
  BY <1>5 DEF PCs, Holding
<1>9. o \in Op
  BY <1>2, <1>4, <1>8, OpUpdates
<1>10. o.pc = c /\ o.kind = op[p].kind /\ o.id = op[p].id /\ o.row = r /\ o.m = op[p].m
  BY <1>2 DEF Op
<1>11. op' = [op EXCEPT ![p] = o]
  BY <1>5
<1> HIDE DEF o
<1>12. Good(o, Created')
  BY <1>1, <1>3, <1>4, <1>5, <1>6, <1>8, <1>9, <1>10, GoodInCS
<1> QED
  BY <1>1, <1>6, <1>7, <1>9, <1>11, <1>12 DEF Local

\* Bake is a local step of its caller: types kept, locks untouched.
LEMMA BakeLocal ==
    ASSUME TypeInv, NEW p \in Procs, Bake(p) PROVE Local(p)
<1>1. InCS(p) /\ op[p].pc = "drive"
  BY DEF Bake, InCS, Holding
<1>2. op[p] \in Op /\ op[p].row \in Row
  BY <1>1, CSFacts
<1>3. op[p].id # 0
  BY <1>1, IdFacts
<1>4. [op[p].row EXCEPT !.snap = op[p].k] \in Row
  BY <1>2, RowUpdates DEF Op
<1> QED
  BY <1>1, <1>3, <1>4, SaveAndReleaseStep DEF Bake

\* AdvanceStep is a local step of its caller: types kept, locks untouched.
LEMMA AdvanceStepLocal ==
    ASSUME TypeInv, NEW p \in Procs, AdvanceStep(p) PROVE Local(p)
<1>1. InCS(p) /\ op[p].pc \in {"drive", "advance"}
  BY DEF AdvanceStep, InCS, Holding
<1>2. op[p] \in Op /\ op[p].row \in Row
  BY <1>1, CSFacts
<1>3. op[p].id # 0
  BY <1>1, IdFacts
<1> DEFINE k == op[p].k
<1>4. k \in 0..NSteps /\ NSteps \in Nat
  BY <1>2, EngineAssumption DEF Op
<1>5. CASE /\ k < NSteps /\ UNCHANGED store
           /\ op' = [op EXCEPT ![p].pc = "record", ![p].k = k + 1]
  <2> DEFINE o == [op[p] EXCEPT !.pc = "record", !.k = k + 1]
  <2>1. "record" \in PCs /\ "record" \in Holding /\ k + 1 \in 0..NSteps
    BY <1>4, <1>5 DEF PCs, Holding
  <2>2. o \in Op
    BY <1>2, <2>1, OpUpdates
  <2>3. /\ o.pc = "record" /\ o.kind = op[p].kind /\ o.id = op[p].id
        /\ o.row = op[p].row /\ o.m = op[p].m
    BY <1>2 DEF Op
  <2>4. op' = [op EXCEPT ![p] = o]
    BY <1>5
  <2> HIDE DEF o
  <2>5. Good(o, Created)
    BY <1>1, <1>2, <1>3, <2>1, <2>2, <2>3, GoodInCS
  <2>6. UNCHANGED <<store, locks, live, queue, faults, history>>
    BY <1>5 DEF AdvanceStep
  <2> QED
    BY <1>1, <2>2, <2>4, <2>5, <2>6, QuietStep DEF Local
<1>6. CASE k < NSteps /\ UNCHANGED store /\ Goto(p, "fail")
  <2>1. UNCHANGED <<store, locks, live, queue, faults, history>>
    BY <1>6 DEF AdvanceStep
  <2>2. "fail" \in Holding
    BY DEF Holding
  <2> QED
    BY <1>1, <1>3, <1>6, <2>1, <2>2, QuietStep, GotoInCS
<1>7. CASE SaveAndRelease(p, [op[p].row EXCEPT !.snap = k,
                               !.phase = Send(Resumed, op[p].row.phase, "DEPLOYED")])
  <2>1. Send(Resumed, op[p].row.phase, "DEPLOYED") \in Phases
    BY <1>2, RowUpdates, SendType
  <2>2. [op[p].row EXCEPT !.snap = k, !.phase = Send(Resumed, op[p].row.phase, "DEPLOYED")] \in Row
    BY <1>2, <1>4, <2>1, RowUpdates
  <2> QED
    BY <1>1, <1>3, <1>7, <2>2, SaveAndReleaseStep DEF AdvanceStep
<1> QED
  BY <1>5, <1>6, <1>7 DEF AdvanceStep

\* An operation about to re-apply the prior manifest of its row.
LEMMA RevertNext ==
    ASSUME TypeInv, NEW p \in Procs, InCS(p), op[p].id # 0, NEW r \in Row, NEW m \in Manifests,
           NEW o \in Op, o.kind = op[p].kind, o.id = op[p].id, o.m = m, o.row = r,
           o.pc = "revert", op' = [op EXCEPT ![p] = o],
           UNCHANGED <<store, locks, live, queue, faults, history>>
    PROVE  Local(p)
<1>1. Good(op[p], Created)
  BY CSFacts
<1>2. r # NoRow /\ m # None
  BY EngineAssumption DEF Row, NoRow, NewRow, Phases
<1>3. Good(o, Created)
  BY <1>1, <1>2 DEF Good
<1> QED
  BY <1>3, QuietStep DEF Local

\* Fail is a local step of its caller: types kept, locks untouched.
LEMMA FailLocal ==
    ASSUME TypeInv, NEW p \in Procs, Fail(p) PROVE Local(p)
<1>1. /\ InCS(p) /\ op[p].pc = "fail"
      /\ UNCHANGED <<store, locks, live, queue, faults, history>>
  BY DEF Fail, InCS, Holding
<1>2. op[p] \in Op /\ op[p].row \in Row
  BY <1>1, CSFacts
<1>3. op[p].id # 0
  BY <1>1, IdFacts
<1>4. CASE Goto(p, "error")
  <2>1. "error" \in Holding
    BY DEF Holding
  <2> QED
    BY <1>1, <1>3, <1>4, <2>1, QuietStep, GotoInCS
<1>5. CASE /\ Priors(op[p].row.desired) # {}
           /\ op' = [op EXCEPT ![p].pc = "revert", ![p].m = Prior(op[p].row.desired)]
  <2> DEFINE m == Prior(op[p].row.desired)
             o == [op[p] EXCEPT !.pc = "revert", !.m = m]
  <2>1. m \in Manifests /\ "revert" \in PCs
    BY <1>5, PriorType DEF PCs, TypeInv, TypeOK, StoreOK
  <2> HIDE DEF m
  <2>2. o \in Op
    BY <1>2, <2>1, OpUpdates
  <2>3. o.pc = "revert" /\ o.kind = op[p].kind /\ o.id = op[p].id /\ o.row = op[p].row /\ o.m = m
    BY <1>2 DEF Op
  <2>4. op' = [op EXCEPT ![p] = o]
    BY <1>5 DEF m
  <2> HIDE DEF o
  <2> QED
    BY <1>1, <1>2, <1>3, <2>1, <2>2, <2>3, <2>4, RevertNext
<1> QED
  BY <1>4, <1>5 DEF Fail

\* Marking a rollout rolled back keeps it a row.
LEMMA RolledBackType ==
    ASSUME NEW r \in Row
    PROVE  RolledBack(r) \in Row
BY RowUpdates DEF RolledBack, Phases

\* StoreFailed is a local step of its caller: types kept, locks untouched.
LEMMA StoreFailedLocal ==
    ASSUME TypeInv, NEW p \in Procs, StoreFailed(p) PROVE Local(p)
<1>1. InCS(p) /\ op[p].pc = "error"
  BY DEF StoreFailed, InCS, Holding
<1>2. RolledBack(op[p].row) \in Row
  BY <1>1, CSFacts, RolledBackType
<1>3. op[p].id # 0
  BY <1>1, IdFacts
<1> QED
  BY <1>1, <1>2, <1>3, SaveAndReleaseStep DEF StoreFailed

\* Revert is a local step of its caller: types kept, locks untouched.
LEMMA RevertLocal ==
    ASSUME TypeInv, NEW p \in Procs, Revert(p) PROVE Local(p)
<1>1. /\ InCS(p) /\ op[p].pc = "revert"
      /\ UNCHANGED <<store, locks, queue, faults, history>>
  BY DEF Revert, InCS, Holding
<1>2. op[p] \in Op /\ Good(op[p], Created)
  BY <1>1, CSFacts
<1>3. op[p].id # 0
  BY <1>1, IdFacts
<1>4. op[p].m \in Manifests /\ op[p].m # None
  BY <1>1, <1>2, EngineAssumption DEF Good, Op
<1>5. PICK bad \in {"error", "release"} : Deployed(p, op[p].m, "reverted", bad)
  BY DEF Revert
<1>6. "reverted" \in Holding /\ bad \in Holding
  BY <1>5 DEF Holding
<1> QED
  BY <1>1, <1>3, <1>4, <1>5, <1>6, DeployedStep

\* StoreReverted is a local step of its caller: types kept, locks untouched.
LEMMA StoreRevertedLocal ==
    ASSUME TypeInv, NEW p \in Procs, StoreReverted(p) PROVE Local(p)
<1>1. InCS(p) /\ op[p].pc = "reverted"
  BY DEF StoreReverted, InCS, Holding
<1>2. op[p] \in Op /\ op[p].row \in Row /\ Good(op[p], Created)
  BY <1>1, CSFacts
<1>3. op[p].m \in Manifests
  BY <1>1, <1>2 DEF Good, Op
<1>4. [RolledBack(op[p].row) EXCEPT !.desired = op[p].m] \in Row
  BY <1>2, <1>3, RolledBackType, RowUpdates
<1>5. op[p].id # 0
  BY <1>1, IdFacts
<1> QED
  BY <1>1, <1>4, <1>5, SaveAndReleaseStep DEF StoreReverted

\* TickLoad is a local step of its caller: types kept, locks untouched.
LEMMA TickLoadLocal ==
    ASSUME TypeInv, NEW p \in Procs, TickLoad(p) PROVE Local(p)
<1> DEFINE id == op[p].id
           r == rows[id]
<1>1. /\ op[p] \in Op /\ Good(op[p], Created) /\ op[p].pc = "tickLoad"
      /\ UNCHANGED <<store, locks, live, queue, faults, history>>
  BY DEF TypeInv, TypeOK, TickLoad
<1>2. id \in Created /\ id # 0 /\ r \in Row
  BY <1>1, IdFacts
<1>3. r # NoRow
  BY <1>2 DEF Row, NoRow, NewRow, Phases
<1>4. CASE Return(p)
  BY <1>1, <1>4, QuietStep, ReturnStep
<1>5. CASE op' = [op EXCEPT ![p].pc = "acquire", ![p].row = r]
  <2> DEFINE o == [op[p] EXCEPT !.pc = "acquire", !.row = r]
  <2>1. "acquire" \in PCs /\ "acquire" \notin Holding
    BY DEF PCs, Holding
  <2>2. o \in Op
    BY <1>1, <1>2, <2>1, OpUpdates
  <2>3. o.pc = "acquire" /\ o.kind = op[p].kind /\ o.id = id /\ o.row = r /\ o.m = op[p].m
    BY <1>1 DEF Op
  <2>4. op' = [op EXCEPT ![p] = o]
    BY <1>5
  <2> HIDE DEF o
  <2>5. Good(o, Created)
    BY <1>1, <1>2, <1>3, <2>3 DEF Good
  <2> QED
    BY <1>1, <2>1, <2>2, <2>3, <2>4, <2>5, QuietStep DEF Local
<1>6. CASE op' = [op EXCEPT ![p].pc = "finalize", ![p].kind = "verify", ![p].row = r]
  <2> DEFINE o == [op[p] EXCEPT !.pc = "finalize", !.kind = "verify", !.row = r]
  <2>1. "finalize" \in PCs /\ "verify" \in Kinds /\ "finalize" \notin Holding
    BY DEF PCs, Kinds, Holding
  <2>2. o \in Op
    BY <1>1, <1>2, <2>1 DEF Op
  <2>3. o.pc = "finalize" /\ o.kind = "verify" /\ o.id = id /\ o.row = r
    BY <1>1 DEF Op
  <2>4. op' = [op EXCEPT ![p] = o]
    BY <1>6
  <2> HIDE DEF o
  <2>5. Good(o, Created)
    BY <1>2, <1>3, <2>3 DEF Good
  <2> QED
    BY <1>1, <2>1, <2>2, <2>3, <2>4, <2>5, QuietStep DEF Local
<1> QED
  BY <1>4, <1>5, <1>6 DEF TickLoad

\* TickRecover is a local step of its caller: types kept, locks untouched.
LEMMA TickRecoverLocal ==
    ASSUME TypeInv, NEW p \in Procs, TickRecover(p) PROVE Local(p)
<1>1. InCS(p) /\ op[p].kind = "tick"
  BY DEF TickRecover, At, InCS, Holding
<1>2. Recovered(op[p].row) \in Row
  BY <1>1, CSFacts, RowUpdates DEF Recovered, Phases
<1>3. op[p].id # 0
  BY <1>1, IdFacts
<1> QED
  BY <1>1, <1>2, <1>3, SaveAndReleaseStep DEF TickRecover

\* TickStep is a local step of its caller: types kept, locks untouched.
LEMMA TickStepLocal ==
    ASSUME TypeInv, NEW p \in Procs, TickStep(p) PROVE Local(p)
<1>1. /\ InCS(p) /\ op[p].kind = "tick"
      /\ UNCHANGED <<store, locks, live, queue, faults, history>>
  BY DEF TickStep, At, InCS, Holding
<1>2. op[p] \in Op /\ op[p].row \in Row
  BY <1>1, CSFacts
<1>3. op[p].id # 0
  BY <1>1, IdFacts
<1>4. CASE Goto(p, "release") \/ Goto(p, "fail")
  <2>1. "release" \in Holding /\ "fail" \in Holding
    BY DEF Holding
  <2> QED
    BY <1>1, <1>3, <1>4, <2>1, QuietStep, GotoInCS
<1>5. CASE ~(Goto(p, "release") \/ Goto(p, "fail"))
  <2> DEFINE k == op[p].row.snap
  <2>1. PICK c \in {"advance", "record"} : op' = [op EXCEPT ![p].k = k, ![p].pc = c]
    BY <1>5 DEF TickStep
  <2> DEFINE o == [op[p] EXCEPT !.k = k, !.pc = c]
  <2>2. c \in PCs /\ c \in Holding /\ k \in 0..NSteps
    BY <1>2, <2>1 DEF PCs, Holding, Row
  <2>3. o \in Op
    BY <1>2, <2>2, OpUpdates
  <2>4. o.pc = c /\ o.kind = op[p].kind /\ o.id = op[p].id /\ o.row = op[p].row /\ o.m = op[p].m
    BY <1>2 DEF Op
  <2>5. op' = [op EXCEPT ![p] = o]
    BY <2>1
  <2> HIDE DEF o
  <2>6. Good(o, Created)
    BY <1>1, <1>2, <1>3, <2>1, <2>2, <2>3, <2>4, GoodInCS
  <2> QED
    BY <1>1, <2>3, <2>5, <2>6, QuietStep DEF Local
<1> QED
  BY <1>4, <1>5

\* PauseOrResume is a local step of its caller: types kept, locks untouched.
LEMMA PauseOrResumeLocal ==
    ASSUME TypeInv, NEW p \in Procs, PauseOrResume(p) PROVE Local(p)
<1>1. InCS(p) /\ op[p].kind \in {"pause", "resume"}
  BY DEF PauseOrResume, InCS, Holding
<1>2. op[p].row \in Row
  BY <1>1, CSFacts
<1>3. op[p].id # 0
  BY <1>1, IdFacts
<1>4. CASE Goto(p, "release") /\ UNCHANGED store
  <2>1. UNCHANGED <<store, locks, live, queue, faults, history>>
    BY <1>4 DEF PauseOrResume
  <2>2. "release" \in Holding
    BY DEF Holding
  <2> QED
    BY <1>1, <1>3, <1>4, <2>1, <2>2, QuietStep, GotoInCS
<1>5. CASE ~(Goto(p, "release") /\ UNCHANGED store)
  <2> DEFINE event == IF op[p].kind = "pause" THEN "PAUSE" ELSE "RESUME"
             r == [op[p].row EXCEPT !.phase = Send(Resumed, op[p].row.phase, event)]
  <2>1. SaveAndRelease(p, r)
    BY <1>5 DEF PauseOrResume
  <2> HIDE DEF event
  <2>2. Send(Resumed, op[p].row.phase, event) \in Phases
    BY <1>2, RowUpdates, SendType
  <2>3. r \in Row
    BY <1>2, <2>2, RowUpdates
  <2> HIDE DEF r
  <2> QED
    BY <1>1, <1>3, <2>1, <2>3, SaveAndReleaseStep DEF PauseOrResume
<1> QED
  BY <1>4, <1>5

\* Abort is a local step of its caller: types kept, locks untouched.
LEMMA AbortLocal ==
    ASSUME TypeInv, NEW p \in Procs, Abort(p) PROVE Local(p)
<1> DEFINE r == [op[p].row EXCEPT !.snap = 0]
           m == Prior(r.desired)
<1>1. InCS(p) /\ op[p].kind = "abort" /\ UNCHANGED <<locks, live, queue, faults, history>>
  BY DEF Abort, At, InCS, Holding
<1>2. op[p] \in Op /\ op[p].row \in Row
  BY <1>1, CSFacts
<1>3. op[p].id # 0
  BY <1>1, IdFacts
<1>4. r \in Row
  <2>1. 0 \in 0..NSteps
    BY EngineAssumption
  <2> QED
    BY <1>2, <2>1, RowUpdates
<1>5. \/ Goto(p, "release") /\ UNCHANGED store
      \/ /\ Priors(r.desired) # {} /\ UNCHANGED store
         /\ op' = [op EXCEPT ![p].pc = "revert", ![p].row = r, ![p].m = m]
      \/ SaveAndRelease(p, RolledBack(r))
  BY DEF Abort
<1> HIDE DEF r
<1>6. CASE Goto(p, "release") /\ UNCHANGED store
  <2>1. "release" \in Holding
    BY DEF Holding
  <2> QED
    BY <1>1, <1>3, <1>6, <2>1, QuietStep, GotoInCS
<1>7. CASE /\ Priors(r.desired) # {} /\ UNCHANGED store
           /\ op' = [op EXCEPT ![p].pc = "revert", ![p].row = r, ![p].m = m]
  <2> DEFINE o == [op[p] EXCEPT !.pc = "revert", !.row = r, !.m = m]
  <2>1. m \in Manifests /\ "revert" \in PCs
    BY <1>7, PriorType DEF PCs, TypeInv, TypeOK, StoreOK
  <2> HIDE DEF m
  <2>2. o \in Op
    BY <1>2, <1>4, <2>1, OpUpdates
  <2>3. o.pc = "revert" /\ o.kind = op[p].kind /\ o.id = op[p].id /\ o.row = r /\ o.m = m
    BY <1>2 DEF Op
  <2>4. op' = [op EXCEPT ![p] = o]
    BY <1>7
  <2> HIDE DEF o
  <2> QED
    BY <1>1, <1>3, <1>4, <1>7, <2>1, <2>2, <2>3, <2>4, RevertNext
<1>8. CASE SaveAndRelease(p, RolledBack(r))
  BY <1>1, <1>3, <1>4, <1>8, RolledBackType, SaveAndReleaseStep
<1> QED
  BY <1>5, <1>6, <1>7, <1>8

\* ApproveLocked is a local step of its caller: types kept, locks untouched.
LEMMA ApproveLockedLocal ==
    ASSUME TypeInv, NEW p \in Procs, ApproveLocked(p) PROVE Local(p)
<1>1. InCS(p) /\ op[p].kind = "approve" /\ UNCHANGED <<store, locks, live, queue, faults>>
  BY DEF ApproveLocked, At, InCS, Holding
<1>2. op[p].row \in Row
  BY <1>1, CSFacts
<1>3. op[p].id # 0 /\ op[p].id \in Ids
  BY <1>1, IdFacts
<1>4. PICK c \in {"release", "approve"} : Goto(p, c)
  BY DEF ApproveLocked
<1>5. c \in Holding
  BY <1>4 DEF Holding
<1>6. StoreOK' /\ Created' = Created
  <2>1. rows' = rows /\ pos' = pos
    BY <1>1 DEF store
  <2> QED
    BY <2>1 DEF StoreOK, TypeInv, TypeOK, Created, Exists
<1>7. RestOK'
  <2>1. cleared' \subseteq Manifests
    BY <1>2 DEF ApproveLocked, history, TypeInv, TypeOK, Row
  <2>2. ran' \in [Ids -> Manifests \cup {Foreign, None}]
    <3>1. live \in Manifests \cup {Foreign, None}
      BY DEF TypeInv, TypeOK
    <3> QED
      BY <1>3, <3>1 DEF ApproveLocked, history, TypeInv, TypeOK
  <2> QED
    BY <1>1, <2>1, <2>2 DEF RestOK, TypeInv, TypeOK
<1> QED
  BY <1>1, <1>3, <1>4, <1>5, <1>6, <1>7, GotoInCS

\* ApproveDeploy is a local step of its caller: types kept, locks untouched.
LEMMA ApproveDeployLocal ==
    ASSUME TypeInv, NEW p \in Procs, ApproveDeploy(p) PROVE Local(p)
<1>1. InCS(p) /\ op[p].pc = "approve"
  BY DEF ApproveDeploy, InCS, Holding
<1>2. op[p].row.desired \in Manifests
  BY <1>1, CSFacts, RowUpdates
<1>3. op[p].id # 0
  BY <1>1, IdFacts
<1>4. "approved" \in Holding /\ "error" \in Holding
  BY DEF Holding
<1> QED
  BY <1>1, <1>2, <1>3, <1>4, DeployedStep DEF ApproveDeploy

\* ApproveStore is a local step of its caller: types kept, locks untouched.
LEMMA ApproveStoreLocal ==
    ASSUME TypeInv, NEW p \in Procs, ApproveStore(p) PROVE Local(p)
<1>1. InCS(p) /\ op[p].pc = "approved"
  BY DEF ApproveStore, InCS, Holding
<1>2. op[p].row \in Row
  BY <1>1, CSFacts
<1>3. op[p].id # 0
  BY <1>1, IdFacts
<1> DEFINE ph == Send(Resumed, Send(Resumed, op[p].row.phase, "APPROVE"), "DEPLOYED")
<1>4. ph \in Phases
  BY <1>2, RowUpdates, SendType
<1>5. SaveAndRelease(p, [op[p].row EXCEPT !.phase = ph])
  BY DEF ApproveStore
<1> HIDE DEF ph
<1>6. [op[p].row EXCEPT !.phase = ph] \in Row
  BY <1>2, <1>4, RowUpdates
<1> QED
  BY <1>1, <1>3, <1>5, <1>6, SaveAndReleaseStep DEF ApproveStore

\* StoreRejected is a local step of its caller: types kept, locks untouched.
LEMMA StoreRejectedLocal ==
    ASSUME TypeInv, NEW p \in Procs, StoreRejected(p) PROVE Local(p)
<1>1. op[p] \in Op /\ Good(op[p], Created)
  BY DEF TypeInv, TypeOK
<1>2. op[p].row \in Row
  BY <1>1 DEF Good, Op, StoreRejected
<1>3. StoreOK' /\ Created \subseteq Created'
  BY <1>2, RolledBackType, SaveType DEF StoreRejected, TypeInv, TypeOK, StoreOK
<1>4. RestOK'
  BY DEF StoreRejected, RestOK, history, TypeInv, TypeOK
<1> QED
  BY <1>3, <1>4, ReturnStep DEF StoreRejected

\* Finalize is a local step of its caller: types kept, locks untouched.
LEMMA FinalizeLocal ==
    ASSUME TypeInv, NEW p \in Procs, Finalize(p) PROVE Local(p)
<1> DEFINE id == op[p].id
           d == op[p].row.desired
           m == IF Priors(d) = {} THEN d ELSE Prior(d)
           o == [op[p] EXCEPT !.pc = "gates", !.row = rows[id], !.m = m]
<1>1. op[p] \in Op /\ Good(op[p], Created) /\ op[p].pc = "finalize"
  BY DEF TypeInv, TypeOK, Finalize
<1>2. op[p].row \in Row
  BY <1>1 DEF Good, Op
<1>3. id \in Created /\ id # 0 /\ rows[id] \in Row
  BY <1>1, IdFacts
<1>4. m \in Manifests
  BY <1>2, RowUpdates, PriorType DEF TypeInv, TypeOK, StoreOK
<1>5. op' = [op EXCEPT ![p] = o] \/ Return(p)
  BY DEF Finalize
<1> HIDE DEF m
<1>6. o \in Op
  <2>1. "gates" \in PCs
    BY DEF PCs
  <2> QED
    BY <1>1, <1>3, <1>4, <2>1, OpUpdates
<1>7. o.pc = "gates" /\ o.kind = op[p].kind /\ o.id = id /\ o.row = rows[id] /\ o.m = m
  BY <1>1 DEF Op
<1> HIDE DEF o
<1>8. rows[id] # NoRow
  BY <1>3 DEF Row, NoRow, NewRow, Phases
<1>9. Good(o, Created)
  BY <1>3, <1>4, <1>7, <1>8, EngineAssumption DEF Good
<1>10. CASE Return(p)
  BY <1>10, QuietStep, ReturnStep DEF Finalize
<1>11. CASE op' = [op EXCEPT ![p] = o]
  BY <1>11, <1>6, <1>7, <1>9, QuietStep DEF Local, Finalize, Holding
<1> QED
  BY <1>5, <1>10, <1>11

\* Gates is a local step of its caller: types kept, locks untouched.
LEMMA GatesLocal ==
    ASSUME TypeInv, NEW p \in Procs, Gates(p) PROVE Local(p)
<1>1. /\ op[p] \in Op /\ Good(op[p], Created) /\ op[p].pc = "gates"
      /\ UNCHANGED <<store, locks, live, queue, faults, history>>
  BY DEF TypeInv, TypeOK, Gates
<1>2. CASE Return(p)
  BY <1>1, <1>2, QuietStep, ReturnStep
<1>3. CASE ~Return(p)
  <2>1. PICK c \in {"promoteLoad", "rollbackLoad"} : Goto(p, c)
    BY <1>3 DEF Gates
  <2> DEFINE o == [op[p] EXCEPT !.pc = c]
  <2>2. c \in PCs /\ c \notin Holding
    BY <2>1 DEF PCs, Holding
  <2>3. o.pc = c /\ o.kind = op[p].kind /\ o.id = op[p].id /\ o.row = op[p].row /\ o.m = op[p].m
    BY <1>1 DEF Op
  <2>4. Good(o, Created)
    <3> HIDE DEF o
    <3> QED
      BY <1>1, <2>1, <2>3 DEF Good
  <2> QED
    BY <1>1, <2>1, <2>2, <2>4, GotoStep
<1> QED
  BY <1>2, <1>3

\* PromoteLoad is a local step of its caller: types kept, locks untouched.
LEMMA PromoteLoadLocal ==
    ASSUME TypeInv, NEW p \in Procs, PromoteLoad(p) PROVE Local(p)
<1> DEFINE id == op[p].id
           r == [rows[id] EXCEPT !.phase = Send(Resumed, rows[id].phase, "VERIFY_OK")]
           o == [op[p] EXCEPT !.pc = "promoteSave", !.row = r]
<1>1. /\ op[p] \in Op /\ Good(op[p], Created) /\ op[p].pc = "promoteLoad"
      /\ UNCHANGED <<store, locks, live, queue, faults, history>>
  BY DEF TypeInv, TypeOK, PromoteLoad
<1>2. id \in Created /\ id # 0 /\ rows[id] \in Row
  BY <1>1, IdFacts
<1>3. CASE Return(p)
  BY <1>1, <1>3, QuietStep, ReturnStep
<1>4. CASE op' = [op EXCEPT ![p] = o]
  <2>1. Send(Resumed, rows[id].phase, "VERIFY_OK") \in Phases
    BY <1>2, RowUpdates, SendType
  <2>2. r \in Row /\ "promoteSave" \in PCs /\ "promoteSave" \notin Holding
    BY <1>2, <2>1, RowUpdates DEF PCs, Holding
  <2> HIDE DEF r
  <2>3. o \in Op
    BY <1>1, <2>2, OpUpdates
  <2>4. o.pc = "promoteSave" /\ o.kind = op[p].kind /\ o.id = id /\ o.row = r /\ o.m = op[p].m
    BY <1>1 DEF Op
  <2>5. r # NoRow
    BY <2>2 DEF Row, NoRow, NewRow, Phases
  <2> HIDE DEF o
  <2>6. Good(o, Created)
    BY <1>1, <1>2, <2>4, <2>5 DEF Good
  <2> QED
    BY <1>1, <1>4, <2>2, <2>3, <2>4, <2>6, QuietStep DEF Local
<1> QED
  BY <1>3, <1>4 DEF PromoteLoad

\* PromoteSave is a local step of its caller: types kept, locks untouched.
LEMMA PromoteSaveLocal ==
    ASSUME TypeInv, NEW p \in Procs, PromoteSave(p) PROVE Local(p)
<1>1. op[p] \in Op /\ Good(op[p], Created)
  BY DEF TypeInv, TypeOK
<1>2. op[p].row \in Row
  BY <1>1 DEF Good, Op, PromoteSave
<1>3. StoreOK' /\ Created \subseteq Created'
  BY <1>2, SaveType DEF PromoteSave, TypeInv, TypeOK, StoreOK
<1>4. RestOK'
  BY DEF PromoteSave, RestOK, history, TypeInv, TypeOK
<1> QED
  BY <1>3, <1>4, ReturnStep DEF PromoteSave

\* RollbackLoad is a local step of its caller: types kept, locks untouched.
LEMMA RollbackLoadLocal ==
    ASSUME TypeInv, NEW p \in Procs, RollbackLoad(p) PROVE Local(p)
<1> DEFINE id == op[p].id
           o == [op[p] EXCEPT !.pc = "acquire", !.row = rows[id]]
<1>1. /\ op[p] \in Op /\ Good(op[p], Created) /\ op[p].pc = "rollbackLoad"
      /\ UNCHANGED <<store, locks, live, queue, faults, history>>
  BY DEF TypeInv, TypeOK, RollbackLoad
<1>2. id \in Created /\ id # 0 /\ rows[id] \in Row
  BY <1>1, IdFacts
<1>3. "acquire" \in PCs /\ "acquire" \notin Holding
  BY DEF PCs, Holding
<1>4. o \in Op
  BY <1>1, <1>2, <1>3, OpUpdates
<1>5. o.pc = "acquire" /\ o.kind = op[p].kind /\ o.id = id /\ o.row = rows[id] /\ o.m = op[p].m
  BY <1>1 DEF Op
<1>6. op' = [op EXCEPT ![p] = o]
  BY DEF RollbackLoad
<1> HIDE DEF o
<1>7. rows[id] # NoRow
  BY <1>2 DEF Row, NoRow, NewRow, Phases
<1>8. Good(o, Created)
  BY <1>1, <1>2, <1>5, <1>7 DEF Good
<1> QED
  BY <1>1, <1>3, <1>4, <1>5, <1>6, <1>8, QuietStep DEF Local

\* RollbackLocked is a local step of its caller: types kept, locks untouched.
LEMMA RollbackLockedLocal ==
    ASSUME TypeInv, NEW p \in Procs, RollbackLocked(p) PROVE Local(p)
<1>1. /\ InCS(p) /\ op[p].kind \in {"verify", "rollback"} /\ op[p].pc = "locked"
      /\ UNCHANGED <<store, locks, live, queue, faults, history>>
  BY DEF RollbackLocked, InCS, Holding
<1>2. op[p] \in Op /\ op[p].row \in Row /\ Good(op[p], Created)
  BY <1>1, CSFacts
<1>3. op[p].id # 0 /\ op[p].m \in Manifests
  BY <1>1, <1>2 DEF Good, Op
<1>4. CASE Goto(p, "release")
  <2>1. "release" \in Holding
    BY DEF Holding
  <2> QED
    BY <1>1, <1>3, <1>4, <2>1, QuietStep, GotoInCS
<1>5. CASE Goto(p, "revert")
  <2> DEFINE o == [op[p] EXCEPT !.pc = "revert"]
  <2>1. "revert" \in PCs
    BY DEF PCs
  <2>2. o \in Op
    BY <1>2, <2>1, OpUpdates
  <2>3. /\ o.pc = "revert" /\ o.kind = op[p].kind /\ o.id = op[p].id
        /\ o.row = op[p].row /\ o.m = op[p].m
    BY <1>2 DEF Op
  <2>4. op' = [op EXCEPT ![p] = o]
    BY <1>5 DEF Goto
  <2> HIDE DEF o
  <2> QED
    BY <1>1, <1>2, <1>3, <2>2, <2>3, <2>4, RevertNext
<1> QED
  BY <1>4, <1>5 DEF RollbackLocked

\* ScheduledCreate is a local step of its caller: types kept, locks untouched.
LEMMA ScheduledCreateLocal ==
    ASSUME TypeInv, NEW p \in Procs, ScheduledCreate(p) PROVE Local(p)
<1>1. /\ InCS(p) /\ op[p].kind = "schedule"
      /\ UNCHANGED <<locks, live, queue, faults, cleared>>
  BY DEF ScheduledCreate, At, InCS, Holding
<1>2. op[p] \in Op /\ op[p].row \in Row /\ Good(op[p], Created)
  BY <1>1, CSFacts
<1>3. CASE Goto(p, "release") /\ UNCHANGED <<store, ran>>
  <2>1. UNCHANGED <<store, locks, live, queue, faults, history>>
    BY <1>1, <1>3 DEF history
  <2>2. "release" \in Holding
    BY DEF Holding
  <2> QED
    BY <1>1, <1>3, <2>1, <2>2, QuietStep, GotoInCS
<1>4. CASE /\ Created # Ids
           /\ Save(FreshId, op[p].row)
           /\ op' = [op EXCEPT ![p].pc = "fire", ![p].id = FreshId]
           /\ ran' = [ran EXCEPT ![FreshId] = live]
  <2>1. FreshId \in Ids /\ FreshId # 0
    BY <1>4, FreshIdType DEF Ids
  <2>2. StoreOK' /\ Created \subseteq Created' /\ FreshId \in Created'
    BY <1>2, <1>4, <2>1, SaveType DEF TypeInv, TypeOK, StoreOK
  <2>3. RestOK'
    <3>1. live \in Manifests \cup {Foreign, None}
      BY DEF TypeInv, TypeOK
    <3>2. ran' \in [Ids -> Manifests \cup {Foreign, None}]
      BY <1>4, <2>1, <3>1 DEF TypeInv, TypeOK
    <3> QED
      BY <1>1, <3>2 DEF RestOK, TypeInv, TypeOK
  <2> DEFINE o == [op[p] EXCEPT !.pc = "fire", !.id = FreshId]
  <2>4. "fire" \in PCs
    BY DEF PCs
  <2>5. o \in Op
    BY <1>2, <2>1, <2>4, OpUpdates
  <2>6. /\ o.pc = "fire" /\ o.kind = op[p].kind /\ o.id = FreshId
        /\ o.row = op[p].row /\ o.m = op[p].m
    BY <1>2, <2>5 DEF Op
  <2>7. op' = [op EXCEPT ![p] = o]
    BY <1>4
  <2> HIDE DEF o
  <2>8. op[p].row # NoRow
    BY <1>2 DEF Row, NoRow, NewRow, Phases
  <2>9. Good(o, Created')
    BY <1>1, <1>2, <2>1, <2>2, <2>6, <2>8 DEF Good
  <2> QED
    BY <1>1, <2>2, <2>3, <2>5, <2>7, <2>9 DEF Local
<1> QED
  BY <1>3, <1>4 DEF ScheduledCreate

\* ScheduledDeploy is a local step of its caller: types kept, locks untouched.
LEMMA ScheduledDeployLocal ==
    ASSUME TypeInv, NEW p \in Procs, ScheduledDeploy(p) PROVE Local(p)
<1>1. InCS(p) /\ op[p].pc = "fire"
  BY DEF ScheduledDeploy, InCS, Holding
<1>2. op[p] \in Op /\ Good(op[p], Created)
  BY <1>1, CSFacts
<1>3. op[p].m \in Manifests
  BY <1>1, <1>2 DEF Good, Op
<1>4. op[p].id # 0
  BY <1>1, IdFacts
<1>5. "fired" \in Holding /\ "error" \in Holding
  BY DEF Holding
<1> QED
  BY <1>1, <1>3, <1>4, <1>5, DeployedStep DEF ScheduledDeploy

\* ScheduledStore is a local step of its caller: types kept, locks untouched.
LEMMA ScheduledStoreLocal ==
    ASSUME TypeInv, NEW p \in Procs, ScheduledStore(p) PROVE Local(p)
<1>1. InCS(p) /\ op[p].pc = "fired"
  BY DEF ScheduledStore, InCS, Holding
<1>2. [op[p].row EXCEPT !.phase = "verifying"] \in Row
  BY <1>1, CSFacts, RowUpdates DEF Phases
<1>3. op[p].id # 0
  BY <1>1, IdFacts
<1> QED
  BY <1>1, <1>2, <1>3, SaveAndReleaseStep DEF ScheduledStore

\* Unschedule is a local step of its caller: types kept, locks untouched.
LEMMA UnscheduleLocal ==
    ASSUME TypeInv, NEW p \in Procs, Unschedule(p) PROVE Local(p)
<1>1. rows' = rows /\ pos' = pos /\ cleared' = cleared /\ ran' = ran
  BY DEF Unschedule, store, history
<1>2. StoreOK' /\ Created \subseteq Created'
  BY <1>1 DEF StoreOK, TypeInv, TypeOK, Created, Exists
<1>3. RestOK'
  BY <1>1 DEF Unschedule, RestOK, TypeInv, TypeOK
<1> QED
  BY <1>2, <1>3, ReturnStep DEF Unschedule

\* StoreError is a local step of its caller: types kept, locks untouched.
LEMMA StoreErrorLocal ==
    ASSUME TypeInv, NEW p \in Procs, StoreError(p) PROVE Local(p)
<1>1. op[p] \in Op /\ Good(op[p], Created)
  BY DEF TypeInv, TypeOK
<1>2. rows' = rows /\ pos' = pos /\ cleared' = cleared /\ ran' = ran
  BY DEF StoreError, store, history
<1>3. StoreOK' /\ Created' = Created
  BY <1>2 DEF StoreOK, TypeInv, TypeOK, Created, Exists
<1>4. RestOK' /\ UNCHANGED locks
  BY <1>2, EngineAssumption DEF StoreError, RestOK, TypeInv, TypeOK
<1>5. CASE op[p].pc = "record"
  <2>1. InCS(p)
    BY <1>5 DEF InCS, Holding
  <2>2. op[p].row \in Row
    BY <2>1, CSFacts
  <2>3. op[p].id # 0
    BY <1>5, IdFacts
  <2> DEFINE r == [op[p].row EXCEPT !.step = op[p].k]
             o == [op[p] EXCEPT !.pc = "drive", !.row = r]
  <2>4. r \in Row /\ "drive" \in PCs /\ "drive" \in Holding
    BY <1>1, <2>2, RowUpdates DEF Op, PCs, Holding
  <2>5. op' = [op EXCEPT ![p] = o]
    BY <1>5, <2>1 DEF StoreError
  <2> HIDE DEF r
  <2>6. o \in Op
    BY <1>1, <2>4, OpUpdates
  <2>7. o.pc = "drive" /\ o.kind = op[p].kind /\ o.id = op[p].id /\ o.row = r /\ o.m = op[p].m
    BY <1>1 DEF Op
  <2> HIDE DEF o
  <2>8. Good(o, Created)
    BY <2>1, <2>3, <2>4, <2>6, <2>7, GoodInCS
  <2> QED
    BY <1>3, <1>4, <2>1, <2>5, <2>6, <2>8 DEF Local
<1>6. CASE op[p].pc # "record" /\ InCS(p)
  <2>1. Goto(p, "release")
    BY <1>6 DEF StoreError
  <2>2. "release" \in Holding
    BY DEF Holding
  <2> QED
    BY <1>3, <1>4, <1>6, <2>1, <2>2, GotoInCS
<1>7. CASE ~InCS(p)
  <2>1. op[p].pc # "record"
    BY <1>7 DEF InCS, Holding
  <2>2. Return(p)
    BY <1>7, <2>1 DEF StoreError
  <2> QED
    BY <1>3, <1>4, <2>2, ReturnStep
<1> QED
  BY <1>5, <1>6, <1>7

(***************************************************************************)
(* The type invariant.                                                      *)
(***************************************************************************)

\* A step of one caller that is neither Acquire nor Release keeps TypeInv.
LEMMA LocalKeepsType ==
    ASSUME TypeInv, NEW p \in Procs, Local(p) PROVE TypeInv'
<1>1. PICK o \in Op : Good(o, Created') /\ op' = [op EXCEPT ![p] = o]
  BY DEF Local
<1>2. op' \in [Procs -> Op]
  BY <1>1 DEF TypeInv, TypeOK
<1>3. lease' = lease /\ held' = held
  BY DEF Local, locks
<1>4. TypeOK'
  BY <1>2, <1>3 DEF Local, StoreOK, RestOK, TypeInv, TypeOK
<1>5. ASSUME NEW q \in Procs PROVE Good(op[q], Created)'
  <2>1. CASE q = p
    BY <1>1, <2>1 DEF TypeInv, TypeOK
  <2>2. CASE q # p
    <3>1. op'[q] = op[q]
      BY <1>1, <2>2 DEF TypeInv, TypeOK
    <3>2. Good(op[q], Created) /\ Created \subseteq Created'
      BY DEF TypeInv, Local
    <3> QED
      BY <3>1, <3>2 DEF Good
  <2> QED
    BY <2>1, <2>2
<1> QED
  BY <1>4, <1>5 DEF TypeInv

\* The steps that touch the locks set only the locals of their caller.
LEMMA OpKeepsType ==
    ASSUME TypeInv, NEW p \in Procs, NEW o \in Op, Good(o, Created),
           op' = [op EXCEPT ![p] = o], UNCHANGED <<store, live, queue, faults, history>>,
           lease' \in {Free} \cup {Owner[i] : i \in Instances}, held' \in [Instances -> BOOLEAN]
    PROVE  TypeInv'
<1>1. rows' = rows /\ pos' = pos /\ cleared' = cleared /\ ran' = ran
  BY DEF store, history
<1>2. Created' = Created
  BY <1>1 DEF Created, Exists
<1>3. op' \in [Procs -> Op]
  BY DEF TypeInv, TypeOK
<1>4. TypeOK'
  BY <1>1, <1>3 DEF TypeInv, TypeOK
<1>5. \A q \in Procs : op'[q] = IF q = p THEN o ELSE op[q]
  BY DEF TypeInv, TypeOK
<1>6. \A q \in Procs : Good(op'[q], Created)
  BY <1>5 DEF TypeInv
<1> QED
  BY <1>2, <1>4, <1>6 DEF TypeInv

\* acquireTarget keeps the types, whether it succeeds or the target is busy.
LEMMA AcquireKeepsType ==
    ASSUME TypeInv, NEW p \in Procs, Acquire(p) PROVE TypeInv'
<1>1. op[p] \in Op /\ Good(op[p], Created) /\ op[p].pc = "acquire"
  BY DEF TypeInv, TypeOK, Acquire
<1>2. Home[p] \in Instances
  BY EngineAssumption
<1>3. CASE CanAcquire(Home[p])
  <2> DEFINE o == [op[p] EXCEPT !.pc = "locked"]
  <2>1. "locked" \in PCs
    BY DEF PCs
  <2>2. o \in Op
    BY <1>1, <2>1, OpUpdates
  <2>3. /\ o.pc = "locked" /\ o.kind = op[p].kind /\ o.id = op[p].id
        /\ o.row = op[p].row /\ o.m = op[p].m
    BY <1>1 DEF Op
  <2>4. op' = [op EXCEPT ![p] = o]
    BY <1>3 DEF Acquire, Goto
  <2> HIDE DEF o
  <2>5. Good(o, Created)
    BY <1>1, <2>3 DEF Good
  <2>6. lease' = Owner[Home[p]] /\ held' = [held EXCEPT ![Home[p]] = TRUE]
    BY <1>3 DEF Acquire
  <2>7. held' \in [Instances -> BOOLEAN]
    BY <2>6 DEF TypeInv, TypeOK
  <2> QED
    BY <1>2, <2>2, <2>4, <2>5, <2>6, <2>7, OpKeepsType DEF Acquire
<1>4. CASE ~CanAcquire(Home[p])
  <2>1. Good(Idle, Created)
    BY DEF Good, Idle, NoRow, NewRow
  <2>2. op' = [op EXCEPT ![p] = Idle] /\ UNCHANGED locks
    BY <1>4 DEF Acquire, Return
  <2>3. /\ lease' \in {Free} \cup {Owner[i] : i \in Instances}
        /\ held' \in [Instances -> BOOLEAN]
    BY <2>2 DEF locks, TypeInv, TypeOK
  <2> QED
    BY <2>1, <2>2, <2>3, IdleOp, OpKeepsType DEF Acquire
<1> QED
  BY <1>3, <1>4

\* The deferred release and what follows it keep the types.
LEMMA ReleaseKeepsType ==
    ASSUME TypeInv, NEW p \in Procs, Release(p) PROVE TypeInv'
<1>1. /\ op[p] \in Op /\ op[p].row \in Row /\ Good(op[p], Created) /\ op[p].pc = "release"
      /\ UNCHANGED <<store, live, queue, faults, history>>
  BY CSFacts DEF Release, InCS, Holding
<1>2. /\ lease' \in {Free} \cup {Owner[i] : i \in Instances}
      /\ held' \in [Instances -> BOOLEAN]
  BY DEF Release, TypeInv, TypeOK
<1>3. CASE Return(p)
  <2>1. Good(Idle, Created)
    BY DEF Good, Idle, NoRow, NewRow
  <2> QED
    BY <1>1, <1>2, <1>3, <2>1, IdleOp, OpKeepsType DEF Return
<1>4. CASE op[p].row.phase = "verifying" /\ op[p].kind = "schedule" /\ Goto(p, "unschedule")
  <2> DEFINE o == [op[p] EXCEPT !.pc = "unschedule"]
  <2>1. "unschedule" \in PCs
    BY DEF PCs
  <2>2. o \in Op
    BY <1>1, <2>1, OpUpdates
  <2>3. /\ o.pc = "unschedule" /\ o.kind = op[p].kind /\ o.id = op[p].id
        /\ o.row = op[p].row /\ o.m = op[p].m
    BY <1>1 DEF Op
  <2>4. op' = [op EXCEPT ![p] = o]
    BY <1>4 DEF Goto
  <2> HIDE DEF o
  <2>5. Good(o, Created)
    BY <1>1, <1>4, <2>3 DEF Good
  <2> QED
    BY <1>1, <1>2, <2>2, <2>4, <2>5, OpKeepsType
<1>5. CASE /\ op[p].row.phase = "verifying" /\ op[p].kind \in {"apply", "tick"}
           /\ op' = [op EXCEPT ![p].kind = "verify", ![p].pc = "finalize"]
  <2> DEFINE o == [op[p] EXCEPT !.kind = "verify", !.pc = "finalize"]
  <2>1. "finalize" \in PCs /\ "verify" \in Kinds
    BY DEF PCs, Kinds
  <2>2. o \in Op
    BY <1>1, <2>1, OpUpdates
  <2>3. /\ o.pc = "finalize" /\ o.kind = "verify" /\ o.id = op[p].id
        /\ o.row = op[p].row /\ o.m = op[p].m
    BY <1>1 DEF Op
  <2>4. op' = [op EXCEPT ![p] = o]
    BY <1>5
  <2> HIDE DEF o
  <2>5. op[p].row # NoRow
    BY <1>1 DEF Row, NoRow, NewRow, Phases
  <2>6. Good(o, Created)
    BY <1>1, <1>5, <2>3, <2>5 DEF Good
  <2> QED
    BY <1>1, <1>2, <2>2, <2>4, <2>6, OpKeepsType
<1>6. \/ Return(p)
      \/ op[p].row.phase = "verifying" /\ op[p].kind = "schedule" /\ Goto(p, "unschedule")
      \/ /\ op[p].row.phase = "verifying" /\ op[p].kind \in {"apply", "tick"}
         /\ op' = [op EXCEPT ![p].kind = "verify", ![p].pc = "finalize"]
  BY DEF Release, AfterRelease
<1> QED
  BY <1>3, <1>4, <1>5, <1>6

\* Every step of a caller other than Acquire and Release is local to it.
LEMMA CallerIsLocal ==
    ASSUME TypeInv, NEW p \in Procs, Starts(p) \/ Continues(p) \/ StoreError(p),
           ~Acquire(p), ~Release(p)
    PROVE  Local(p)
BY StartApplyLocal, StartTickLocal, StartControlLocal, StartRejectLocal, StartVerifyLocal,
   StartPromoteLocal, StartRollbackLocal, StartScheduledLocal, ApplyInFlightLocal,
   ApplyBaselineLocal, ApplyCreateLocal, ApplyDeployLocal, RecordStepLocal, BakeLocal,
   AdvanceStepLocal, FailLocal, StoreFailedLocal, RevertLocal, StoreRevertedLocal,
   TickLoadLocal, TickRecoverLocal, TickStepLocal, PauseOrResumeLocal, AbortLocal, ApproveLockedLocal,
   ApproveDeployLocal, ApproveStoreLocal, StoreRejectedLocal, FinalizeLocal, GatesLocal,
   PromoteLoadLocal, PromoteSaveLocal, RollbackLoadLocal, RollbackLockedLocal,
   ScheduledCreateLocal, ScheduledDeployLocal, ScheduledStoreLocal, UnscheduleLocal,
   StoreErrorLocal
   DEF Starts, Continues

\* A crash of a replica keeps the types.
LEMMA CrashKeepsType ==
    ASSUME TypeInv, NEW i \in Instances, Crash(i) PROVE TypeInv'
<1>1. rows' = rows /\ pos' = pos /\ cleared' = cleared /\ ran' = ran
  BY DEF Crash, store, history
<1>2. Created' = Created
  BY <1>1 DEF Created, Exists
<1>3. \A p \in Procs : op'[p] = IF Home[p] = i THEN Idle ELSE op[p]
  BY DEF Crash
<1>4. op' \in [Procs -> Op]
  BY IdleOp DEF Crash, TypeInv, TypeOK
<1>5. faults' \in 0..MaxFaults /\ held' \in [Instances -> BOOLEAN]
  BY EngineAssumption DEF Crash, TypeInv, TypeOK
<1>6. TypeOK'
  BY <1>1, <1>4, <1>5 DEF Crash, TypeInv, TypeOK
<1>7. Good(Idle, Created)
  BY DEF Good, Idle, NoRow, NewRow
<1>8. \A p \in Procs : Good(op'[p], Created)
  BY <1>3, <1>7 DEF TypeInv
<1> QED
  BY <1>2, <1>6, <1>8 DEF TypeInv

\* Scheduling, lease expiry and out-of-band edits keep the types.
LEMMA WorldKeepsType ==
    ASSUME TypeInv, Schedule \/ LeaseExpires \/ EditTarget PROVE TypeInv'
<1>1. op' = op /\ rows' = rows /\ pos' = pos
  BY DEF Schedule, LeaseExpires, EditTarget, store
<1>2. Created' = Created
  BY <1>1 DEF Created, Exists
<1>3. TypeOK'
  BY <1>1 DEF Schedule, LeaseExpires, EditTarget, locks, history, TypeInv, TypeOK
<1> QED
  BY <1>1, <1>2, <1>3 DEF TypeInv

\* Every step keeps the types and the locals of the callers good.
LEMMA TypeStep == TypeInv /\ [Next]_vars => TypeInv'
<1> SUFFICES ASSUME TypeInv, [Next]_vars PROVE TypeInv'
  OBVIOUS
<1>1. ASSUME NEW p \in Procs, Starts(p) \/ Continues(p) \/ StoreError(p) PROVE TypeInv'
  BY <1>1, CallerIsLocal, LocalKeepsType, AcquireKeepsType, ReleaseKeepsType
<1>2. ASSUME NEW i \in Instances, Crash(i) PROVE TypeInv'
  BY <1>2, CrashKeepsType
<1>3. CASE Schedule \/ LeaseExpires \/ EditTarget
  BY <1>3, WorldKeepsType
<1>4. CASE UNCHANGED vars
  <2>1. op' = op /\ rows' = rows /\ TypeOK'
    BY <1>4 DEF vars, TypeInv, TypeOK
  <2> QED
    BY <2>1 DEF TypeInv, Created, Exists
<1> QED
  BY <1>1, <1>2, <1>3, <1>4 DEF Next

\* Every reachable state is well typed: a stored rollout always has a manifest
\* and a phase of the statechart, and nothing but a manifest is ever deployed.
THEOREM TypeCorrect == Spec => []TypeOK
<1>1. Init => TypeInv
  BY TypeInit
<1>2. TypeInv /\ [Next]_vars => TypeInv'
  BY TypeStep
<1>3. TypeInv => TypeOK
  BY DEF TypeInv
<1> QED
  BY <1>1, <1>2, <1>3, PTL DEF Spec

(***************************************************************************)
(* Mutual exclusion.                                                        *)
(***************************************************************************)

\* What the deployment must guarantee for the lease to be a lock: replicas have
\* different owner ids, and no call outlives the TTL of its lease.
SafeLeases ==
    /\ LeaseOutlives
    /\ \A i, j \in Instances : Owner[i] = Owner[j] => i = j

\* A caller in the critical section has its replica's in-process lock, which no
\* other caller of the replica has.
LocalLock ==
    /\ \A p \in Procs : InCS(p) => held[Home[p]]
    /\ \A p, q \in Procs : InCS(p) /\ InCS(q) /\ Home[p] = Home[q] => p = q

\* The lease row names the replica of the caller in the critical section.
LeaseLock == \A p \in Procs : InCS(p) => lease = Owner[Home[p]]

\* Which callers a step leaves in the critical section.
LEMMA LocalNoEntry ==
    ASSUME TypeInv, NEW p \in Procs, Local(p)
    PROVE  lease' = lease /\ held' = held /\ \A q \in Procs : InCS(q)' => InCS(q)
<1>1. lease' = lease /\ held' = held
  BY DEF Local, locks
<1>2. PICK o \in Op : op' = [op EXCEPT ![p] = o] /\ (o.pc \in Holding => InCS(p))
  BY DEF Local
<1>3. \A q \in Procs : op'[q] = IF q = p THEN o ELSE op[q]
  BY <1>2 DEF TypeInv, TypeOK
<1> QED
  BY <1>1, <1>2, <1>3 DEF InCS

\* A failed Acquire, Release and Crash take callers out of the critical section
\* and let nobody in.
LEMMA AcquireEntry ==
    ASSUME TypeInv, NEW p \in Procs, Acquire(p)
    PROVE  \/ lease' = lease /\ held' = held /\ \A q \in Procs : InCS(q)' => InCS(q)
           \/ /\ CanAcquire(Home[p]) /\ held' = [held EXCEPT ![Home[p]] = TRUE]
              /\ lease' = Owner[Home[p]]
              /\ \A q \in Procs : InCS(q)' => InCS(q) \/ q = p
<1>1. CASE CanAcquire(Home[p])
  <2>1. \A q \in Procs : q # p => op'[q] = op[q]
    BY <1>1 DEF Acquire, Goto, TypeInv, TypeOK
  <2> QED
    BY <1>1, <2>1 DEF Acquire, InCS
<1>2. CASE ~CanAcquire(Home[p])
  <2>1. \A q \in Procs : op'[q] = IF q = p THEN Idle ELSE op[q]
    BY <1>2 DEF Acquire, Return, TypeInv, TypeOK
  <2>2. Idle.pc \notin Holding
    BY DEF Idle, Holding
  <2> QED
    BY <1>2, <2>1, <2>2 DEF Acquire, InCS, locks
<1> QED
  BY <1>1, <1>2

\* A release takes its own caller, and no other, out of the critical section.
LEMMA ReleaseExit ==
    ASSUME TypeInv, NEW p \in Procs, Release(p)
    PROVE  /\ InCS(p) /\ ~InCS(p)'
           /\ \A q \in Procs : InCS(q)' => InCS(q)
           /\ held' = [held EXCEPT ![Home[p]] = FALSE]
           /\ lease' = IF lease = Owner[Home[p]] THEN Free ELSE lease
<1>1. op[p] \in Op /\ op \in [Procs -> Op]
  BY DEF TypeInv, TypeOK
<1>2. \/ op' = [op EXCEPT ![p] = Idle]
      \/ op' = [op EXCEPT ![p].pc = "unschedule"]
      \/ op' = [op EXCEPT ![p].kind = "verify", ![p].pc = "finalize"]
  BY DEF Release, AfterRelease, Return, Goto
<1>3. op'[p].pc \in {"idle", "unschedule", "finalize"} /\ \A q \in Procs : q # p => op'[q] = op[q]
  BY <1>1, <1>2 DEF Op, Idle
<1>4. ~InCS(p)' /\ \A q \in Procs : InCS(q)' => InCS(q)
  BY <1>3 DEF InCS, Holding
<1> QED
  BY <1>4 DEF Release, InCS, Holding

\* A crash takes every caller of the replica out of the critical section.
LEMMA CrashExit ==
    ASSUME TypeInv, NEW i \in Instances, Crash(i)
    PROVE  /\ \A q \in Procs : InCS(q)' => InCS(q) /\ Home[q] # i
           /\ held' = [held EXCEPT ![i] = FALSE] /\ lease' = lease
<1>1. \A q \in Procs : op'[q] = IF Home[q] = i THEN Idle ELSE op[q]
  BY DEF Crash
<1>2. Idle.pc \notin Holding
  BY DEF Idle, Holding
<1> QED
  BY <1>1, <1>2 DEF Crash, InCS

\* Every step keeps: a caller in its critical section holds its replica's lock alone.
LEMMA LocalLockStep == TypeInv /\ LocalLock /\ [Next]_vars => LocalLock'
<1> SUFFICES ASSUME TypeInv, LocalLock, [Next]_vars PROVE LocalLock'
  OBVIOUS
<1>1. held \in [Instances -> BOOLEAN] /\ \A p \in Procs : Home[p] \in Instances
  BY EngineAssumption DEF TypeInv, TypeOK
<1>2. CASE held' = held /\ \A q \in Procs : InCS(q)' => InCS(q)
  BY <1>2 DEF LocalLock
<1>3. ASSUME NEW p \in Procs, Acquire(p) PROVE LocalLock'
  <2>1. CASE /\ CanAcquire(Home[p]) /\ held' = [held EXCEPT ![Home[p]] = TRUE]
             /\ \A q \in Procs : InCS(q)' => InCS(q) \/ q = p
    BY <1>1, <2>1 DEF LocalLock, CanAcquire
  <2> QED
    BY <1>2, <1>3, <2>1, AcquireEntry
<1>4. ASSUME NEW p \in Procs, Release(p) PROVE LocalLock'
  BY <1>1, <1>4, ReleaseExit DEF LocalLock
<1>5. ASSUME NEW i \in Instances, Crash(i) PROVE LocalLock'
  BY <1>1, <1>5, CrashExit DEF LocalLock
<1>6. ASSUME NEW p \in Procs, Starts(p) \/ Continues(p) \/ StoreError(p) PROVE LocalLock'
  BY <1>2, <1>3, <1>4, <1>6, CallerIsLocal, LocalNoEntry
<1>7. CASE Schedule \/ LeaseExpires \/ EditTarget \/ UNCHANGED vars
  <2>1. op' = op /\ held' = held
    BY <1>7 DEF Schedule, LeaseExpires, EditTarget, vars, locks
  <2> QED
    BY <1>2, <2>1 DEF InCS
<1> QED
  BY <1>5, <1>6, <1>7 DEF Next

\* Every step keeps: a caller in its critical section owns the lease, given SafeLeases.
LEMMA LeaseLockStep ==
    ASSUME SafeLeases
    PROVE  TypeInv /\ LocalLock /\ LeaseLock /\ [Next]_vars => LeaseLock'
<1> SUFFICES ASSUME TypeInv, LocalLock, LeaseLock, [Next]_vars PROVE LeaseLock'
  OBVIOUS
<1>1. \A p \in Procs : Home[p] \in Instances /\ Owner[Home[p]] # Free
  BY EngineAssumption
<1>2. CASE lease' = lease /\ \A q \in Procs : InCS(q)' => InCS(q)
  BY <1>2 DEF LeaseLock
<1>3. ASSUME NEW p \in Procs, Acquire(p) PROVE LeaseLock'
  <2>1. CASE /\ CanAcquire(Home[p]) /\ lease' = Owner[Home[p]]
             /\ \A q \in Procs : InCS(q)' => InCS(q) \/ q = p
    BY <1>1, <2>1 DEF LeaseLock, CanAcquire
  <2> QED
    BY <1>2, <1>3, <2>1, AcquireEntry
<1>4. ASSUME NEW p \in Procs, Release(p) PROVE LeaseLock'
  <2>1. ASSUME NEW q \in Procs, InCS(q)' PROVE lease' = Owner[Home[q]]
    <3>1. q # p /\ InCS(q) /\ InCS(p)
      BY <1>4, <2>1, ReleaseExit
    <3>2. Home[q] # Home[p]
      BY <3>1 DEF LocalLock
    <3>3. lease = Owner[Home[q]] /\ Owner[Home[q]] # Owner[Home[p]]
      BY <1>1, <3>1, <3>2 DEF LeaseLock, SafeLeases
    <3> QED
      BY <1>4, <3>3, ReleaseExit
  <2> QED
    BY <2>1 DEF LeaseLock
<1>5. ASSUME NEW i \in Instances, Crash(i) PROVE LeaseLock'
  BY <1>5, CrashExit DEF LeaseLock
<1>6. ASSUME NEW p \in Procs, Starts(p) \/ Continues(p) \/ StoreError(p) PROVE LeaseLock'
  BY <1>2, <1>3, <1>4, <1>6, CallerIsLocal, LocalNoEntry
<1>7. CASE LeaseExpires
  <2>1. op' = op /\ \A p \in Procs : InCS(p) => Owner[Home[p]] # lease
    BY <1>7 DEF LeaseExpires, SafeLeases
  <2>2. \A p \in Procs : ~InCS(p)
    BY <2>1 DEF LeaseLock
  <2> QED
    BY <2>1, <2>2 DEF LeaseLock, InCS
<1>8. CASE Schedule \/ EditTarget \/ UNCHANGED vars
  <2>1. op' = op /\ lease' = lease
    BY <1>8 DEF Schedule, EditTarget, vars, locks
  <2> QED
    BY <1>2, <2>1 DEF InCS
<1> QED
  BY <1>5, <1>6, <1>7, <1>8 DEF Next

\* Nobody is in the critical section at the start.
LEMMA LockInit == Init => LocalLock /\ LeaseLock
<1> SUFFICES ASSUME Init, NEW p \in Procs PROVE ~InCS(p)
  BY DEF LocalLock, LeaseLock
<1> QED
  BY DEF Init, InCS, Idle, Holding

\* Within one replica the in-process lock alone keeps two calls from working on
\* the target at the same time, whatever happens to the lease.
THEOREM ReplicaExclusion ==
    Spec => [](\A p, q \in Procs : InCS(p) /\ InCS(q) /\ Home[p] = Home[q] => p = q)
<1> DEFINE Inv == TypeInv /\ LocalLock
<1>1. Init => Inv
  BY TypeInit, LockInit
<1>2. Inv /\ [Next]_vars => Inv'
  BY TypeStep, LocalLockStep
<1>3. Inv => \A p, q \in Procs : InCS(p) /\ InCS(q) /\ Home[p] = Home[q] => p = q
  BY DEF LocalLock
<1> QED
  BY <1>1, <1>2, <1>3, PTL DEF Spec

\* Across replicas two calls never work on the target at the same time, provided
\* the replicas have different owner ids and no call outlives its lease: crashes,
\* leases left behind and refused acquisitions included.
THEOREM Exclusion == SafeLeases => (Spec => []MutualExclusion)
<1> SUFFICES ASSUME SafeLeases PROVE Spec => []MutualExclusion
  OBVIOUS
<1> DEFINE Inv == TypeInv /\ LocalLock /\ LeaseLock
<1>1. Init => Inv
  BY TypeInit, LockInit
<1>2. Inv /\ [Next]_vars => Inv'
  BY TypeStep, LocalLockStep, LeaseLockStep
<1>3. Inv => MutualExclusion
  <2> SUFFICES ASSUME Inv, NEW p \in Procs, NEW q \in Procs, InCS(p), InCS(q) PROVE p = q
    BY DEF MutualExclusion
  <2>1. Owner[Home[p]] = Owner[Home[q]]
    BY DEF LeaseLock
  <2>2. Home[p] = Home[q]
    BY <2>1, EngineAssumption DEF SafeLeases
  <2> QED
    BY <2>2 DEF LocalLock
<1> QED
  BY <1>1, <1>2, <1>3, PTL DEF Spec

(***************************************************************************)
(* Canaries.                                                                *)
(***************************************************************************)

\* The operations that act on a canary between its calls.
DriverOps == {"tick", "pause", "resume", "abort", "rollback"}

\* One caller drives canaries: the reconcile loop of the leader, or one
\* operator.  The others apply, approve, reject, verify, promote and fire
\* schedules, in any replica and any number.
OneDriver ==
    \A p, q \in Procs : CanRun[p] \cap DriverOps # {} /\ CanRun[q] \cap DriverOps # {} => p = q

Flies(r) == r.phase \in InFlightPhase
Bakes(r) == Flies(r) /\ r.snap > 0

\* A copy with a snapshot that may be stored in flight again.
Carries(o) ==
    /\ o.row.snap > 0
    /\ \/ o.pc \in {"record", "drive", "advance"}
       \/ /\ o.kind \in {"tick", "pause", "resume"} /\ o.pc \in {"acquire", "locked"}
          /\ Flies(o.row)

\* A call that created the row it works on, and has not settled it.
Owns(o) == o.kind \in {"apply", "schedule"} /\ o.id # 0 /\ o.pc \in Holding \ {"release"}

\* A call on a row that was not in flight when the call read or left it.
Past(o) ==
    \/ o.kind = "verify"
    \/ o.pc \in {"promoteSave", "reject"}
    \/ o.kind = "approve" /\ o.row.phase = "awaiting"
    \/ o.kind \in {"apply", "tick"} /\ o.pc = "release" /\ o.row.phase = "verifying"

\* Which operations reach which program points, and with which copies.
Placed(o) ==
    /\ o.pc \in {"record", "drive", "advance", "fail"} => o.kind \in {"apply", "tick"}
    /\ o.pc \in {"baseline", "create", "deploy"} => o.kind = "apply"
    /\ o.pc \in {"approve", "approved"} => o.kind = "approve"
    /\ o.pc = "reject" => o.kind = "reject"
    /\ o.pc \in {"fire", "fired"} => o.kind = "schedule"
    /\ o.pc = "error" => o.kind \in {"apply", "tick", "approve", "schedule"}
    /\ o.pc \in {"revert", "reverted"} => o.kind \in {"apply", "tick", "abort", "verify", "rollback"}
    /\ o.pc = "tickLoad" => o.kind = "tick"
    /\ o.pc \in {"finalize", "gates"} => o.kind = "verify"
    /\ o.pc = "rollbackLoad" => o.kind \in {"verify", "rollback"}
    /\ o.pc \in {"promoteLoad", "promoteSave"} => o.kind \in {"verify", "promote"}
    /\ o.pc = "promoteSave" => o.row.phase = "promoted"
    /\ o.kind = "approve" /\ o.pc \in {"approve", "approved", "error"} => o.row.phase = "awaiting"
    /\ o.kind = "tick" /\ o.pc \in (Holding \cup {"acquire"}) \ {"release"} => o.row.phase = "deploying"
    /\ o.kind = "tick" /\ o.pc \in {"record", "drive", "advance"} => o.row.snap > 0
    /\ o.kind \in {"apply", "schedule"} /\ o.pc \in {"acquire", "locked", "baseline", "create"} => o.id = 0
    /\ o.kind = "apply" /\ o.id = 0 => o.row.snap = 0 /\ o.row.phase \in {"deploying", "awaiting"}
    /\ o.kind = "schedule" /\ o.id = 0 => o.row.snap = 0 /\ o.row.phase = "deploying"

\* What the locals o of an operation say about the stored rows R: a copy that
\* carries a canary is of one, a row that was created in this call is deploying
\* without a snapshot, and a row that was past its flight still is.
Fits(o, R) ==
    /\ Placed(o)
    /\ Carries(o) => Bakes(R[o.id])
    /\ Owns(o) => /\ R[o.id].phase = "deploying" /\ R[o.id].snap = 0
                  /\ o.row.phase = "deploying" /\ o.row.snap = 0
    /\ Past(o) => ~Flies(R[o.id])

Licensed(p, o) == o.kind \in CanRun[p] \cup {"none"}

\* An Apply between its check of InFlight and the first save of a snapshot.
Clearing(o) ==
    \/ o.pc \in {"baseline", "create"}
    \/ o.kind = "apply" /\ o.pc \in {"deploy", "record", "drive", "advance"}

\* Who may save the row it holds.
Saves(o) ==
    /\ o.id \in Created
    /\ Owns(o) \/ Past(o) \/ o.kind \in DriverOps
    /\ o.pc \in Holding \/ Past(o)

\* What one step of a caller, from locals o to locals n, does to the rows:
\* nothing, a new row without a snapshot, or a save of its own row that brings
\* none into flight; and only an Apply that drives starts to bake.
Writes(o, n) ==
    \/ rows' = rows
    \/ \E id \in Ids \ Created, r \in Row :
           /\ rows' = [rows EXCEPT ![id] = r] /\ r.snap = 0 /\ n.id = id
           /\ o.pc = "create" \/ (o.pc = "locked" /\ o.kind = "schedule")
    \/ /\ Saves(o)
       /\ \E r \in Row :
              /\ rows' = [rows EXCEPT ![o.id] = r]
              /\ Flies(r) => Flies(rows[o.id])
              /\ Bakes(r) => \/ Bakes(rows[o.id])
                             \/ o.kind = "apply" /\ o.pc = "drive" /\ n.pc = "release"

Does(p) ==
    /\ Fits(op'[p], rows') /\ Licensed(p, op'[p])
    /\ Writes(op[p], op'[p])
    /\ Clearing(op'[p]) => \/ InFlight = {}
                           \/ Clearing(op[p]) /\ (op[p].id # 0 => op'[p].id = op[p].id)

\* The statechart's answers that the operations rely on.
LEMMA Charted ==
    /\ \A ph : Accepts(Resumed, ph, "REJECT") => ph = "awaiting"
    /\ \A ph : Accepts(Resumed, ph, "APPROVE") => ph = "awaiting"
    /\ \A ph : Accepts(Resumed, ph, "VERIFY_OK") => ph = "verifying"
    /\ \A ph : Accepts(Resumed, ph, "PAUSE") => ph = "deploying"
    /\ \A ph : Accepts(Resumed, ph, "RESUME") => ph = "paused"
    /\ Send(Resumed, "awaiting", "APPROVE") = "deploying"
    /\ Send(Resumed, "deploying", "DEPLOYED") = "verifying"
    /\ Send(Resumed, "deploying", "PAUSE") = "paused"
    /\ Send(Resumed, "paused", "RESUME") = "deploying"
    /\ Send(Resumed, "verifying", "VERIFY_OK") = "promoted"
<1>1. \A ph, e, to : <<ph, e, to>> \in Edges(Resumed) <=>
        <<ph, e, to>> \in {<<"pending", "VALIDATE", "validating">>,
                           <<"validating", "ERROR", "rolledback">>,
                           <<"awaiting", "REJECT", "rolledback">>,
                           <<"awaiting", "ROLLBACK", "rolledback">>,
                           <<"deploying", "DEPLOYED", "verifying">>,
                           <<"deploying", "PAUSE", "paused">>,
                           <<"deploying", "PROMOTE", "verifying">>,
                           <<"deploying", "ERROR", "rolledback">>,
                           <<"deploying", "ROLLBACK", "rolledback">>,
                           <<"paused", "RESUME", "deploying">>,
                           <<"paused", "PROMOTE", "verifying">>,
                           <<"paused", "ROLLBACK", "rolledback">>,
                           <<"verifying", "VERIFY_OK", "promoted">>,
                           <<"verifying", "ROLLBACK", "rolledback">>,
                           <<"promoted", "ROLLBACK", "rolledback">>,
                           <<"validating", "GATE", "deploying">>,
                           <<"awaiting", "APPROVE", "deploying">>}
  BY DEF Edges, Resumed
<1>2. ASSUME NEW ph, NEW e, NEW to \in Phases, \A x \in Phases : <<ph, e, x>> \in Edges(Resumed) <=> x = to
      PROVE  Send(Resumed, ph, e) = to
  BY <1>2 DEF Send, Accepts
<1>3. /\ \A x \in Phases : <<"awaiting", "APPROVE", x>> \in Edges(Resumed) <=> x = "deploying"
      /\ \A x \in Phases : <<"deploying", "DEPLOYED", x>> \in Edges(Resumed) <=> x = "verifying"
      /\ \A x \in Phases : <<"deploying", "PAUSE", x>> \in Edges(Resumed) <=> x = "paused"
      /\ \A x \in Phases : <<"paused", "RESUME", x>> \in Edges(Resumed) <=> x = "deploying"
      /\ \A x \in Phases : <<"verifying", "VERIFY_OK", x>> \in Edges(Resumed) <=> x = "promoted"
  BY <1>1
<1>4. {"deploying", "verifying", "paused", "promoted"} \subseteq Phases
  BY DEF Phases
<1>5. \A ph, to : /\ <<ph, "REJECT", to>> \in Edges(Resumed) => ph = "awaiting"
                  /\ <<ph, "APPROVE", to>> \in Edges(Resumed) => ph = "awaiting"
                  /\ <<ph, "VERIFY_OK", to>> \in Edges(Resumed) => ph = "verifying"
                  /\ <<ph, "PAUSE", to>> \in Edges(Resumed) => ph = "deploying"
                  /\ <<ph, "RESUME", to>> \in Edges(Resumed) => ph = "paused"
  BY <1>1
<1>6. \A ph, e : Accepts(Resumed, ph, e) => \E to : <<ph, e, to>> \in Edges(Resumed)
  BY DEF Accepts
<1>7. /\ \A ph : Accepts(Resumed, ph, "REJECT") => ph = "awaiting"
      /\ \A ph : Accepts(Resumed, ph, "APPROVE") => ph = "awaiting"
      /\ \A ph : Accepts(Resumed, ph, "VERIFY_OK") => ph = "verifying"
      /\ \A ph : Accepts(Resumed, ph, "PAUSE") => ph = "deploying"
      /\ \A ph : Accepts(Resumed, ph, "RESUME") => ph = "paused"
  BY <1>5, <1>6
<1> QED
  BY <1>2, <1>3, <1>4, <1>7

Able(p) == Fits(op[p], rows) /\ Licensed(p, op[p])

\* The locals of a caller after a jump.
LEMMA Jumped ==
    ASSUME TypeInv, NEW p \in Procs, NEW c, Goto(p, c)
    PROVE  /\ op'[p].pc = c /\ op'[p].kind = op[p].kind /\ op'[p].id = op[p].id
           /\ op'[p].row = op[p].row
BY DEF Goto, TypeInv, TypeOK, Op

\* A caller that returned claims nothing.
LEMMA Rested ==
    ASSUME TypeInv, NEW p \in Procs, Return(p)
    PROVE  Fits(op'[p], rows') /\ Licensed(p, op'[p]) /\ ~Clearing(op'[p])
<1>1. op'[p] = Idle
  BY DEF Return, TypeInv, TypeOK
<1> QED
  BY <1>1 DEF Idle, NoRow, NewRow, Fits, Placed, Carries, Owns, Past, Licensed, Clearing, Holding

\* The locals and the row of a caller that saved and is about to release.
LEMMA Released ==
    ASSUME TypeInv, NEW p \in Procs, NEW r \in Row, SaveAndRelease(p, r), op[p].id # 0
    PROVE  /\ op'[p].pc = "release" /\ op'[p].kind = op[p].kind /\ op'[p].id = op[p].id
           /\ op'[p].row = r /\ rows' = [rows EXCEPT ![op[p].id] = r] /\ rows'[op[p].id] = r
           /\ op[p].id \in Created
<1>1. op[p].id \in Created /\ op[p].id \in Ids
  BY DEF TypeInv, Good, Created
<1> QED
  BY <1>1 DEF SaveAndRelease, Save, TypeInv, TypeOK, Op

\* At the deferred release a caller claims at most that its row is past its flight.
LEMMA AtRelease ==
    ASSUME NEW o, NEW R, o.pc = "release", o.id # 0,
           \/ ~Flies(R[o.id])
           \/ o.kind \notin {"verify", "approve"} /\ o.row.phase # "verifying"
    PROVE  Fits(o, R) /\ ~Clearing(o)
<1>1. Placed(o) /\ ~Carries(o) /\ ~Owns(o) /\ ~Clearing(o)
  BY DEF Placed, Carries, Owns, Clearing, Holding
<1>2. Past(o) => ~Flies(R[o.id])
  BY DEF Past
<1> QED
  BY <1>1, <1>2 DEF Fits

\* A step that leaves the rows alone.
LEMMA QuietDoes ==
    ASSUME NEW p \in Procs, rows' = rows, Fits(op'[p], rows), Licensed(p, op'[p]), ~Clearing(op'[p])
    PROVE  Does(p)
BY DEF Does, Writes

\* A save of the caller's own row.
LEMMA SaveWrites ==
    ASSUME NEW p \in Procs, Saves(op[p]), NEW r \in Row, rows' = [rows EXCEPT ![op[p].id] = r],
           Flies(r) => Flies(rows[op[p].id]),
           Bakes(r) => \/ Bakes(rows[op[p].id])
                       \/ op[p].kind = "apply" /\ op[p].pc = "drive" /\ op'[p].pc = "release"
    PROVE  Writes(op[p], op'[p])
BY Zenon DEF Writes

\* Beginning an operation.
LEMMA Begun ==
    ASSUME TypeInv, NEW p \in Procs, NEW kind, NEW o, Begin(p, kind, o), rows' = rows, o.kind = kind,
           Fits(o, rows), ~Clearing(o)
    PROVE  Does(p)
<1>1. op'[p] = o /\ kind \in CanRun[p]
  BY DEF Begin, TypeInv, TypeOK
<1> QED
  BY <1>1, QuietDoes DEF Licensed

\* Every operation begins with claims that fit the rows.
LEMMA StartsDoes ==
    ASSUME TypeInv, NEW p \in Procs, Starts(p) PROVE Does(p)
<1> USE DEF store
<1>0. \A i \in Ids : rows[i] \in Row \cup {NoRow}
  BY DEF TypeInv, TypeOK
<1>1. CASE StartApply(p)
  <2>1. PICK m \in Manifests, gated \in GateModes, auto \in AutoModes :
          LET r == NewRow(Send([planProduced |-> TRUE, needsApproval |-> gated], "validating", "GATE"), m)
          IN  Begin(p, "apply", [Idle EXCEPT !.kind = "apply", !.pc = "acquire", !.row = r, !.m = m, !.auto = auto])
    BY <1>1 DEF StartApply
  <2> DEFINE ph == Send([planProduced |-> TRUE, needsApproval |-> gated], "validating", "GATE")
             o == [Idle EXCEPT !.kind = "apply", !.pc = "acquire", !.row = NewRow(ph, m), !.m = m, !.auto = auto]
  <2>2. ph \in {"deploying", "awaiting"}
    BY GateType, EngineAssumption
  <2> HIDE DEF ph
  <2>3. o.kind = "apply" /\ o.pc = "acquire" /\ o.id = 0 /\ o.row.phase = ph /\ o.row.snap = 0
    BY DEF Idle, NewRow
  <2>4. Begin(p, "apply", o) /\ rows' = rows
    BY <1>1, <2>1 DEF ph, StartApply
  <2> HIDE DEF o
  <2>5. Fits(o, rows) /\ ~Clearing(o)
    BY <2>2, <2>3 DEF Fits, Placed, Carries, Owns, Past, Clearing, Holding
  <2> QED
    BY <2>3, <2>4, <2>5, Begun
<1>2. CASE StartTick(p)
  <2>1. PICK id \in InFlight, auto \in AutoModes :
          Begin(p, "tick", [Idle EXCEPT !.kind = "tick", !.pc = "tickLoad", !.id = id, !.row = rows[id], !.auto = auto])
    BY <1>2 DEF StartTick
  <2> DEFINE o == [Idle EXCEPT !.kind = "tick", !.pc = "tickLoad", !.id = id, !.row = rows[id], !.auto = auto]
  <2>2. o.kind = "tick" /\ o.pc = "tickLoad" /\ o.id = id
    BY DEF Idle
  <2>3. Begin(p, "tick", o) /\ rows' = rows
    BY <1>2, <2>1 DEF StartTick
  <2> HIDE DEF o
  <2>4. Fits(o, rows) /\ ~Clearing(o)
    BY <2>2 DEF Fits, Placed, Carries, Owns, Past, Clearing, Holding
  <2> QED
    BY <2>2, <2>3, <2>4, Begun
<1>3. CASE StartControl(p)
  <2>1. PICK id \in Ids, kind \in {"pause", "resume", "abort", "approve"} : LoadThenLock(p, kind, id)
    BY <1>3 DEF StartControl
  <2> DEFINE o == [Idle EXCEPT !.kind = kind, !.pc = "acquire", !.id = id, !.row = rows[id]]
  <2>2. o.kind = kind /\ o.pc = "acquire" /\ o.id = id /\ o.row = rows[id]
    BY DEF Idle
  <2>3. Begin(p, kind, o) /\ rows' = rows
    BY <2>1 DEF LoadThenLock
  <2> HIDE DEF o
  <2>4. Fits(o, rows) /\ ~Clearing(o)
    BY <2>1, <2>2 DEF Fits, Placed, Carries, Owns, Past, Clearing, Holding, Flies, Bakes, InFlightPhase
  <2> QED
    BY <2>2, <2>3, <2>4, Begun
<1>4. CASE StartReject(p)
  <2>1. PICK id \in Ids : /\ Accepts(Resumed, rows[id].phase, "REJECT")
                          /\ Begin(p, "reject", [Idle EXCEPT !.kind = "reject", !.pc = "reject", !.id = id,
                                                             !.row = rows[id]])
    BY <1>4 DEF StartReject
  <2> DEFINE o == [Idle EXCEPT !.kind = "reject", !.pc = "reject", !.id = id, !.row = rows[id]]
  <2>2. o.kind = "reject" /\ o.pc = "reject" /\ o.id = id /\ rows[id].phase = "awaiting"
    BY <2>1, Charted DEF Idle
  <2>3. Begin(p, "reject", o) /\ rows' = rows
    BY <1>4, <2>1 DEF StartReject
  <2> HIDE DEF o
  <2>4. Fits(o, rows) /\ ~Clearing(o)
    BY <2>2 DEF Fits, Placed, Carries, Owns, Past, Clearing, Holding, Flies, InFlightPhase
  <2> QED
    BY <2>2, <2>3, <2>4, Begun
<1>5. CASE StartVerify(p)
  <2> DEFINE id == Newest(Created)
  <2>1. PICK auto \in AutoModes :
          Begin(p, "verify", [Idle EXCEPT !.kind = "verify", !.pc = "finalize", !.id = id, !.row = rows[id], !.auto = auto])
    BY <1>5 DEF StartVerify
  <2> DEFINE o == [Idle EXCEPT !.kind = "verify", !.pc = "finalize", !.id = id, !.row = rows[id], !.auto = auto]
  <2>2. o.kind = "verify" /\ o.pc = "finalize" /\ o.id = id /\ rows[id].phase = "verifying"
    BY <1>5 DEF Idle, StartVerify
  <2>3. Begin(p, "verify", o) /\ rows' = rows
    BY <1>5, <2>1 DEF StartVerify
  <2> HIDE DEF o
  <2>4. Fits(o, rows) /\ ~Clearing(o)
    BY <2>2 DEF Fits, Placed, Carries, Owns, Past, Clearing, Holding, Flies, InFlightPhase
  <2> QED
    BY <2>2, <2>3, <2>4, Begun
<1>6. CASE StartPromote(p)
  <2>1. PICK id \in Ids : Begin(p, "promote", [Idle EXCEPT !.kind = "promote", !.pc = "promoteLoad", !.id = id])
    BY <1>6 DEF StartPromote
  <2> DEFINE o == [Idle EXCEPT !.kind = "promote", !.pc = "promoteLoad", !.id = id]
  <2>2. o.kind = "promote" /\ o.pc = "promoteLoad"
    BY DEF Idle
  <2>3. Begin(p, "promote", o) /\ rows' = rows
    BY <1>6, <2>1 DEF StartPromote
  <2> HIDE DEF o
  <2>4. Fits(o, rows) /\ ~Clearing(o)
    BY <2>2 DEF Fits, Placed, Carries, Owns, Past, Clearing, Holding
  <2> QED
    BY <2>2, <2>3, <2>4, Begun
<1>7. CASE StartRollback(p)
  <2> DEFINE id == Newest(Created)
             m == Prior(rows[id].desired)
             o == [Idle EXCEPT !.kind = "rollback", !.id = id, !.pc = "rollbackLoad", !.m = m]
  <2>1. Begin(p, "rollback", o) /\ rows' = rows
    BY <1>7 DEF StartRollback
  <2>2. o.kind = "rollback" /\ o.pc = "rollbackLoad"
    BY DEF Idle
  <2> HIDE DEF o
  <2>3. Fits(o, rows) /\ ~Clearing(o)
    BY <2>2 DEF Fits, Placed, Carries, Owns, Past, Clearing, Holding
  <2> QED
    BY <2>1, <2>2, <2>3, Begun
<1>8. CASE StartScheduled(p)
  <2>1. PICK m \in queue : Begin(p, "schedule", [Idle EXCEPT !.kind = "schedule", !.pc = "acquire",
                                                             !.row = NewRow("deploying", m), !.m = m])
    BY <1>8 DEF StartScheduled
  <2> DEFINE o == [Idle EXCEPT !.kind = "schedule", !.pc = "acquire", !.row = NewRow("deploying", m), !.m = m]
  <2>2. o.kind = "schedule" /\ o.pc = "acquire" /\ o.id = 0 /\ o.row.phase = "deploying" /\ o.row.snap = 0
    BY DEF Idle, NewRow
  <2>3. Begin(p, "schedule", o) /\ rows' = rows
    BY <1>8, <2>1 DEF StartScheduled
  <2> HIDE DEF o
  <2>4. Fits(o, rows) /\ ~Clearing(o)
    BY <2>2 DEF Fits, Placed, Carries, Owns, Past, Clearing, Holding
  <2> QED
    BY <2>2, <2>3, <2>4, Begun
<1> QED
  BY <1>1, <1>2, <1>3, <1>4, <1>5, <1>6, <1>7, <1>8 DEF Starts

\* acquireTarget and the deferred release change no claim: a call that reached
\* verifying left its row there.
LEMMA AcquireReleaseDoes ==
    ASSUME TypeInv, NEW p \in Procs, Able(p), Acquire(p) \/ Release(p) PROVE Does(p)
<1>0. op[p] \in Op /\ Good(op[p], Created)
  BY DEF TypeInv, TypeOK
<1>1. rows' = rows
  BY DEF Acquire, Release, store
<1>2. CASE Acquire(p) /\ Goto(p, "locked")
  <2>1. op[p].pc = "acquire"
    BY <1>2 DEF Acquire
  <2>2. Fits(op'[p], rows) /\ ~Clearing(op'[p])
    BY <1>2, <2>1, Jumped DEF Able, Fits, Placed, Carries, Owns, Past, Clearing, Holding
  <2> QED
    BY <1>1, <1>2, <2>2, Jumped, QuietDoes DEF Able, Licensed
<1>3. CASE Return(p)
  BY <1>1, <1>3, Rested, QuietDoes
<1>4. CASE Release(p) /\ op[p].kind = "schedule" /\ Goto(p, "unschedule")
  <2>2. Fits(op'[p], rows) /\ ~Clearing(op'[p])
    BY <1>4, Jumped DEF Able, Fits, Placed, Carries, Owns, Past, Clearing, Holding
  <2> QED
    BY <1>1, <1>4, <2>2, Jumped, QuietDoes DEF Able, Licensed
<1>5. CASE /\ Release(p) /\ op[p].row.phase = "verifying" /\ op[p].kind \in {"apply", "tick"}
           /\ "verify" \in CanRun[p] /\ op' = [op EXCEPT ![p].kind = "verify", ![p].pc = "finalize"]
  <2>1. op'[p].kind = "verify" /\ op'[p].pc = "finalize" /\ op'[p].id = op[p].id /\ op'[p].row = op[p].row
    BY <1>5 DEF TypeInv, TypeOK, Op
  <2>2. Past(op[p])
    BY <1>5 DEF Past, Release
  <2>3. Fits(op'[p], rows) /\ ~Clearing(op'[p])
    BY <2>1, <2>2 DEF Able, Fits, Placed, Carries, Owns, Past, Clearing, Holding
  <2> QED
    BY <1>1, <1>5, <2>1, <2>3, QuietDoes DEF Licensed
<1>6. CASE Acquire(p)
  BY <1>2, <1>3, <1>6 DEF Acquire
<1>7. CASE Release(p)
  BY <1>3, <1>4, <1>5, <1>7 DEF Release, AfterRelease
<1> QED
  BY <1>6, <1>7

\* Apply: the check of InFlight clears the way, and the row that is created is
\* the call's own, without a snapshot.
LEMMA ApplyDoes ==
    ASSUME TypeInv, NEW p \in Procs, Able(p),
           ApplyInFlight(p) \/ ApplyBaseline(p) \/ ApplyCreate(p) \/ ApplyDeploy(p)
    PROVE  Does(p)
<1>0. op[p] \in Op /\ Good(op[p], Created) /\ op[p].kind = "apply"
  BY DEF TypeInv, TypeOK, ApplyInFlight, ApplyBaseline, ApplyCreate, ApplyDeploy, At
<1>1. CASE ApplyInFlight(p)
  <2>1. op[p].pc = "locked" /\ op[p].id = 0 /\ rows' = rows
    BY <1>0, <1>1 DEF ApplyInFlight, At, store, Able, Fits, Placed
  <2>2. CASE InFlight = {} /\ Goto(p, "baseline")
    <3>1. Fits(op'[p], rows) /\ Licensed(p, op'[p])
      BY <1>0, <2>1, <2>2, Jumped DEF Able, Licensed, Fits, Placed, Carries, Owns, Past, Holding
    <3> QED
      BY <2>1, <2>2, <3>1 DEF Does, Writes
  <2>3. CASE Goto(p, "release")
    <3>1. Fits(op'[p], rows) /\ ~Clearing(op'[p])
      BY <1>0, <2>1, <2>3, Jumped DEF Able, Fits, Placed, Carries, Owns, Past, Clearing, Holding
    <3> QED
      BY <2>1, <2>3, <3>1, Jumped, QuietDoes DEF Able, Licensed
  <2> QED
    BY <1>1, <2>2, <2>3 DEF ApplyInFlight
<1>2. CASE ApplyBaseline(p)
  <2>1. op[p].pc = "baseline" /\ op[p].id = 0 /\ rows' = rows
    BY <1>0, <1>2 DEF ApplyBaseline, At, store, Able, Fits, Placed
  <2>2. op[p].row \in Row
    BY <2>1, CSFacts DEF InCS, Holding
  <2>3. PICK b \in BOOLEAN : op' = [op EXCEPT ![p].pc = "create", ![p].row.blocked = b, ![p].base = live]
    BY <1>2 DEF ApplyBaseline, BaselineDiffers
  <2>4. /\ op'[p].pc = "create" /\ op'[p].kind = "apply" /\ op'[p].id = 0
        /\ op'[p].row.phase = op[p].row.phase /\ op'[p].row.snap = op[p].row.snap
    BY <1>0, <2>1, <2>2, <2>3 DEF TypeInv, TypeOK, Op, Row
  <2>5. Fits(op'[p], rows) /\ Licensed(p, op'[p]) /\ Clearing(op[p])
    BY <1>0, <2>1, <2>4 DEF Able, Licensed, Fits, Placed, Carries, Owns, Past, Clearing, Holding
  <2> QED
    BY <2>1, <2>5 DEF Does, Writes
<1>3. CASE ApplyCreate(p)
  <2>1. op[p].pc = "create" /\ op[p].id = 0 /\ op[p].row.snap = 0 /\ op[p].row.phase \in {"deploying", "awaiting"}
    BY <1>0, <1>3 DEF ApplyCreate, At, Able, Fits, Placed
  <2>2. FreshId \in Ids \ Created /\ op[p].row \in Row
    BY <1>3, <2>1, FreshIdType, CSFacts DEF ApplyCreate, InCS, Holding
  <2>3. rows' = [rows EXCEPT ![FreshId] = op[p].row] /\ rows'[FreshId] = op[p].row
    BY <1>3, <2>2 DEF ApplyCreate, Save, TypeInv, TypeOK
  <2>4. /\ op'[p].pc = (IF op[p].row.phase = "awaiting" THEN "release" ELSE "deploy")
        /\ op'[p].kind = "apply" /\ op'[p].id = FreshId /\ op'[p].row = op[p].row
    BY <1>0, <1>3 DEF ApplyCreate, TypeInv, TypeOK, Op
  <2>5. FreshId # 0
    BY <2>2 DEF Ids
  <2>6. Fits(op'[p], rows')
    BY <2>1, <2>3, <2>4, <2>5 DEF Fits, Placed, Carries, Owns, Past, Holding
  <2>7. Writes(op[p], op'[p])
    BY <2>1, <2>2, <2>3, <2>4 DEF Writes
  <2> QED
    BY <1>0, <2>1, <2>4, <2>6, <2>7 DEF Does, Able, Licensed, Clearing
<1>4. CASE ApplyDeploy(p)
  <2>1. op[p].pc = "deploy" /\ rows' = rows
    BY <1>4 DEF ApplyDeploy, At, store
  <2>2. op'[p].pc \in {"record", "fail"} /\ op'[p].kind = "apply" /\ op'[p].id = op[p].id /\ op'[p].row = op[p].row
    BY <1>0, <1>4, Jumped DEF ApplyDeploy, TypeInv, TypeOK, Op
  <2>3. op[p].id # 0
    BY <2>1, IdFacts
  <2>4. Fits(op'[p], rows)
    BY <1>0, <2>1, <2>2, <2>3 DEF Able, Fits, Placed, Carries, Owns, Past, Holding
  <2> QED
    BY <1>0, <2>1, <2>2, <2>4 DEF Does, Writes, Clearing, Able, Licensed
<1> QED
  BY <1>1, <1>2, <1>3, <1>4

\* driveStepper: an Apply drives its own row and a Tick one that bakes.
LEMMA DriveDoes ==
    ASSUME TypeInv, NEW p \in Procs, Able(p), RecordStep(p) \/ Bake(p) \/ AdvanceStep(p)
    PROVE  Does(p)
<1>0. op[p] \in Op /\ Good(op[p], Created)
  BY DEF TypeInv, TypeOK
<1>1. op[p].pc \in {"record", "drive", "advance"} /\ op[p].kind \in {"apply", "tick"}
  BY DEF RecordStep, Bake, AdvanceStep, Able, Fits, Placed
<1>2. op[p].id \in Created /\ op[p].id \in Ids /\ op[p].id # 0
  BY <1>1, IdFacts
<1>3. op[p].row \in Row /\ op[p].k \in 0..NSteps
  BY <1>0, <1>1, CSFacts DEF InCS, Holding, Op
<1>4. op[p].row.phase = "deploying" /\ op[p].kind \in DriverOps \cup {"apply"}
  BY <1>1, <1>2 DEF Able, Fits, Placed, Owns, Holding, DriverOps
<1>5. /\ op[p].kind = "apply" => Owns(op[p]) /\ op[p].row.snap = 0 /\ Flies(rows[op[p].id])
      /\ op[p].kind = "tick" => op[p].row.snap > 0 /\ Bakes(rows[op[p].id])
  BY <1>1, <1>2 DEF Able, Fits, Placed, Carries, Owns, Holding, Flies, InFlightPhase
<1>6. Saves(op[p])
  BY <1>1, <1>2, <1>4, <1>5 DEF Saves, Holding
<1>7. CASE RecordStep(p)
  <2> DEFINE r == [op[p].row EXCEPT !.step = op[p].k]
  <2>1. r \in Row /\ r.phase = "deploying" /\ r.snap = op[p].row.snap
    BY <1>3, <1>4 DEF Row
  <2>2. rows' = [rows EXCEPT ![op[p].id] = r] /\ rows'[op[p].id] = r
    BY <1>2, <1>7 DEF RecordStep, Save, TypeInv, TypeOK
  <2>3. op'[p].pc \in {"drive", "fail"} /\ op'[p].kind = op[p].kind /\ op'[p].id = op[p].id /\ op'[p].row = r
    BY <1>0, <1>7 DEF RecordStep, TypeInv, TypeOK, Op
  <2>4. op[p].pc = "record"
    BY <1>7 DEF RecordStep
  <2> HIDE DEF r
  <2>5. Fits(op'[p], rows')
    BY <1>1, <1>5, <2>1, <2>2, <2>3 DEF Fits, Placed, Carries, Owns, Past, Holding, Flies, Bakes, InFlightPhase
  <2>6. Writes(op[p], op'[p])
    <3>1. Flies(r) => Flies(rows[op[p].id])
      BY <1>1, <1>5 DEF Bakes
    <3>2. Bakes(r) => \/ Bakes(rows[op[p].id])
                      \/ op[p].kind = "apply" /\ op[p].pc = "drive" /\ op'[p].pc = "release"
      BY <1>1, <1>5, <2>1, <2>2 DEF Bakes
    <3> QED
      BY <1>6, <2>1, <2>2, <3>1, <3>2, SaveWrites
  <2> QED
    BY <1>1, <2>3, <2>4, <2>5, <2>6 DEF Does, Clearing, Able, Licensed
<1>8. CASE Bake(p)
  <2> DEFINE r == [op[p].row EXCEPT !.snap = op[p].k]
  <2>1. r \in Row /\ r.phase = "deploying"
    BY <1>3, <1>4 DEF Row
  <2>2. SaveAndRelease(p, r) /\ op[p].pc = "drive"
    BY <1>8 DEF Bake
  <2> HIDE DEF r
  <2>3. /\ op'[p].pc = "release" /\ op'[p].kind = op[p].kind /\ op'[p].id = op[p].id
        /\ op'[p].row = r /\ rows' = [rows EXCEPT ![op[p].id] = r] /\ rows'[op[p].id] = r
    BY <1>2, <2>1, <2>2, Released
  <2>4. Fits(op'[p], rows') /\ ~Clearing(op'[p])
    BY <1>1, <1>2, <2>1, <2>3, AtRelease
  <2>5. Writes(op[p], op'[p])
    <3>1. Flies(r) => Flies(rows[op[p].id])
      BY <1>1, <1>5 DEF Bakes
    <3>2. Bakes(r) => \/ Bakes(rows[op[p].id])
                      \/ op[p].kind = "apply" /\ op[p].pc = "drive" /\ op'[p].pc = "release"
      BY <1>1, <1>5, <2>1, <2>2, <2>3 DEF Bakes
    <3> QED
      BY <1>6, <2>1, <2>2, <2>3, <3>1, <3>2, SaveWrites
  <2> QED
    BY <2>3, <2>4, <2>5 DEF Does, Able, Licensed
<1>9. CASE AdvanceStep(p)
  <2>1. op[p].pc \in {"drive", "advance"}
    BY <1>9 DEF AdvanceStep
  <2>2. CASE rows' = rows /\ op' = [op EXCEPT ![p].pc = "record", ![p].k = op[p].k + 1]
    <3>1. op'[p].pc = "record" /\ op'[p].kind = op[p].kind /\ op'[p].id = op[p].id /\ op'[p].row = op[p].row
      BY <1>0, <2>2 DEF TypeInv, TypeOK, Op
    <3>2. Fits(op'[p], rows)
      BY <1>1, <1>2, <2>1, <3>1 DEF Able, Fits, Placed, Carries, Owns, Past, Holding
    <3> QED
      BY <1>1, <2>1, <2>2, <3>1, <3>2 DEF Does, Writes, Clearing, Able, Licensed
  <2>3. CASE rows' = rows /\ Goto(p, "fail")
    <3>1. Fits(op'[p], rows) /\ ~Clearing(op'[p])
      BY <1>1, <1>2, <2>1, <2>3, Jumped DEF Able, Fits, Placed, Carries, Owns, Past, Holding, Clearing
    <3> QED
      BY <2>3, <3>1, Jumped, QuietDoes DEF Able, Licensed
  <2>4. CASE SaveAndRelease(p, [op[p].row EXCEPT !.snap = op[p].k,
                                !.phase = Send(Resumed, op[p].row.phase, "DEPLOYED")])
    <3> DEFINE r == [op[p].row EXCEPT !.snap = op[p].k, !.phase = "verifying"]
    <3>1. r \in Row /\ r.phase = "verifying"
      BY <1>3 DEF Row, Phases
    <3>2. SaveAndRelease(p, r)
      BY <1>4, <2>4, Charted
    <3> HIDE DEF r
    <3>3. /\ op'[p].pc = "release" /\ op'[p].kind = op[p].kind /\ op'[p].id = op[p].id
          /\ op'[p].row = r /\ rows' = [rows EXCEPT ![op[p].id] = r] /\ rows'[op[p].id] = r
      BY <1>2, <3>1, <3>2, Released
    <3>4. Fits(op'[p], rows') /\ ~Clearing(op'[p])
      BY <1>2, <3>1, <3>3, AtRelease DEF Flies, InFlightPhase
    <3>5. Writes(op[p], op'[p])
      <4>1. ~Flies(r) /\ ~Bakes(r)
        BY <3>1 DEF Flies, Bakes, InFlightPhase
      <4> QED
        BY <1>6, <3>1, <3>3, <4>1, SaveWrites
    <3> QED
      BY <3>3, <3>4, <3>5 DEF Does, Able, Licensed
  <2> QED
    BY <1>9, <2>2, <2>3, <2>4 DEF AdvanceStep, store
<1> QED
  BY <1>7, <1>8, <1>9

\* A jump to the deferred release keeps the claims.
LEMMA LeavesDoes ==
    ASSUME TypeInv, NEW p \in Procs, Able(p), rows' = rows, Goto(p, "release"),
           op[p].kind \in {"apply", "tick"} => op[p].row.phase # "verifying"
    PROVE  Does(p)
<1>1. /\ op'[p].pc = "release" /\ op'[p].kind = op[p].kind /\ op'[p].id = op[p].id
      /\ op'[p].row = op[p].row
  BY Jumped
<1>2. Placed(op'[p]) /\ ~Carries(op'[p]) /\ ~Owns(op'[p]) /\ ~Clearing(op'[p])
  BY <1>1 DEF Able, Fits, Placed, Carries, Owns, Clearing, Holding
<1>3. Past(op'[p]) => Past(op[p])
  BY <1>1 DEF Past
<1>4. Fits(op'[p], rows) /\ Licensed(p, op'[p])
  BY <1>1, <1>2, <1>3 DEF Able, Fits, Licensed
<1> QED
  BY <1>2, <1>4, QuietDoes

\* A save that takes the caller's row out of flight.
LEMMA SettlesDoes ==
    ASSUME TypeInv, NEW p \in Procs, Able(p), Saves(op[p]), op[p].id # 0,
           NEW r \in Row, ~Flies(r), SaveAndRelease(p, r)
    PROVE  Does(p)
<1>1. /\ op'[p].pc = "release" /\ op'[p].kind = op[p].kind /\ op'[p].id = op[p].id
      /\ op'[p].row = r /\ rows' = [rows EXCEPT ![op[p].id] = r] /\ rows'[op[p].id] = r
  BY Released
<1>2. Fits(op'[p], rows') /\ ~Clearing(op'[p])
  BY <1>1, AtRelease
<1>3. ~Bakes(r)
  BY DEF Bakes
<1>4. Writes(op[p], op'[p])
  BY <1>1, <1>3, SaveWrites
<1> QED
  BY <1>1, <1>2, <1>4 DEF Does, Able, Licensed

\* The same without the lock: Promote and Reject return at once.
LEMMA SettlesUnlockedDoes ==
    ASSUME TypeInv, NEW p \in Procs, Saves(op[p]), NEW r \in Row, ~Flies(r), Save(op[p].id, r), Return(p)
    PROVE  Does(p)
<1>1. rows' = [rows EXCEPT ![op[p].id] = r] /\ ~Bakes(r)
  BY DEF Save, Bakes
<1>2. Writes(op[p], op'[p])
  BY <1>1, SaveWrites
<1> QED
  BY <1>2, Rested DEF Does

LEMMA RolledBackRests ==
    ASSUME NEW r \in Row
    PROVE  /\ RolledBack(r) \in Row /\ ~Flies(RolledBack(r))
           /\ \A m \in Manifests : /\ [RolledBack(r) EXCEPT !.desired = m] \in Row
                                   /\ ~Flies([RolledBack(r) EXCEPT !.desired = m])
BY DEF RolledBack, Row, Phases, Flies, InFlightPhase

\* A failing deploy, the rollback and what they store.
LEMMA FailDoes ==
    ASSUME TypeInv, NEW p \in Procs, Able(p),
           Fail(p) \/ StoreFailed(p) \/ Revert(p) \/ StoreReverted(p)
    PROVE  Does(p)
<1>0. op[p] \in Op /\ Good(op[p], Created)
  BY DEF TypeInv, TypeOK
<1>1. op[p].pc \in {"fail", "error", "revert", "reverted"}
  BY DEF Fail, StoreFailed, Revert, StoreReverted
<1>2. op[p].id \in Created /\ op[p].id \in Ids /\ op[p].id # 0
  BY <1>1, IdFacts
<1>3. op[p].row \in Row
  BY <1>1, CSFacts DEF InCS, Holding
<1>4. op[p].pc \in {"error", "reverted"} => Saves(op[p])
  BY <1>2 DEF Able, Fits, Placed, Saves, Owns, Past, DriverOps, Holding
<1>5. CASE Fail(p)
  <2>1. op[p].pc = "fail" /\ rows' = rows
    BY <1>5 DEF Fail, store
  <2>2. op'[p].pc \in {"revert", "error"} /\ op'[p].kind = op[p].kind /\ op'[p].id = op[p].id /\ op'[p].row = op[p].row
    BY <1>0, <1>5, Jumped DEF Fail, TypeInv, TypeOK, Op
  <2>3. Fits(op'[p], rows) /\ ~Clearing(op'[p])
    BY <1>2, <2>1, <2>2 DEF Able, Fits, Placed, Carries, Owns, Past, Holding, Clearing
  <2> QED
    BY <2>1, <2>2, <2>3, QuietDoes DEF Able, Licensed
<1>6. CASE StoreFailed(p)
  BY <1>2, <1>3, <1>4, <1>6, RolledBackRests, SettlesDoes DEF StoreFailed
<1>7. CASE Revert(p)
  <2>1. op[p].pc = "revert" /\ rows' = rows
    BY <1>7 DEF Revert, store
  <2>2. CASE /\ \/ Goto(p, "reverted")
                \/ Goto(p, "error") /\ op[p].kind \in {"apply", "tick"}
    <3>1. Fits(op'[p], rows) /\ ~Clearing(op'[p]) /\ op'[p].kind = op[p].kind
      BY <1>2, <2>1, <2>2, Jumped DEF Able, Fits, Placed, Carries, Owns, Past, Holding, Clearing
    <3> QED
      BY <2>1, <3>1, QuietDoes DEF Able, Licensed
  <2>3. CASE Goto(p, "release") /\ op[p].kind \notin {"apply", "tick"}
    BY <1>2, <2>1, <2>3, LeavesDoes
  <2> QED
    BY <1>7, <2>2, <2>3 DEF Revert, Deployed
<1>8. CASE StoreReverted(p)
  <2>1. op[p].m \in Manifests
    BY <1>0, <1>8 DEF Good, StoreReverted, Op
  <2> QED
    BY <1>2, <1>3, <1>4, <1>8, <2>1, RolledBackRests, SettlesDoes DEF StoreReverted
<1> QED
  BY <1>5, <1>6, <1>7, <1>8

\* Tick: what it loads bakes, or has no snapshot and is recovered.
LEMMA TickDoes ==
    ASSUME TypeInv, NEW p \in Procs, Able(p), TickLoad(p) \/ TickRecover(p) \/ TickStep(p)
    PROVE  Does(p)
<1>0. op[p] \in Op /\ Good(op[p], Created)
  BY DEF TypeInv, TypeOK
<1>1. op[p].kind = "tick"
  BY DEF TickLoad, TickRecover, TickStep, At, Able, Fits, Placed
<1>2. op[p].id \in Created /\ op[p].id \in Ids /\ op[p].id # 0 /\ rows[op[p].id] \in Row
  BY <1>1, IdFacts
<1>3. CASE TickLoad(p)
  <2> DEFINE r == rows[op[p].id]
  <2>1. rows' = rows
    BY <1>3 DEF TickLoad, store
  <2>2. CASE r.phase = "deploying" /\ op' = [op EXCEPT ![p].pc = "acquire", ![p].row = r]
    <3>1. op'[p].pc = "acquire" /\ op'[p].kind = "tick" /\ op'[p].id = op[p].id /\ op'[p].row = r
      BY <1>0, <1>1, <2>2 DEF TypeInv, TypeOK, Op
    <3>2. Fits(op'[p], rows) /\ ~Clearing(op'[p])
      BY <2>2, <3>1 DEF Fits, Placed, Carries, Owns, Past, Holding, Clearing, Bakes
    <3> QED
      BY <1>1, <2>1, <3>1, <3>2, QuietDoes DEF Able, Licensed
  <2>3. CASE /\ r.phase \notin {"deploying", "paused"} /\ "verify" \in CanRun[p]
             /\ op' = [op EXCEPT ![p].pc = "finalize", ![p].kind = "verify", ![p].row = r]
    <3>1. op'[p].pc = "finalize" /\ op'[p].kind = "verify" /\ op'[p].id = op[p].id /\ op'[p].row = r
      BY <1>0, <2>3 DEF TypeInv, TypeOK, Op
    <3>2. Fits(op'[p], rows) /\ ~Clearing(op'[p])
      BY <2>3, <3>1 DEF Fits, Placed, Carries, Owns, Past, Holding, Clearing, Flies, InFlightPhase
    <3> QED
      BY <2>1, <2>3, <3>1, <3>2, QuietDoes DEF Licensed
  <2>4. CASE Return(p)
    BY <2>1, <2>4, Rested, QuietDoes
  <2> QED
    BY <1>3, <2>2, <2>3, <2>4 DEF TickLoad
<1>4. CASE TickRecover(p)
  <2>1. op[p].pc = "locked" /\ op[p].row \in Row
    BY <1>4, CSFacts DEF TickRecover, At, InCS, Holding
  <2>2. Saves(op[p])
    BY <1>1, <1>2, <2>1 DEF Saves, DriverOps, Holding
  <2>3. Recovered(op[p].row) \in Row /\ ~Flies(Recovered(op[p].row))
    BY <2>1 DEF Recovered, Row, Phases, Flies, InFlightPhase
  <2> QED
    BY <1>2, <1>4, <2>2, <2>3, SettlesDoes DEF TickRecover
<1>5. CASE TickStep(p)
  <2>1. op[p].pc = "locked" /\ rows' = rows /\ op[p].row.snap > 0
    BY <1>5 DEF TickStep, At, store
  <2>2. op[p].row.phase = "deploying"
    BY <1>1, <2>1 DEF Able, Fits, Placed, Holding
  <2>3. CASE Goto(p, "release")
    BY <1>2, <2>1, <2>2, <2>3, LeavesDoes
  <2>4. CASE \/ Goto(p, "fail")
             \/ op' = [op EXCEPT ![p].k = op[p].row.snap,
                                 ![p].pc = IF op[p].row.step = op[p].row.snap THEN "advance" ELSE "record"]
    <3>1. /\ op'[p].pc \in {"fail", "advance", "record"} /\ op'[p].kind = "tick" /\ op'[p].id = op[p].id
          /\ op'[p].row = op[p].row
      BY <1>0, <1>1, <2>4, Jumped DEF TypeInv, TypeOK, Op
    <3>2. Flies(op[p].row)
      BY <2>2 DEF Flies, InFlightPhase
    <3>3. Fits(op'[p], rows) /\ ~Clearing(op'[p])
      BY <1>1, <2>1, <2>2, <3>1, <3>2 DEF Able, Fits, Placed, Carries, Owns, Past, Holding, Clearing
    <3> QED
      BY <1>1, <2>1, <3>1, <3>3, QuietDoes DEF Able, Licensed
  <2> QED
    BY <1>5, <2>3, <2>4 DEF TickStep
<1> QED
  BY <1>3, <1>4, <1>5

\* Pause and Resume store a canary that bakes; Abort takes it out of flight.
LEMMA ControlDoes ==
    ASSUME TypeInv, NEW p \in Procs, Able(p), PauseOrResume(p) \/ Abort(p)
    PROVE  Does(p)
<1>0. op[p] \in Op /\ Good(op[p], Created)
  BY DEF TypeInv, TypeOK
<1>1. op[p].pc = "locked" /\ op[p].kind \in {"pause", "resume", "abort"}
  BY DEF PauseOrResume, Abort, At
<1>2. op[p].id \in Created /\ op[p].id \in Ids /\ op[p].id # 0
  BY <1>1, IdFacts
<1>3. op[p].row \in Row
  BY <1>1, CSFacts DEF InCS, Holding
<1>4. Saves(op[p])
  BY <1>1, <1>2 DEF Saves, DriverOps, Holding
<1>5. CASE PauseOrResume(p)
  <2> DEFINE e == IF op[p].kind = "pause" THEN "PAUSE" ELSE "RESUME"
             r == [op[p].row EXCEPT !.phase = Send(Resumed, op[p].row.phase, e)]
  <2>0. op[p].kind \in {"pause", "resume"}
    BY <1>5 DEF PauseOrResume
  <2>1. CASE Goto(p, "release") /\ rows' = rows
    BY <1>1, <1>2, <2>1, LeavesDoes
  <2>2. CASE op[p].row.snap > 0 /\ Accepts(Resumed, op[p].row.phase, e) /\ SaveAndRelease(p, r)
    <3>1. op[p].row.phase \in InFlightPhase /\ Send(Resumed, op[p].row.phase, e) \in InFlightPhase
      BY <2>2, Charted DEF InFlightPhase
    <3>2. r \in Row /\ r.phase \in InFlightPhase
      BY <1>3, <3>1 DEF Row, InFlightPhase, Phases
    <3>3. Bakes(rows[op[p].id])
      BY <1>1, <2>0, <2>2, <3>1 DEF Able, Fits, Carries, Flies
    <3> HIDE DEF r
    <3>4. /\ op'[p].pc = "release" /\ op'[p].kind = op[p].kind /\ op'[p].id = op[p].id
          /\ op'[p].row = r /\ rows' = [rows EXCEPT ![op[p].id] = r]
      BY <1>2, <2>2, <3>2, Released
    <3>5. Fits(op'[p], rows') /\ ~Clearing(op'[p])
      BY <1>2, <2>0, <3>2, <3>4, AtRelease DEF InFlightPhase
    <3>6. Writes(op[p], op'[p])
      <4>1. Flies(rows[op[p].id])
        BY <3>3 DEF Bakes
      <4> QED
        BY <1>4, <3>2, <3>3, <3>4, <4>1, SaveWrites
    <3> QED
      BY <3>4, <3>5, <3>6 DEF Does, Able, Licensed
  <2> QED
    BY <1>5, <2>1, <2>2 DEF PauseOrResume, store
<1>6. CASE Abort(p)
  <2> DEFINE r == [op[p].row EXCEPT !.snap = 0]
  <2>0. r \in Row
    BY <1>3, EngineAssumption DEF Row
  <2>1. CASE rows' = rows /\ Goto(p, "release")
    BY <1>1, <1>2, <2>1, LeavesDoes
  <2>2. CASE rows' = rows /\ op' = [op EXCEPT ![p].pc = "revert", ![p].row = r, ![p].m = Prior(r.desired)]
    <3>1. op'[p].pc = "revert" /\ op'[p].kind = op[p].kind /\ op'[p].id = op[p].id
      BY <1>0, <2>2 DEF TypeInv, TypeOK, Op
    <3>2. Fits(op'[p], rows) /\ ~Clearing(op'[p])
      BY <1>1, <1>2, <1>6, <3>1 DEF Fits, Placed, Carries, Owns, Past, Clearing, Abort, At
    <3> QED
      BY <2>2, <3>1, <3>2, QuietDoes DEF Able, Licensed
  <2>3. CASE SaveAndRelease(p, RolledBack(r))
    BY <1>2, <1>4, <2>0, <2>3, RolledBackRests, SettlesDoes
  <2> QED
    BY <1>6, <2>1, <2>2, <2>3 DEF Abort, store
<1> QED
  BY <1>5, <1>6

\* Approve and Reject act on a row that waits for them.
LEMMA ApproveDoes ==
    ASSUME TypeInv, NEW p \in Procs, Able(p),
           ApproveLocked(p) \/ ApproveDeploy(p) \/ ApproveStore(p) \/ StoreRejected(p)
    PROVE  Does(p)
<1>0. op[p] \in Op /\ Good(op[p], Created)
  BY DEF TypeInv, TypeOK
<1>1. \/ op[p].kind = "approve" /\ op[p].pc \in {"locked", "approve", "approved"}
      \/ op[p].pc = "reject"
  BY DEF ApproveLocked, ApproveDeploy, ApproveStore, StoreRejected, At, Able, Fits, Placed
<1>2. op[p].id \in Created /\ op[p].id \in Ids /\ op[p].id # 0
  BY <1>1, IdFacts
<1>3. op[p].row \in Row
  <2>1. CASE op[p].pc = "reject"
    BY <1>0, <2>1 DEF Good, Op
  <2>2. CASE op[p].pc # "reject"
    BY <1>1, <2>2, CSFacts DEF InCS, Holding
  <2> QED
    BY <2>1, <2>2
<1>4. CASE ApproveLocked(p)
  <2>1. op[p].pc = "locked" /\ op[p].kind = "approve" /\ rows' = rows
    BY <1>4 DEF ApproveLocked, At, store
  <2>2. CASE Goto(p, "release")
    BY <1>2, <2>1, <2>2, LeavesDoes
  <2>3. CASE Accepts(Resumed, op[p].row.phase, "APPROVE") /\ Goto(p, "approve")
    <3>1. op[p].row.phase = "awaiting"
      BY <2>3, Charted
    <3>2. Fits(op'[p], rows) /\ ~Clearing(op'[p])
      BY <2>1, <2>3, <3>1, Jumped DEF Able, Fits, Placed, Carries, Owns, Past, Clearing
    <3> QED
      BY <2>1, <2>3, <3>2, Jumped, QuietDoes DEF Able, Licensed
  <2> QED
    BY <1>4, <2>2, <2>3 DEF ApproveLocked
<1>5. CASE ApproveDeploy(p)
  <2>1. op[p].pc = "approve" /\ op[p].kind = "approve" /\ rows' = rows
    BY <1>1, <1>5 DEF ApproveDeploy, store
  <2>2. PICK c \in {"approved", "error"} : Goto(p, c)
    BY <1>5 DEF ApproveDeploy, Deployed
  <2>3. Fits(op'[p], rows) /\ ~Clearing(op'[p])
    BY <2>1, <2>2, Jumped DEF Able, Fits, Placed, Carries, Owns, Past, Clearing
  <2> QED
    BY <2>1, <2>2, <2>3, Jumped, QuietDoes DEF Able, Licensed
<1>6. CASE ApproveStore(p)
  <2> DEFINE r == [op[p].row EXCEPT !.phase = "verifying"]
  <2>1. op[p].pc = "approved" /\ op[p].kind = "approve" /\ op[p].row.phase = "awaiting"
    BY <1>6 DEF ApproveStore, Able, Fits, Placed
  <2>2. SaveAndRelease(p, r)
    BY <1>6, <2>1, Charted DEF ApproveStore
  <2>3. r \in Row /\ ~Flies(r)
    BY <1>3 DEF Row, Phases, Flies, InFlightPhase
  <2>4. Saves(op[p])
    BY <1>2, <2>1 DEF Saves, Past, Holding
  <2> QED
    BY <1>2, <2>2, <2>3, <2>4, SettlesDoes
<1>7. CASE StoreRejected(p)
  <2>1. Saves(op[p])
    BY <1>2, <1>7 DEF StoreRejected, Saves, Past
  <2> QED
    BY <1>3, <1>7, <2>1, RolledBackRests, SettlesUnlockedDoes DEF StoreRejected
<1> QED
  BY <1>4, <1>5, <1>6, <1>7

\* The post-deploy gate and Promote act on a row that has left flight.
LEMMA VerifyDoes ==
    ASSUME TypeInv, NEW p \in Procs, Able(p),
           Finalize(p) \/ Gates(p) \/ PromoteLoad(p) \/ PromoteSave(p)
    PROVE  Does(p)
<1>0. op[p] \in Op /\ Good(op[p], Created)
  BY DEF TypeInv, TypeOK
<1>1. op[p].pc \in {"finalize", "gates", "promoteLoad", "promoteSave"}
  BY DEF Finalize, Gates, PromoteLoad, PromoteSave
<1>2. op[p].id \in Created /\ op[p].id \in Ids /\ op[p].id # 0 /\ rows[op[p].id] \in Row
  BY <1>1, IdFacts
<1>3. CASE Return(p) /\ rows' = rows
  BY <1>3, Rested, QuietDoes
<1>4. CASE Finalize(p)
  <2>1. op[p].kind = "verify" /\ rows' = rows
    BY <1>4 DEF Finalize, store, Able, Fits, Placed
  <2>2. CASE ~Return(p)
    <3>1. op'[p].pc = "gates" /\ op'[p].kind = op[p].kind /\ op'[p].id = op[p].id
      BY <1>0, <1>4, <2>2 DEF Finalize, TypeInv, TypeOK, Op
    <3>2. Fits(op'[p], rows) /\ ~Clearing(op'[p])
      BY <2>1, <3>1 DEF Able, Fits, Placed, Carries, Owns, Past, Clearing
    <3> QED
      BY <2>1, <3>1, <3>2, QuietDoes DEF Able, Licensed
  <2> QED
    BY <1>3, <2>1, <2>2
<1>5. CASE Gates(p)
  <2>1. op[p].kind = "verify" /\ rows' = rows /\ op[p].pc = "gates"
    BY <1>5 DEF Gates, store, Able, Fits, Placed
  <2>2. ASSUME NEW c \in {"promoteLoad", "rollbackLoad"}, Goto(p, c) PROVE Does(p)
    <3>1. Fits(op'[p], rows) /\ ~Clearing(op'[p])
      BY <2>1, <2>2, Jumped DEF Able, Fits, Placed, Carries, Owns, Past, Clearing
    <3> QED
      BY <2>1, <2>2, <3>1, Jumped, QuietDoes DEF Able, Licensed
  <2> QED
    BY <1>3, <1>5, <2>1, <2>2 DEF Gates
<1>6. CASE PromoteLoad(p)
  <2> DEFINE r == [rows[op[p].id] EXCEPT !.phase = "promoted"]
  <2>1. op[p].kind \in {"verify", "promote"} /\ rows' = rows
    BY <1>6 DEF PromoteLoad, store, Able, Fits, Placed
  <2>2. CASE Accepts(Resumed, rows[op[p].id].phase, "VERIFY_OK")
    <3>1. rows[op[p].id].phase = "verifying"
      BY <2>2, Charted
    <3>2. op' = [op EXCEPT ![p].pc = "promoteSave", ![p].row = r]
      BY <1>6, <2>2, <3>1, Charted DEF PromoteLoad
    <3>3. r.phase = "promoted"
      BY <1>2 DEF Row
    <3> HIDE DEF r
    <3>4. op'[p].pc = "promoteSave" /\ op'[p].kind = op[p].kind /\ op'[p].id = op[p].id /\ op'[p].row = r
      BY <1>0, <3>2 DEF TypeInv, TypeOK, Op
    <3>5. Fits(op'[p], rows) /\ ~Clearing(op'[p])
      BY <2>1, <3>1, <3>3, <3>4 DEF Fits, Placed, Carries, Owns, Past, Clearing, Holding, Flies, InFlightPhase
    <3> QED
      BY <2>1, <3>4, <3>5, QuietDoes DEF Able, Licensed
  <2> QED
    BY <1>3, <1>6, <2>1, <2>2 DEF PromoteLoad
<1>7. CASE PromoteSave(p)
  <2>1. op[p].pc = "promoteSave" /\ op[p].row.phase = "promoted"
    BY <1>7 DEF PromoteSave, Able, Fits, Placed
  <2>2. op[p].row \in Row /\ ~Flies(op[p].row)
    BY <1>0, <2>1 DEF Good, Op, Flies, InFlightPhase
  <2>3. Saves(op[p])
    BY <1>2, <2>1 DEF Saves, Past
  <2> QED
    BY <1>7, <2>2, <2>3, SettlesUnlockedDoes DEF PromoteSave
<1> QED
  BY <1>4, <1>5, <1>6, <1>7

\* A rollback loads its row before the lock; the gate's is past its flight.
LEMMA RollbackDoes ==
    ASSUME TypeInv, NEW p \in Procs, Able(p), RollbackLoad(p) \/ RollbackLocked(p)
    PROVE  Does(p)
<1>0. op[p] \in Op
  BY DEF TypeInv, TypeOK
<1>1. op[p].kind \in {"verify", "rollback"} /\ rows' = rows
  BY DEF RollbackLoad, RollbackLocked, store, Able, Fits, Placed
<1>2. op[p].id # 0
  BY <1>1, IdFacts
<1>3. CASE RollbackLoad(p)
  <2>1. op'[p].pc = "acquire" /\ op'[p].kind = op[p].kind /\ op'[p].id = op[p].id
    BY <1>0, <1>3 DEF RollbackLoad, TypeInv, TypeOK, Op
  <2>2. Fits(op'[p], rows) /\ ~Clearing(op'[p])
    BY <1>1, <2>1 DEF Able, Fits, Placed, Carries, Owns, Past, Clearing
  <2> QED
    BY <1>1, <2>1, <2>2, QuietDoes DEF Able, Licensed
<1>4. CASE RollbackLocked(p) /\ Goto(p, "revert")
  <2>1. Fits(op'[p], rows) /\ ~Clearing(op'[p])
    BY <1>1, <1>4, Jumped DEF Able, Fits, Placed, Carries, Owns, Past, Clearing
  <2> QED
    BY <1>1, <1>4, <2>1, Jumped, QuietDoes DEF Able, Licensed
<1>5. CASE Goto(p, "release")
  BY <1>1, <1>5, LeavesDoes
<1> QED
  BY <1>3, <1>4, <1>5 DEF RollbackLocked

\* A schedule that fires creates its own row, without a snapshot.
LEMMA ScheduledDoes ==
    ASSUME TypeInv, NEW p \in Procs, Able(p),
           ScheduledCreate(p) \/ ScheduledDeploy(p) \/ ScheduledStore(p) \/ Unschedule(p)
    PROVE  Does(p)
<1>0. op[p] \in Op /\ Good(op[p], Created)
  BY DEF TypeInv, TypeOK
<1>1. CASE ScheduledCreate(p)
  <2>1. /\ op[p].pc = "locked" /\ op[p].kind = "schedule" /\ op[p].id = 0
        /\ op[p].row.snap = 0 /\ op[p].row.phase = "deploying"
    BY <1>1 DEF ScheduledCreate, At, Able, Fits, Placed
  <2>2. CASE Goto(p, "release") /\ rows' = rows
    BY <2>1, <2>2, LeavesDoes
  <2>3. CASE /\ Created # Ids /\ Save(FreshId, op[p].row)
             /\ op' = [op EXCEPT ![p].pc = "fire", ![p].id = FreshId]
    <3>1. FreshId \in Ids \ Created /\ op[p].row \in Row /\ FreshId # 0
      BY <2>1, <2>3, FreshIdType, CSFacts DEF InCS, Holding, Ids
    <3>2. rows' = [rows EXCEPT ![FreshId] = op[p].row] /\ rows'[FreshId] = op[p].row
      BY <2>3, <3>1 DEF Save, TypeInv, TypeOK
    <3>3. op'[p].pc = "fire" /\ op'[p].kind = "schedule" /\ op'[p].id = FreshId /\ op'[p].row = op[p].row
      BY <1>0, <2>1, <2>3 DEF TypeInv, TypeOK, Op
    <3>4. Fits(op'[p], rows') /\ ~Clearing(op'[p])
      BY <2>1, <3>1, <3>2, <3>3 DEF Fits, Placed, Carries, Owns, Past, Clearing
    <3>5. Writes(op[p], op'[p])
      BY <2>1, <3>1, <3>2, <3>3 DEF Writes
    <3> QED
      BY <2>1, <3>3, <3>4, <3>5 DEF Does, Able, Licensed
  <2> QED
    BY <1>1, <2>2, <2>3 DEF ScheduledCreate, store
<1>2. CASE ScheduledDeploy(p)
  <2>1. op[p].pc = "fire" /\ op[p].kind = "schedule" /\ rows' = rows /\ op[p].id # 0
    BY <1>2, IdFacts DEF ScheduledDeploy, store, Able, Fits, Placed
  <2>2. PICK c \in {"fired", "error"} : Goto(p, c)
    BY <1>2 DEF ScheduledDeploy, Deployed
  <2>3. Fits(op'[p], rows) /\ ~Clearing(op'[p])
    BY <2>1, <2>2, Jumped DEF Able, Fits, Placed, Carries, Owns, Past, Clearing, Holding
  <2> QED
    BY <2>1, <2>2, <2>3, Jumped, QuietDoes DEF Able, Licensed
<1>3. CASE ScheduledStore(p)
  <2> DEFINE r == [op[p].row EXCEPT !.phase = "verifying"]
  <2>1. op[p].pc = "fired" /\ op[p].kind = "schedule" /\ SaveAndRelease(p, r)
    BY <1>3 DEF ScheduledStore, Able, Fits, Placed
  <2>2. op[p].id # 0 /\ op[p].id \in Created /\ op[p].row \in Row
    BY <2>1, IdFacts, CSFacts DEF InCS, Holding
  <2>3. r \in Row /\ ~Flies(r)
    BY <2>2 DEF Row, Phases, Flies, InFlightPhase
  <2>4. Saves(op[p])
    BY <2>1, <2>2 DEF Saves, Owns, Holding
  <2> QED
    BY <2>1, <2>2, <2>3, <2>4, SettlesDoes
<1>4. CASE Unschedule(p)
  <2>1. rows' = rows /\ Return(p)
    BY <1>4 DEF Unschedule, store
  <2> QED
    BY <2>1, Rested, QuietDoes
<1> QED
  BY <1>1, <1>2, <1>3, <1>4

\* A refused write ends the call, or leaves the step unrecorded.
LEMMA StoreErrorDoes ==
    ASSUME TypeInv, NEW p \in Procs, Able(p), StoreError(p) PROVE Does(p)
<1>0. op[p] \in Op /\ Good(op[p], Created)
  BY DEF TypeInv, TypeOK
<1>1. rows' = rows /\ op[p].pc \in SavePoints
  BY DEF StoreError, store
<1>2. CASE op[p].pc = "record"
  <2> DEFINE r == [op[p].row EXCEPT !.step = op[p].k]
  <2>1. op' = [op EXCEPT ![p].pc = "drive", ![p].row = r]
    BY <1>2 DEF StoreError, InCS, Holding
  <2>2. op[p].row \in Row /\ op[p].id # 0
    BY <1>2, CSFacts, IdFacts DEF InCS, Holding
  <2>3. r.phase = op[p].row.phase /\ r.snap = op[p].row.snap
    BY <2>2 DEF Row
  <2> HIDE DEF r
  <2>4. op'[p].pc = "drive" /\ op'[p].kind = op[p].kind /\ op'[p].id = op[p].id /\ op'[p].row = r
    BY <1>0, <2>1 DEF TypeInv, TypeOK, Op
  <2>5. Fits(op'[p], rows)
    BY <1>2, <2>2, <2>3, <2>4 DEF Able, Fits, Placed, Carries, Owns, Past, Holding
  <2> QED
    BY <1>1, <1>2, <2>4, <2>5 DEF Does, Writes, Clearing, Able, Licensed
<1>3. CASE op[p].pc # "record" /\ InCS(p)
  <2>1. Goto(p, "release")
    BY <1>3 DEF StoreError
  <2>2. op[p].kind \in {"apply", "tick"} => op[p].row.phase # "verifying"
    BY <1>1, <1>3 DEF Able, Fits, Placed, Owns, InCS, SavePoints
  <2> QED
    BY <1>1, <2>1, <2>2, LeavesDoes
<1>4. CASE ~InCS(p)
  <2>1. Return(p)
    BY <1>4 DEF StoreError, InCS, Holding
  <2> QED
    BY <1>1, <2>1, Rested, QuietDoes
<1> QED
  BY <1>2, <1>3, <1>4

\* What every step of a caller does.
LEMMA CallerDoes ==
    ASSUME TypeInv, NEW p \in Procs, Able(p), Starts(p) \/ Continues(p) \/ StoreError(p)
    PROVE  Does(p)
BY StartsDoes, AcquireReleaseDoes, ApplyDoes, DriveDoes, FailDoes, TickDoes, ControlDoes, ApproveDoes,
   VerifyDoes, RollbackDoes, ScheduledDoes, StoreErrorDoes DEF Continues

AllAble == \A p \in Procs : Able(p)

\* A step of one caller keeps what the others claim about the rows: it saves a
\* row that it created, that is past its flight or that it alone drives.
LEMMA OthersFit ==
    ASSUME OneDriver, TypeInv, MutualExclusion, AllAble,
           NEW p \in Procs, NEW q \in Procs, p # q, Writes(op[p], op'[p])
    PROVE  Fits(op[q], rows')
<1> DEFINE o == op[q]
<1>0. /\ Fits(o, rows) /\ Fits(op[p], rows) /\ Good(o, Created) /\ Licensed(p, op[p]) /\ Licensed(q, o)
      /\ rows \in [Ids -> Row \cup {NoRow}]
  BY DEF AllAble, Able, TypeInv, TypeOK
<1>1. CASE o.id # 0 => rows'[o.id] = rows[o.id]
  <2>1. o.id = 0 => ~Carries(o) /\ ~Owns(o) /\ ~Past(o)
    BY <1>0 DEF Good, Carries, Owns, Past
  <2> QED
    BY <1>0, <1>1, <2>1 DEF Fits, Bakes
<1>2. ASSUME NEW id \in Ids \ Created, NEW r \in Row, rows' = [rows EXCEPT ![id] = r]
      PROVE  Fits(o, rows')
  <2>1. o.id # 0 => o.id \in Created /\ o.id # id
    BY <1>0 DEF Good
  <2> QED
    BY <1>0, <1>1, <1>2, <2>1 DEF Created
<1>3. ASSUME Saves(op[p]), NEW r \in Row, rows' = [rows EXCEPT ![op[p].id] = r],
             Flies(r) => Flies(rows[op[p].id]), o.id = op[p].id
      PROVE  Fits(o, rows')
  <2> DEFINE i == op[p].id
  <2>1. i \in Ids /\ i # 0 /\ rows'[i] = r
    BY <1>0, <1>3 DEF Saves, Created, Ids
  <2>2. ~Carries(o)
    <3> SUFFICES ASSUME Carries(o) PROVE FALSE
      OBVIOUS
    <3>1. Bakes(rows[i]) /\ rows[i].snap > 0 /\ Flies(rows[i])
      BY <1>0, <1>3 DEF Fits, Bakes
    <3>2. ~Owns(o)
      BY <1>0 DEF Fits, Carries
    <3>3. o.kind \in {"tick", "pause", "resume"}
      BY <1>0, <1>3, <2>1, <3>2 DEF Fits, Placed, Carries, Owns, Holding
    <3>4. ~Owns(op[p]) /\ ~Past(op[p])
      BY <1>0, <3>1 DEF Fits
    <3>5. op[p].kind \in DriverOps
      BY <1>3, <3>4 DEF Saves
    <3> QED
      BY <1>0, <3>3, <3>5 DEF OneDriver, DriverOps, Licensed
  <2>3. ~Owns(o)
    <3> SUFFICES ASSUME Owns(o) PROVE FALSE
      OBVIOUS
    <3>1. InCS(q) /\ Flies(rows[i])
      BY <1>0, <1>3 DEF Fits, Owns, InCS, Flies, InFlightPhase
    <3>2. InCS(p)
      BY <1>0, <1>3, <3>1 DEF Fits, Saves, InCS
    <3> QED
      BY <3>1, <3>2 DEF MutualExclusion
  <2>4. Past(o) => ~Flies(rows'[o.id])
    BY <1>0, <1>3, <2>1 DEF Fits
  <2> QED
    BY <1>0, <2>2, <2>3, <2>4 DEF Fits
<1>4. ASSUME Saves(op[p]), NEW r \in Row, rows' = [rows EXCEPT ![op[p].id] = r],
             Flies(r) => Flies(rows[op[p].id])
      PROVE  Fits(o, rows')
  <2>1. o.id # 0 => o.id \in Ids
    BY <1>0 DEF Good, Created
  <2> QED
    BY <1>0, <1>1, <1>3, <1>4, <2>1
<1> QED
  BY <1>1, <1>2, <1>4 DEF Writes

\* No canary bakes while an Apply is on its way to the first save of one.
Unbaked == \A p \in Procs : Clearing(op[p]) => \A i \in Ids : ~Bakes(rows[i])

\* What is in flight while an Apply is on its way is the rollout it created.
Alone == \A p \in Procs : Clearing(op[p]) => \A i \in InFlight : i = op[p].id

LEMMA ClearingHolds ==
    ASSUME NEW p \in Procs, Clearing(op[p]) PROVE InCS(p)
BY DEF Clearing, InCS, Holding

\* A caller's step starts a canary only when none bakes.
LEMMA CanaryStep ==
    ASSUME TypeInv, MutualExclusion, Unbaked, AtMostOneCanary, NEW p \in Procs, Does(p),
           \A q \in Procs \ {p} : op'[q] = op[q]
    PROVE  Unbaked' /\ AtMostOneCanary'
<1>0. rows \in [Ids -> Row \cup {NoRow}]
  BY DEF TypeInv, TypeOK
<1>1. \A i, j \in Ids : Bakes(rows[i]) /\ Bakes(rows[j]) => i = j
  BY DEF AtMostOneCanary, InFlight, Bakes, Flies
<1>2. CASE \A i \in Ids : Bakes(rows'[i]) => Bakes(rows[i])
  <2>1. Clearing(op'[p]) => \A i \in Ids : ~Bakes(rows[i])
    BY DEF Does, Unbaked, InFlight, Bakes, Flies
  <2>2. Unbaked'
    BY <1>2, <2>1 DEF Unbaked
  <2>3. AtMostOneCanary'
    BY <1>1, <1>2 DEF AtMostOneCanary, InFlight, Bakes, Flies
  <2> QED
    BY <2>2, <2>3
<1>3. ASSUME NEW id \in Ids, NEW r \in Row, rows' = [rows EXCEPT ![id] = r], Bakes(r) => Bakes(rows[id])
      PROVE  \A i \in Ids : Bakes(rows'[i]) => Bakes(rows[i])
  BY <1>0, <1>3
<1>4. ASSUME NEW id \in Ids, NEW r \in Row, rows' = [rows EXCEPT ![id] = r],
             op[p].kind = "apply", op[p].pc = "drive", op'[p].pc = "release"
      PROVE  Unbaked' /\ AtMostOneCanary'
  <2>1. Clearing(op[p]) /\ ~Clearing(op'[p]) /\ InCS(p)
    BY <1>4 DEF Clearing, InCS, Holding
  <2>2. \A q \in Procs : ~Clearing(op'[q])
    BY <2>1, ClearingHolds DEF MutualExclusion
  <2>3. \A i \in Ids : Bakes(rows'[i]) => i = id
    BY <1>0, <1>4, <2>1 DEF Unbaked
  <2> QED
    BY <2>2, <2>3 DEF Unbaked, AtMostOneCanary, InFlight, Bakes, Flies
<1>5. Saves(op[p]) => op[p].id \in Ids
  BY DEF Saves, Created
<1>6. \A r \in Row : r.snap = 0 => ~Bakes(r)
  BY DEF Bakes
<1>7. CASE rows' = rows
  BY <1>2, <1>7
<1>8. CASE \E id \in Ids \ Created, r \in Row : rows' = [rows EXCEPT ![id] = r] /\ r.snap = 0
  BY <1>2, <1>3, <1>6, <1>8
<1>9. CASE /\ Saves(op[p])
           /\ \E r \in Row :
                  /\ rows' = [rows EXCEPT ![op[p].id] = r]
                  /\ Bakes(r) => \/ Bakes(rows[op[p].id])
                                 \/ op[p].kind = "apply" /\ op[p].pc = "drive" /\ op'[p].pc = "release"
  BY <1>2, <1>3, <1>4, <1>5, <1>9
<1> QED
  BY <1>7, <1>8, <1>9 DEF Does, Writes

\* Where nothing is scheduled, a caller's step brings a rollout into flight only
\* when none is.
LEMMA FlightStep ==
    ASSUME \A q \in Procs : "schedule" \notin CanRun[q],
           TypeInv, MutualExclusion, AllAble, Alone, AtMostOneInFlight, NEW p \in Procs, Does(p),
           \A q \in Procs \ {p} : op'[q] = op[q]
    PROVE  Alone' /\ AtMostOneInFlight'
<1>0. rows \in [Ids -> Row \cup {NoRow}] /\ op[p].kind # "schedule" /\ 0 \notin Ids
  BY DEF TypeInv, TypeOK, AllAble, Able, Licensed, Ids
<1>1. CASE \A i \in Ids : Flies(rows'[i]) => Flies(rows[i])
  <2>1. Clearing(op'[p]) => \A i \in InFlight : i = op'[p].id
    BY <1>0 DEF Does, Alone, InFlight
  <2>2. Alone'
    BY <1>1, <2>1 DEF Alone, InFlight, Flies
  <2>3. AtMostOneInFlight'
    BY <1>1 DEF AtMostOneInFlight, InFlight, Flies
  <2> QED
    BY <2>2, <2>3
<1>2. ASSUME NEW id \in Ids \ Created, NEW r \in Row, rows' = [rows EXCEPT ![id] = r],
             op'[p].id = id, op[p].pc = "create"
      PROVE  Alone' /\ AtMostOneInFlight'
  <2>1. Clearing(op[p]) /\ InCS(p) /\ op[p].id = 0
    BY <1>2 DEF Clearing, InCS, Holding, AllAble, Able, Fits, Placed
  <2>2. \A i \in Ids : Flies(rows'[i]) => i = id
    BY <1>0, <1>2, <2>1 DEF Alone, InFlight, Flies
  <2>3. \A q \in Procs : Clearing(op'[q]) => q = p
    BY <2>1, ClearingHolds DEF MutualExclusion
  <2> QED
    BY <1>2, <2>2, <2>3 DEF Alone, AtMostOneInFlight, InFlight, Flies
<1>3. CASE \E id \in Ids \ Created, r \in Row :
             /\ rows' = [rows EXCEPT ![id] = r] /\ op'[p].id = id
             /\ op[p].pc = "create" \/ (op[p].pc = "locked" /\ op[p].kind = "schedule")
  BY <1>0, <1>2, <1>3
<1>4. CASE /\ Saves(op[p])
           /\ \E r \in Row : rows' = [rows EXCEPT ![op[p].id] = r] /\ (Flies(r) => Flies(rows[op[p].id]))
  <2>1. op[p].id \in Ids
    BY <1>4 DEF Saves, Created
  <2> QED
    BY <1>0, <1>1, <1>4, <2>1
<1>5. CASE rows' = rows
  BY <1>1, <1>5
<1> QED
  BY <1>3, <1>4, <1>5 DEF Does, Writes

\* A caller's step leaves the locals of the others alone.
LEMMA OthersStay ==
    ASSUME TypeInv, NEW p \in Procs, Starts(p) \/ Continues(p) \/ StoreError(p)
    PROVE  \A q \in Procs \ {p} : op'[q] = op[q]
<1>1. CASE Acquire(p) \/ Release(p)
  BY <1>1 DEF Acquire, Release, AfterRelease, Goto, Return, TypeInv, TypeOK
<1>2. CASE ~Acquire(p) /\ ~Release(p)
  BY <1>2, CallerIsLocal DEF Local, TypeInv, TypeOK
<1> QED
  BY <1>1, <1>2

\* A crash and the steps of the world leave the rows alone and begin nothing.
LEMMA WorldRests ==
    ASSUME TypeInv, \/ \E i \in Instances : Crash(i)
                    \/ Schedule \/ LeaseExpires \/ EditTarget \/ UNCHANGED vars
    PROVE  rows' = rows /\ \A p \in Procs : op'[p] \in {op[p], Idle}
BY DEF Crash, Schedule, LeaseExpires, EditTarget, vars, store

LEMMA IdleClaimsNothing ==
    ASSUME NEW R
    PROVE  /\ Fits(Idle, R) /\ ~Clearing(Idle)
           /\ \A p \in Procs : Licensed(p, Idle)
BY DEF Idle, NoRow, NewRow, Fits, Placed, Carries, Owns, Past, Licensed, Clearing, Holding

LEMMA AbleStep ==
    ASSUME OneDriver, TypeInv, MutualExclusion, AllAble, [Next]_vars PROVE AllAble'
<1>1. ASSUME NEW p \in Procs, Starts(p) \/ Continues(p) \/ StoreError(p) PROVE AllAble'
  <2>1. Does(p)
    BY <1>1, CallerDoes DEF AllAble
  <2>2. \A q \in Procs \ {p} : op'[q] = op[q]
    BY <1>1, OthersStay
  <2>3. ASSUME NEW q \in Procs, q # p PROVE Fits(op'[q], rows') /\ Licensed(q, op'[q])
    BY <2>1, <2>2, <2>3, OthersFit DEF Does, AllAble, Able
  <2>4. Fits(op'[p], rows') /\ Licensed(p, op'[p])
    BY <2>1 DEF Does
  <2>5. \A q \in Procs : Fits(op'[q], rows') /\ Licensed(q, op'[q])
    BY <2>3, <2>4
  <2> QED
    BY <2>5 DEF AllAble, Able
<1>2. CASE \/ \E i \in Instances : Crash(i)
           \/ Schedule \/ LeaseExpires \/ EditTarget \/ UNCHANGED vars
  <2>1. rows' = rows /\ \A p \in Procs : op'[p] \in {op[p], Idle}
    BY <1>2, WorldRests
  <2>2. \A q \in Procs : Fits(op'[q], rows') /\ Licensed(q, op'[q])
    BY <2>1, IdleClaimsNothing DEF AllAble, Able
  <2> QED
    BY <2>2 DEF AllAble, Able
<1> QED
  BY <1>1, <1>2 DEF Next

\* Initially nothing is stored and nobody is at work.
LEMMA RestsAtFirst == Init => AllAble /\ Unbaked /\ AtMostOneCanary /\ Alone /\ AtMostOneInFlight
<1> SUFFICES ASSUME Init PROVE AllAble /\ Unbaked /\ AtMostOneCanary /\ Alone /\ AtMostOneInFlight
  OBVIOUS
<1>1. /\ \A p \in Procs : op[p] = Idle
      /\ \A i \in Ids : rows[i].phase = "none"
  BY DEF Init, NoRow, NewRow
<1>2. InFlight = {} /\ \A i \in Ids : ~Bakes(rows[i])
  BY <1>1 DEF InFlight, InFlightPhase, Bakes, Flies
<1> QED
  BY <1>1, <1>2, IdleClaimsNothing DEF AllAble, Able, Unbaked, Alone, AtMostOneCanary, AtMostOneInFlight

\* At most one canary with a snapshot is in flight at any time, whatever the
\* callers other than the one that drives canaries do, schedules that fire into
\* a canary included, and wherever a replica crashes or a write is refused.
\* Apply asks InFlight under the lock that it keeps until its first snapshot is
\* stored, and every later save of a canary is by the driver.
THEOREM OneCanary == SafeLeases /\ OneDriver => (Spec => []AtMostOneCanary)
<1> SUFFICES ASSUME SafeLeases, OneDriver PROVE Spec => []AtMostOneCanary
  OBVIOUS
<1> DEFINE Inv == TypeInv /\ AllAble /\ Unbaked /\ AtMostOneCanary
<1>1. Init => Inv
  BY TypeInit, RestsAtFirst
<1>2. Inv /\ MutualExclusion /\ [Next]_vars => Inv'
  <2> SUFFICES ASSUME Inv, MutualExclusion, [Next]_vars PROVE Inv'
    OBVIOUS
  <2>1. TypeInv' /\ AllAble'
    BY TypeStep, AbleStep
  <2>2. ASSUME NEW p \in Procs, Starts(p) \/ Continues(p) \/ StoreError(p) PROVE Unbaked' /\ AtMostOneCanary'
    <3>1. Does(p)
      BY <2>2, CallerDoes DEF AllAble
    <3> QED
      BY <2>2, <3>1, OthersStay, CanaryStep
  <2>3. CASE \/ \E i \in Instances : Crash(i)
             \/ Schedule \/ LeaseExpires \/ EditTarget \/ UNCHANGED vars
    <3>1. rows' = rows /\ \A p \in Procs : op'[p] \in {op[p], Idle}
      BY <2>3, WorldRests
    <3>2. \A p \in Procs : Clearing(op'[p]) => op'[p] = op[p]
      BY <3>1, IdleClaimsNothing
    <3>3. InFlight' = InFlight
      BY <3>1 DEF InFlight
    <3> QED
      BY <2>1, <3>1, <3>2, <3>3 DEF Unbaked, AtMostOneCanary
  <2> QED
    BY <2>1, <2>2, <2>3 DEF Next
<1>3. Spec => []MutualExclusion
  BY Exclusion
<1> QED
  BY <1>1, <1>2, <1>3, PTL DEF Spec

\* At most one rollout of the target is deploying or paused, where nothing is
\* scheduled: then only Apply creates a rollout in flight, and it has asked.
THEOREM OneInFlight ==
    SafeLeases /\ OneDriver /\ (\A p \in Procs : "schedule" \notin CanRun[p]) =>
        (Spec => []AtMostOneInFlight)
<1> SUFFICES ASSUME SafeLeases, OneDriver, \A p \in Procs : "schedule" \notin CanRun[p]
             PROVE  Spec => []AtMostOneInFlight
  OBVIOUS
<1> DEFINE Inv == TypeInv /\ AllAble /\ Alone /\ AtMostOneInFlight
<1>1. Init => Inv
  BY TypeInit, RestsAtFirst
<1>2. Inv /\ MutualExclusion /\ [Next]_vars => Inv'
  <2> SUFFICES ASSUME Inv, MutualExclusion, [Next]_vars PROVE Inv'
    OBVIOUS
  <2>1. TypeInv' /\ AllAble'
    BY TypeStep, AbleStep
  <2>2. ASSUME NEW p \in Procs, Starts(p) \/ Continues(p) \/ StoreError(p) PROVE Alone' /\ AtMostOneInFlight'
    <3>1. Does(p)
      BY <2>2, CallerDoes DEF AllAble
    <3> QED
      BY <2>2, <3>1, OthersStay, FlightStep
  <2>3. CASE \/ \E i \in Instances : Crash(i)
             \/ Schedule \/ LeaseExpires \/ EditTarget \/ UNCHANGED vars
    <3>1. rows' = rows /\ \A p \in Procs : op'[p] \in {op[p], Idle}
      BY <2>3, WorldRests
    <3>2. \A p \in Procs : Clearing(op'[p]) => op'[p] = op[p]
      BY <3>1, IdleClaimsNothing
    <3>3. InFlight' = InFlight
      BY <3>1 DEF InFlight
    <3> QED
      BY <2>1, <3>1, <3>2, <3>3 DEF Alone, AtMostOneInFlight
  <2> QED
    BY <2>1, <2>2, <2>3 DEF Next
<1>3. Spec => []MutualExclusion
  BY Exclusion
<1> QED
  BY <1>1, <1>2, <1>3, PTL DEF Spec

(***************************************************************************)
(* Copies of rows.                                                          *)
(***************************************************************************)

\* The program points at which a caller holds a copy that it may store.
CopyPCs == (Holding \ {"release"}) \cup {"acquire", "reject", "promoteSave"}
HasCopy(o) == o.kind # "none" /\ o.id # 0 /\ o.pc \in CopyPCs

\* The copy agrees with the stored row on whether rollback is blocked, and on
\* the phase; Promote has moved its copy on.
AgreesOnBlock(o, R) == HasCopy(o) => o.row.blocked = R[o.id].blocked
AgreesOnPhase(o, R) ==
    HasCopy(o) => R[o.id].phase = IF o.pc = "promoteSave" THEN "verifying" ELSE o.row.phase

\* What a caller's step, from locals o to n, does with its copy: it keeps it,
\* drops it, loads it, promotes it, creates the row from it, or stores it with
\* a phase that may follow its own and rollback blocked as it was; a tick that
\* recovers an interrupted rollout blocks it.
Holds(o, n) ==
    /\ rows' = rows /\ n.kind = o.kind /\ n.id = o.id /\ o.pc \in CopyPCs \ {"promoteSave"} /\ n.pc # "promoteSave"
    /\ n.row.phase = o.row.phase /\ n.row.blocked = o.row.blocked
Drops(n) == rows' = rows /\ ~HasCopy(n)
Loads(n) == rows' = rows /\ n.row = rows[n.id] /\ n.pc # "promoteSave"
Promotes(n) ==
    /\ rows' = rows /\ rows[n.id].phase = "verifying" /\ n.pc = "promoteSave"
    /\ n.row.blocked = rows[n.id].blocked
Creates(o, n) ==
    \E id \in Ids \ Created : /\ rows' = [rows EXCEPT ![id] = o.row]
                              /\ n.id = id /\ n.row = o.row /\ n.pc # "promoteSave"
Stores(o, n) ==
    \E r \in Row :
        /\ HasCopy(o) /\ o.id \in Created /\ rows' = [rows EXCEPT ![o.id] = r]
        /\ r.blocked = o.row.blocked \/ (r.blocked /\ o.kind = "tick" /\ o.pc = "locked")
        /\ IF o.pc = "promoteSave" THEN r.phase = "promoted" ELSE PhaseMayBecome(o.row.phase, r.phase)
        /\ HasCopy(n) => n.id = o.id /\ n.row = r /\ n.pc # "promoteSave"
Copies(o, n) == Holds(o, n) \/ Drops(n) \/ Loads(n) \/ Promotes(n) \/ Creates(o, n) \/ Stores(o, n)

\* Jumps, returns and saves.
LEMMA JumpCopies ==
    ASSUME TypeInv, NEW p \in Procs, NEW c \in Holding, Goto(p, c), rows' = rows,
           op[p].pc \in CopyPCs \ {"promoteSave"}
    PROVE  Copies(op[p], op'[p])
<1>1. Holds(op[p], op'[p])
  BY Jumped DEF Holds, Holding
<1> QED
  BY <1>1 DEF Copies

LEMMA ReturnCopies ==
    ASSUME TypeInv, NEW p \in Procs, Return(p), rows' = rows PROVE Copies(op[p], op'[p])
<1>1. op'[p] = Idle
  BY DEF Return, TypeInv, TypeOK
<1>2. Drops(op'[p])
  BY <1>1 DEF Drops, HasCopy, Idle
<1> QED
  BY <1>2 DEF Copies

LEMMA SaveCopies ==
    ASSUME TypeInv, NEW p \in Procs, op[p].kind # "none", op[p].id # 0, NEW r \in Row, SaveAndRelease(p, r),
           op[p].pc \in CopyPCs \ {"promoteSave"},
           r.blocked = op[p].row.blocked \/ (r.blocked /\ op[p].kind = "tick" /\ op[p].pc = "locked"),
           PhaseMayBecome(op[p].row.phase, r.phase)
    PROVE  Copies(op[p], op'[p])
<1>1. /\ op'[p].pc = "release" /\ op[p].id \in Created /\ rows' = [rows EXCEPT ![op[p].id] = r]
  BY Released
<1>2. ~HasCopy(op'[p])
  BY <1>1 DEF HasCopy, CopyPCs
<1>3. Stores(op[p], op'[p])
  BY <1>1, <1>2 DEF Stores, HasCopy
<1> QED
  BY <1>3 DEF Copies

\* Every rollout may end rolled back, and the other moves the operations make.
LEMMA MayBecome ==
    /\ \A ph \in Phases : PhaseMayBecome(ph, "rolledback") /\ PhaseMayBecome(ph, ph)
    /\ PhaseMayBecome("deploying", "verifying") /\ PhaseMayBecome("awaiting", "verifying")
    /\ PhaseMayBecome("deploying", "paused") /\ PhaseMayBecome("paused", "deploying")
    /\ PhaseMayBecome("verifying", "promoted")
<1>1. \A ph \in Phases : PhaseMayBecome(ph, "rolledback") /\ PhaseMayBecome(ph, ph)
  BY DEF PhaseMayBecome, After, Phases
<1>2. After("deploying") = {"deploying", "paused", "verifying", "promoted", "rolledback"}
  BY DEF After
<1>3. After("paused") = {"deploying", "paused", "verifying", "promoted", "rolledback"}
  BY DEF After
<1>4. After("verifying") = {"promoted", "rolledback"}
  BY DEF After
<1>5. After("awaiting") = Phases \ {"pending", "validating", "awaiting"}
  BY DEF After
<1>6. "verifying" \in After("awaiting")
  BY <1>5 DEF Phases
<1> QED
  BY <1>1, <1>2, <1>3, <1>4, <1>6 DEF PhaseMayBecome

\* The operations begin with the row as it is stored, or without one.
LEMMA StartsCopies ==
    ASSUME TypeInv, NEW p \in Procs, Starts(p) PROVE Copies(op[p], op'[p])
<1>1. rows' = rows
  BY DEF Starts, StartApply, StartTick, StartControl, LoadThenLock, StartReject, StartVerify, StartPromote,
         StartRollback, StartScheduled, store
<1>2. CASE StartControl(p)
  <2>1. op'[p].pc = "acquire" /\ op'[p].row = rows[op'[p].id]
    BY <1>2 DEF StartControl, LoadThenLock, Begin, Idle, TypeInv, TypeOK
  <2>2. Loads(op'[p])
    BY <1>1, <2>1 DEF Loads
  <2> QED
    BY <2>2 DEF Copies
<1>3. CASE StartReject(p)
  <2>1. op'[p].pc = "reject" /\ op'[p].row = rows[op'[p].id]
    BY <1>3 DEF StartReject, Begin, Idle, TypeInv, TypeOK
  <2>2. Loads(op'[p])
    BY <1>1, <2>1 DEF Loads
  <2> QED
    BY <2>2 DEF Copies
<1>4. CASE StartApply(p) \/ StartScheduled(p)
  <2>1. op'[p].id = 0
    <3>1. CASE StartApply(p)
      <4>1. PICK r, m, auto :
              op' = [op EXCEPT ![p] = [Idle EXCEPT !.kind = "apply", !.pc = "acquire", !.row = r, !.m = m,
                                                   !.auto = auto]]
        BY <3>1 DEF StartApply, Begin
      <4> QED
        BY <4>1 DEF Idle, TypeInv, TypeOK
    <3>2. CASE StartScheduled(p)
      <4>1. PICK m :
              op' = [op EXCEPT ![p] = [Idle EXCEPT !.kind = "schedule", !.pc = "acquire",
                                                   !.row = NewRow("deploying", m), !.m = m]]
        BY <3>2 DEF StartScheduled, Begin
      <4> QED
        BY <4>1 DEF Idle, TypeInv, TypeOK
    <3> QED
      BY <1>4, <3>1, <3>2
  <2>2. Drops(op'[p])
    BY <1>1, <2>1 DEF Drops, HasCopy, TypeInv, TypeOK
  <2> QED
    BY <2>2 DEF Copies
<1>5. CASE StartTick(p) \/ StartVerify(p) \/ StartPromote(p) \/ StartRollback(p)
  <2>1. op'[p].pc \in {"tickLoad", "finalize", "promoteLoad", "rollbackLoad"}
    <3>1. CASE StartTick(p)
      <4>1. PICK id, auto :
              op' = [op EXCEPT ![p] = [Idle EXCEPT !.kind = "tick", !.pc = "tickLoad", !.id = id,
                                                   !.row = rows[id], !.auto = auto]]
        BY <3>1 DEF StartTick, Begin
      <4> QED
        BY <4>1 DEF Idle, TypeInv, TypeOK
    <3>2. CASE StartVerify(p)
      <4>1. PICK id, auto :
              op' = [op EXCEPT ![p] = [Idle EXCEPT !.kind = "verify", !.pc = "finalize", !.id = id,
                                                   !.row = rows[id], !.auto = auto]]
        BY <3>2 DEF StartVerify, Begin
      <4> QED
        BY <4>1 DEF Idle, TypeInv, TypeOK
    <3>3. CASE StartPromote(p)
      <4>1. PICK id :
              op' = [op EXCEPT ![p] = [Idle EXCEPT !.kind = "promote", !.pc = "promoteLoad", !.id = id]]
        BY <3>3 DEF StartPromote, Begin
      <4> QED
        BY <4>1 DEF Idle, TypeInv, TypeOK
    <3>4. CASE StartRollback(p)
      <4>1. PICK id, m :
              op' = [op EXCEPT ![p] = [Idle EXCEPT !.kind = "rollback", !.id = id, !.pc = "rollbackLoad", !.m = m]]
        BY <3>4 DEF StartRollback, Begin
      <4> QED
        BY <4>1 DEF Idle, TypeInv, TypeOK
    <3> QED
      BY <1>5, <3>1, <3>2, <3>3, <3>4
  <2>2. Drops(op'[p])
    BY <1>1, <2>1 DEF Drops, HasCopy, CopyPCs, Holding, TypeInv, TypeOK
  <2> QED
    BY <2>2 DEF Copies
<1> QED
  BY <1>2, <1>3, <1>4, <1>5 DEF Starts

\* The lock: the copy is kept into the critical section and dropped after it.
LEMMA LockCopies ==
    ASSUME TypeInv, NEW p \in Procs, Acquire(p) \/ Release(p) PROVE Copies(op[p], op'[p])
<1>1. rows' = rows /\ op[p] \in Op
  BY DEF Acquire, Release, store, TypeInv, TypeOK
<1>2. CASE Return(p)
  BY <1>1, <1>2, ReturnCopies
<1>3. CASE op[p].pc = "acquire" /\ Goto(p, "locked")
  BY <1>1, <1>3, JumpCopies DEF CopyPCs, Holding
<1>4. CASE Release(p) /\ ~Return(p)
  <2>1. op'[p].pc \in {"unschedule", "finalize"}
    BY <1>1, <1>4 DEF Release, AfterRelease, Goto, TypeInv, TypeOK, Op
  <2>2. Drops(op'[p])
    BY <1>1, <2>1 DEF Drops, HasCopy, CopyPCs, Holding
  <2> QED
    BY <2>2 DEF Copies
<1> QED
  BY <1>2, <1>3, <1>4 DEF Acquire

\* Apply has no row until it creates one from its copy.
LEMMA ApplyCopies ==
    ASSUME TypeInv, NEW p \in Procs, Able(p),
           ApplyInFlight(p) \/ ApplyBaseline(p) \/ ApplyCreate(p) \/ ApplyDeploy(p)
    PROVE  Copies(op[p], op'[p])
<1>0. op[p] \in Op
  BY DEF TypeInv, TypeOK
<1>1. CASE ApplyInFlight(p)
  <2>1. \E c \in Holding : Goto(p, c)
    BY <1>1 DEF ApplyInFlight, Holding
  <2> QED
    BY <1>1, <2>1, JumpCopies DEF ApplyInFlight, At, store, CopyPCs, Holding
<1>2. CASE ApplyBaseline(p)
  <2>1. op[p].id = 0 /\ rows' = rows
    BY <1>2 DEF ApplyBaseline, At, store, Able, Fits, Placed
  <2>2. PICK b \in BOOLEAN : op' = [op EXCEPT ![p].pc = "create", ![p].row.blocked = b, ![p].base = live]
    BY <1>2 DEF ApplyBaseline, BaselineDiffers
  <2>3. op'[p].id = 0
    BY <1>0, <2>1, <2>2 DEF TypeInv, TypeOK, Op
  <2>4. Drops(op'[p])
    BY <2>1, <2>3 DEF Drops, HasCopy
  <2> QED
    BY <2>4 DEF Copies
<1>3. CASE ApplyCreate(p)
  <2>1. FreshId \in Ids \ Created
    BY <1>3, FreshIdType DEF ApplyCreate
  <2>2. /\ op'[p].pc = (IF op[p].row.phase = "awaiting" THEN "release" ELSE "deploy")
        /\ op'[p].id = FreshId /\ op'[p].row = op[p].row
    BY <1>0, <1>3 DEF ApplyCreate, TypeInv, TypeOK, Op
  <2>3. rows' = [rows EXCEPT ![FreshId] = op[p].row]
    BY <1>3 DEF ApplyCreate, Save
  <2>4. Creates(op[p], op'[p])
    BY <2>1, <2>2, <2>3 DEF Creates
  <2> QED
    BY <2>4 DEF Copies
<1>4. CASE ApplyDeploy(p)
  <2>1. op[p].pc = "deploy" /\ rows' = rows
    BY <1>4 DEF ApplyDeploy, At, store
  <2>2. CASE Goto(p, "fail")
    BY <2>1, <2>2, JumpCopies DEF CopyPCs, Holding
  <2>3. CASE op' = [op EXCEPT ![p].pc = "record", ![p].k = 1]
    <3>1. op'[p].pc = "record" /\ op'[p].kind = op[p].kind /\ op'[p].id = op[p].id /\ op'[p].row = op[p].row
      BY <1>0, <2>3 DEF TypeInv, TypeOK, Op
    <3>2. Holds(op[p], op'[p])
      BY <2>1, <3>1 DEF Holds, CopyPCs, Holding
    <3> QED
      BY <3>2 DEF Copies
  <2> QED
    BY <1>4, <2>2, <2>3 DEF ApplyDeploy
<1> QED
  BY <1>1, <1>2, <1>3, <1>4

\* driveStepper and failProgressive work on the copy of a rollout that deploys.
LEMMA DriveCopies ==
    ASSUME TypeInv, NEW p \in Procs, Able(p),
           RecordStep(p) \/ Bake(p) \/ AdvanceStep(p) \/ Fail(p) \/ StoreFailed(p) \/ Revert(p) \/ StoreReverted(p)
    PROVE  Copies(op[p], op'[p])
<1>0. op[p] \in Op /\ op[p].k \in 0..NSteps
  BY DEF TypeInv, TypeOK, Op
<1>1. op[p].pc \in {"record", "drive", "advance", "fail", "error", "revert", "reverted"}
  BY DEF RecordStep, Bake, AdvanceStep, Fail, StoreFailed, Revert, StoreReverted
<1>2. op[p].pc \in CopyPCs \ {"promoteSave"} /\ InCS(p)
  BY <1>1 DEF CopyPCs, Holding, InCS
<1>3. /\ op[p].id \in Created /\ op[p].id # 0 /\ op[p].row \in Row /\ op[p].row.phase \in Phases
      /\ op[p].kind # "none"
  BY <1>1, <1>2, IdFacts, CSFacts DEF Row, Able, Fits, Placed
<1>4. CASE RecordStep(p)
  <2> DEFINE r == [op[p].row EXCEPT !.step = op[p].k]
  <2>1. r \in Row /\ r.phase = op[p].row.phase /\ r.blocked = op[p].row.blocked
    BY <1>0, <1>3 DEF Row
  <2>2. rows' = [rows EXCEPT ![op[p].id] = r]
    BY <1>4 DEF RecordStep, Save
  <2>3. op'[p].id = op[p].id /\ op'[p].row = r /\ op'[p].pc # "promoteSave"
    BY <1>0, <1>4 DEF RecordStep, TypeInv, TypeOK, Op
  <2> HIDE DEF r
  <2>4. Stores(op[p], op'[p])
    BY <1>2, <1>3, <2>1, <2>2, <2>3, MayBecome DEF Stores, HasCopy
  <2> QED
    BY <2>4 DEF Copies
<1>5. CASE Bake(p)
  <2> DEFINE r == [op[p].row EXCEPT !.snap = op[p].k]
  <2>1. r \in Row /\ r.phase = op[p].row.phase /\ r.blocked = op[p].row.blocked /\ SaveAndRelease(p, r)
    BY <1>0, <1>3, <1>5 DEF Row, Bake
  <2> QED
    BY <1>2, <1>3, <2>1, MayBecome, SaveCopies
<1>6. CASE AdvanceStep(p)
  <2>1. CASE rows' = rows /\ Goto(p, "fail")
    BY <1>2, <2>1, JumpCopies DEF Holding
  <2>2. CASE rows' = rows /\ op' = [op EXCEPT ![p].pc = "record", ![p].k = op[p].k + 1]
    <3>1. op'[p].pc = "record" /\ op'[p].kind = op[p].kind /\ op'[p].id = op[p].id /\ op'[p].row = op[p].row
      BY <1>0, <2>2 DEF TypeInv, TypeOK, Op
    <3>2. Holds(op[p], op'[p])
      BY <1>2, <2>2, <3>1 DEF Holds
    <3> QED
      BY <3>2 DEF Copies
  <2>3. CASE SaveAndRelease(p, [op[p].row EXCEPT !.snap = op[p].k,
                                !.phase = Send(Resumed, op[p].row.phase, "DEPLOYED")])
    <3> DEFINE r == [op[p].row EXCEPT !.snap = op[p].k, !.phase = "verifying"]
    <3>1. op[p].row.phase = "deploying"
      BY <1>3, <1>6 DEF AdvanceStep, Able, Fits, Placed, Owns, Holding
    <3>2. r \in Row /\ r.phase = "verifying" /\ r.blocked = op[p].row.blocked
      BY <1>0, <1>3 DEF Row, Phases
    <3>3. SaveAndRelease(p, r)
      BY <2>3, <3>1, Charted
    <3> HIDE DEF r
    <3> QED
      BY <1>2, <1>3, <3>1, <3>2, <3>3, MayBecome, SaveCopies
  <2> QED
    BY <1>6, <2>1, <2>2, <2>3 DEF AdvanceStep, store
<1>7. CASE Fail(p)
  <2>1. /\ op'[p].pc # "promoteSave" /\ op'[p].kind = op[p].kind /\ op'[p].id = op[p].id
        /\ op'[p].row = op[p].row /\ rows' = rows
    BY <1>0, <1>7 DEF Fail, Goto, store, TypeInv, TypeOK, Op
  <2>2. Holds(op[p], op'[p])
    BY <1>2, <2>1 DEF Holds
  <2> QED
    BY <2>2 DEF Copies
<1>8. CASE Revert(p)
  <2>1. \E c \in {"reverted", "error", "release"} : Goto(p, c)
    BY <1>8 DEF Revert, Deployed
  <2> QED
    BY <1>2, <1>8, <2>1, JumpCopies DEF Revert, store, Holding
<1>9. CASE StoreFailed(p) \/ StoreReverted(p)
  <2>1. /\ RolledBack(op[p].row) \in Row
        /\ RolledBack(op[p].row).phase = "rolledback" /\ RolledBack(op[p].row).blocked = op[p].row.blocked
    BY <1>3 DEF RolledBack, Row, Phases
  <2>2. PICK r \in Row : /\ SaveAndRelease(p, r)
                         /\ r.phase = "rolledback" /\ r.blocked = op[p].row.blocked
    <3>1. CASE StoreFailed(p)
      BY <2>1, <3>1 DEF StoreFailed
    <3>2. CASE StoreReverted(p)
      <4> DEFINE r == [RolledBack(op[p].row) EXCEPT !.desired = op[p].m]
      <4>1. op[p].m \in Manifests
        BY <3>2 DEF StoreReverted, TypeInv, TypeOK, Good, Op
      <4>2. r \in Row /\ r.phase = "rolledback" /\ r.blocked = op[p].row.blocked
        BY <2>1, <4>1 DEF Row
      <4> QED
        BY <3>2, <4>2 DEF StoreReverted
    <3> QED
      BY <1>9, <3>1, <3>2
  <2> QED
    BY <1>2, <1>3, <2>2, MayBecome, SaveCopies
<1> QED
  BY <1>4, <1>5, <1>6, <1>7, <1>8, <1>9

\* Tick loads its copy before the lock, as Rollback does.
LEMMA TickCopies ==
    ASSUME TypeInv, NEW p \in Procs, Able(p),
           TickLoad(p) \/ TickRecover(p) \/ TickStep(p) \/ RollbackLoad(p) \/ RollbackLocked(p)
    PROVE  Copies(op[p], op'[p])
<1>0. op[p] \in Op
  BY DEF TypeInv, TypeOK
<1>1. CASE Return(p) /\ rows' = rows
  BY <1>1, ReturnCopies
<1>2. ASSUME op[p].pc \in {"tickLoad", "rollbackLoad"}, rows' = rows,
             op' = [op EXCEPT ![p].pc = "acquire", ![p].row = rows[op[p].id]]
      PROVE  Copies(op[p], op'[p])
  <2>1. op'[p].pc = "acquire" /\ op'[p].id = op[p].id /\ op'[p].row = rows[op[p].id]
    BY <1>0, <1>2 DEF TypeInv, TypeOK, Op
  <2>2. Loads(op'[p])
    BY <1>2, <2>1 DEF Loads
  <2> QED
    BY <2>2 DEF Copies
<1>3. CASE TickLoad(p)
  <2>1. CASE op' = [op EXCEPT ![p].pc = "finalize", ![p].kind = "verify", ![p].row = rows[op[p].id]]
    <3>1. op'[p].pc = "finalize"
      BY <1>0, <2>1 DEF TypeInv, TypeOK, Op
    <3>2. Drops(op'[p])
      BY <1>3, <3>1 DEF Drops, HasCopy, CopyPCs, Holding, TickLoad, store
    <3> QED
      BY <3>2 DEF Copies
  <2> QED
    BY <1>1, <1>2, <1>3, <2>1 DEF TickLoad, store
<1>4. CASE TickRecover(p)
  <2>1. op[p].pc = "locked" /\ op[p].kind = "tick" /\ op[p].row \in Row /\ op[p].id # 0
    BY <1>4, CSFacts, IdFacts DEF TickRecover, At, InCS, Holding
  <2>2. op[p].row.phase = "deploying"
    BY <2>1 DEF Able, Fits, Placed, Holding
  <2>3. /\ Recovered(op[p].row) \in Row
        /\ Recovered(op[p].row).phase = "verifying" /\ Recovered(op[p].row).blocked
    BY <2>1 DEF Recovered, Row, Phases
  <2> QED
    BY <1>4, <2>1, <2>2, <2>3, MayBecome, SaveCopies DEF TickRecover, CopyPCs, Holding
<1>5. CASE TickStep(p)
  <2>1. op[p].pc = "locked" /\ rows' = rows
    BY <1>5 DEF TickStep, At, store
  <2>2. /\ op'[p].pc \in {"release", "fail", "advance", "record"}
        /\ op'[p].kind = op[p].kind /\ op'[p].id = op[p].id /\ op'[p].row = op[p].row
    <3>1. CASE Goto(p, "release") \/ Goto(p, "fail")
      BY <3>1, Jumped
    <3>2. CASE op' = [op EXCEPT ![p].k = op[p].row.snap,
                                ![p].pc = IF op[p].row.step = op[p].row.snap THEN "advance" ELSE "record"]
      BY <1>0, <3>2 DEF TypeInv, TypeOK, Op
    <3> QED
      BY <1>5, <3>1, <3>2 DEF TickStep
  <2>3. Holds(op[p], op'[p])
    BY <2>1, <2>2 DEF Holds, CopyPCs, Holding
  <2> QED
    BY <2>3 DEF Copies
<1>6. CASE RollbackLoad(p)
  BY <1>2, <1>6 DEF RollbackLoad, store
<1>7. CASE RollbackLocked(p)
  BY <1>7, JumpCopies DEF RollbackLocked, store, CopyPCs, Holding
<1> QED
  BY <1>3, <1>4, <1>5, <1>6, <1>7

\* Pause, Resume, Abort, Approve and Reject store the copy in a later phase.
LEMMA ControlCopies ==
    ASSUME TypeInv, NEW p \in Procs, Able(p),
           \/ PauseOrResume(p) \/ Abort(p)
           \/ ApproveLocked(p) \/ ApproveDeploy(p) \/ ApproveStore(p) \/ StoreRejected(p)
    PROVE  Copies(op[p], op'[p])
<1>0. op[p] \in Op /\ Good(op[p], Created)
  BY DEF TypeInv, TypeOK
<1>1. \/ op[p].kind \in {"pause", "resume", "abort", "approve"} /\ op[p].pc \in {"locked", "approve", "approved"}
      \/ op[p].kind = "reject" /\ op[p].pc = "reject"
  BY DEF PauseOrResume, Abort, ApproveLocked, ApproveDeploy, ApproveStore, StoreRejected, At, Able, Fits, Placed
<1>2. op[p].pc \in CopyPCs \ {"promoteSave"} /\ op[p].kind # "none"
  BY <1>1 DEF CopyPCs, Holding
<1>3. op[p].id # 0 /\ op[p].id \in Created /\ op[p].row \in Row /\ op[p].row.phase \in Phases
  BY <1>0, <1>1, IdFacts DEF Good, Op, Row
<1>4. ASSUME NEW c \in Holding, Goto(p, c), rows' = rows PROVE Copies(op[p], op'[p])
  BY <1>2, <1>4, JumpCopies
<1>5. CASE PauseOrResume(p)
  <2> DEFINE e == IF op[p].kind = "pause" THEN "PAUSE" ELSE "RESUME"
             to == Send(Resumed, op[p].row.phase, e)
             r == [op[p].row EXCEPT !.phase = to]
  <2>1. CASE Accepts(Resumed, op[p].row.phase, e) /\ SaveAndRelease(p, r)
    <3>1. to \in Phases /\ PhaseMayBecome(op[p].row.phase, to)
      BY <2>1, Charted, MayBecome DEF Phases
    <3> HIDE DEF to
    <3>2. r \in Row /\ r.phase = to /\ r.blocked = op[p].row.blocked
      BY <1>3, <3>1 DEF Row
    <3> HIDE DEF r
    <3> QED
      BY <1>2, <1>3, <2>1, <3>1, <3>2, SaveCopies
  <2> QED
    BY <1>4, <1>5, <2>1 DEF PauseOrResume, store, Holding
<1>6. CASE Abort(p)
  <2> DEFINE r == [op[p].row EXCEPT !.snap = 0]
  <2>0. r \in Row /\ r.phase = op[p].row.phase /\ r.blocked = op[p].row.blocked
    BY <1>3, EngineAssumption DEF Row
  <2>1. CASE rows' = rows /\ op' = [op EXCEPT ![p].pc = "revert", ![p].row = r, ![p].m = Prior(r.desired)]
    <3> HIDE DEF r
    <3>1. op'[p].pc = "revert" /\ op'[p].kind = op[p].kind /\ op'[p].id = op[p].id /\ op'[p].row = r
      BY <1>0, <2>1 DEF TypeInv, TypeOK, Op
    <3>2. Holds(op[p], op'[p])
      BY <1>2, <2>0, <2>1, <3>1 DEF Holds
    <3> QED
      BY <3>2 DEF Copies
  <2>2. CASE SaveAndRelease(p, RolledBack(r))
    <3>1. RolledBack(r) \in Row /\ RolledBack(r).phase = "rolledback" /\ RolledBack(r).blocked = op[p].row.blocked
      BY <2>0 DEF RolledBack, Row, Phases
    <3> QED
      BY <1>2, <1>3, <2>2, <3>1, MayBecome, SaveCopies
  <2> QED
    BY <1>4, <1>6, <2>1, <2>2 DEF Abort, store, Holding
<1>7. CASE ApproveLocked(p)
  BY <1>4, <1>7 DEF ApproveLocked, store, Holding
<1>8. CASE ApproveDeploy(p)
  BY <1>4, <1>8 DEF ApproveDeploy, Deployed, store, Holding
<1>9. CASE ApproveStore(p)
  <2> DEFINE r == [op[p].row EXCEPT !.phase = "verifying"]
  <2>1. op[p].row.phase = "awaiting"
    BY <1>9 DEF ApproveStore, Able, Fits, Placed
  <2>2. SaveAndRelease(p, r)
    BY <1>9, <2>1, Charted DEF ApproveStore
  <2>3. r \in Row /\ r.phase = "verifying" /\ r.blocked = op[p].row.blocked
    BY <1>3 DEF Row, Phases
  <2> HIDE DEF r
  <2> QED
    BY <1>2, <1>3, <2>1, <2>2, <2>3, MayBecome, SaveCopies
<1>10. CASE StoreRejected(p)
  <2> DEFINE r == RolledBack(op[p].row)
  <2>1. r \in Row /\ r.phase = "rolledback" /\ r.blocked = op[p].row.blocked
    BY <1>3 DEF RolledBack, Row, Phases
  <2>2. rows' = [rows EXCEPT ![op[p].id] = r] /\ op'[p] = Idle
    BY <1>10 DEF StoreRejected, Save, Return, TypeInv, TypeOK
  <2> HIDE DEF r
  <2>3. ~HasCopy(op'[p])
    BY <2>2 DEF HasCopy, Idle
  <2>4. Stores(op[p], op'[p])
    BY <1>2, <1>3, <2>1, <2>2, <2>3, MayBecome DEF Stores, HasCopy
  <2> QED
    BY <2>4 DEF Copies
<1> QED
  BY <1>5, <1>6, <1>7, <1>8, <1>9, <1>10

\* The gate and Promote: what Promote loads it stores promoted.
LEMMA VerifyCopies ==
    ASSUME TypeInv, NEW p \in Procs, Able(p),
           Finalize(p) \/ Gates(p) \/ PromoteLoad(p) \/ PromoteSave(p)
    PROVE  Copies(op[p], op'[p])
<1>0. op[p] \in Op /\ Good(op[p], Created)
  BY DEF TypeInv, TypeOK
<1>1. op[p].pc \in {"finalize", "gates", "promoteLoad", "promoteSave"}
  BY DEF Finalize, Gates, PromoteLoad, PromoteSave
<1>2. op[p].id \in Created /\ op[p].id # 0 /\ rows[op[p].id] \in Row
  BY <1>1, IdFacts
<1>3. CASE Return(p) /\ rows' = rows
  BY <1>3, ReturnCopies
<1>4. CASE rows' = rows /\ op'[p].pc \in {"gates", "promoteLoad", "rollbackLoad"}
  <2>1. Drops(op'[p])
    BY <1>4 DEF Drops, HasCopy, CopyPCs, Holding
  <2> QED
    BY <2>1 DEF Copies
<1>5. CASE Finalize(p)
  <2>1. Return(p) \/ op'[p].pc = "gates"
    BY <1>0, <1>5 DEF Finalize, TypeInv, TypeOK, Op
  <2> QED
    BY <1>3, <1>4, <1>5, <2>1 DEF Finalize, store
<1>6. CASE Gates(p)
  BY <1>3, <1>4, <1>6, Jumped DEF Gates, store
<1>7. CASE PromoteLoad(p)
  <2> DEFINE r == [rows[op[p].id] EXCEPT !.phase = Send(Resumed, rows[op[p].id].phase, "VERIFY_OK")]
  <2>1. CASE Accepts(Resumed, rows[op[p].id].phase, "VERIFY_OK")
    <3>1. rows[op[p].id].phase = "verifying" /\ rows' = rows /\ op' = [op EXCEPT ![p].pc = "promoteSave", ![p].row = r]
      BY <1>7, <2>1, Charted DEF PromoteLoad, store
    <3>2. r.blocked = rows[op[p].id].blocked
      BY <1>2 DEF Row
    <3> HIDE DEF r
    <3>3. op'[p].pc = "promoteSave" /\ op'[p].id = op[p].id /\ op'[p].row = r
      BY <1>0, <3>1 DEF TypeInv, TypeOK, Op
    <3>4. Promotes(op'[p])
      BY <3>1, <3>2, <3>3 DEF Promotes
    <3> QED
      BY <3>4 DEF Copies
  <2> QED
    BY <1>3, <1>7, <2>1 DEF PromoteLoad, store
<1>8. CASE PromoteSave(p)
  <2>1. /\ op[p].pc = "promoteSave" /\ op[p].kind # "none"
        /\ op[p].row.phase = "promoted" /\ op[p].row \in Row
    BY <1>0, <1>8 DEF PromoteSave, Able, Fits, Placed, Good, Op
  <2>2. rows' = [rows EXCEPT ![op[p].id] = op[p].row] /\ op'[p] = Idle
    BY <1>8 DEF PromoteSave, Save, Return, TypeInv, TypeOK
  <2>3. ~HasCopy(op'[p])
    BY <2>2 DEF HasCopy, Idle
  <2>4. Stores(op[p], op'[p])
    BY <1>2, <2>1, <2>2, <2>3 DEF Stores, HasCopy, CopyPCs
  <2> QED
    BY <2>4 DEF Copies
<1> QED
  BY <1>5, <1>6, <1>7, <1>8

\* A schedule that fires, and a write that is refused.
LEMMA ScheduledCopies ==
    ASSUME TypeInv, NEW p \in Procs, Able(p),
           ScheduledCreate(p) \/ ScheduledDeploy(p) \/ ScheduledStore(p) \/ Unschedule(p) \/ StoreError(p)
    PROVE  Copies(op[p], op'[p])
<1>0. op[p] \in Op
  BY DEF TypeInv, TypeOK
<1>1. CASE Return(p) /\ rows' = rows
  BY <1>1, ReturnCopies
<1>2. CASE ScheduledCreate(p)
  <2>1. op[p].pc = "locked"
    BY <1>2 DEF ScheduledCreate, At
  <2>2. CASE Goto(p, "release") /\ rows' = rows
    BY <2>1, <2>2, JumpCopies DEF CopyPCs, Holding
  <2>3. CASE /\ Created # Ids /\ Save(FreshId, op[p].row)
             /\ op' = [op EXCEPT ![p].pc = "fire", ![p].id = FreshId]
    <3>1. FreshId \in Ids \ Created /\ rows' = [rows EXCEPT ![FreshId] = op[p].row]
      BY <2>3, FreshIdType DEF Save
    <3>2. op'[p].id = FreshId /\ op'[p].row = op[p].row /\ op'[p].pc = "fire"
      BY <1>0, <2>3 DEF TypeInv, TypeOK, Op
    <3>3. Creates(op[p], op'[p])
      BY <3>1, <3>2 DEF Creates
    <3> QED
      BY <3>3 DEF Copies
  <2> QED
    BY <1>2, <2>2, <2>3 DEF ScheduledCreate, store
<1>3. CASE ScheduledDeploy(p)
  <2>1. \E c \in {"fired", "error"} : Goto(p, c)
    BY <1>3 DEF ScheduledDeploy, Deployed
  <2> QED
    BY <1>3, <2>1, JumpCopies DEF ScheduledDeploy, store, CopyPCs, Holding
<1>4. CASE ScheduledStore(p)
  <2> DEFINE r == [op[p].row EXCEPT !.phase = "verifying"]
  <2>1. op[p].pc = "fired" /\ op[p].kind = "schedule" /\ SaveAndRelease(p, r)
    BY <1>4 DEF ScheduledStore, Able, Fits, Placed
  <2>2. op[p].id # 0 /\ op[p].row \in Row
    BY <2>1, IdFacts, CSFacts DEF InCS, Holding
  <2>3. op[p].row.phase = "deploying"
    BY <2>1, <2>2 DEF Able, Fits, Owns, Holding
  <2>4. r \in Row /\ r.phase = "verifying" /\ r.blocked = op[p].row.blocked
    BY <2>2 DEF Row, Phases
  <2> HIDE DEF r
  <2> QED
    BY <2>1, <2>2, <2>3, <2>4, MayBecome, SaveCopies DEF CopyPCs, Holding
<1>5. CASE Unschedule(p)
  BY <1>1, <1>5 DEF Unschedule, store
<1>6. CASE StoreError(p)
  <2>1. rows' = rows
    BY <1>6 DEF StoreError, store
  <2>2. CASE op[p].pc = "record"
    <3> DEFINE r == [op[p].row EXCEPT !.step = op[p].k]
    <3>1. op' = [op EXCEPT ![p].pc = "drive", ![p].row = r]
      BY <1>6, <2>2 DEF StoreError, InCS, Holding
    <3>2. op[p].row \in Row
      BY <2>2, CSFacts DEF InCS, Holding
    <3>3. r.phase = op[p].row.phase /\ r.blocked = op[p].row.blocked
      BY <3>2 DEF Row
    <3> HIDE DEF r
    <3>4. op'[p].pc = "drive" /\ op'[p].kind = op[p].kind /\ op'[p].id = op[p].id /\ op'[p].row = r
      BY <1>0, <3>1 DEF TypeInv, TypeOK, Op
    <3>5. Holds(op[p], op'[p])
      BY <2>1, <2>2, <3>3, <3>4 DEF Holds, CopyPCs, Holding
    <3> QED
      BY <3>5 DEF Copies
  <2>3. CASE op[p].pc # "record" /\ InCS(p)
    <3>1. Goto(p, "release") /\ op[p].pc \in SavePoints
      BY <1>6, <2>3 DEF StoreError
    <3> QED
      BY <2>1, <2>3, <3>1, JumpCopies DEF SavePoints, CopyPCs, Holding, InCS
  <2>4. CASE ~InCS(p)
    BY <1>1, <1>6, <2>1, <2>4 DEF StoreError, InCS, Holding
  <2> QED
    BY <2>2, <2>3, <2>4
<1> QED
  BY <1>2, <1>3, <1>4, <1>5, <1>6

\* What every step of a caller does with its copy.
LEMMA CallerCopies ==
    ASSUME TypeInv, NEW p \in Procs, Able(p), Starts(p) \/ Continues(p) \/ StoreError(p)
    PROVE  Copies(op[p], op'[p])
BY StartsCopies, LockCopies, ApplyCopies, DriveCopies, TickCopies, ControlCopies, VerifyCopies, ScheduledCopies
   DEF Continues

\* One caller works on stored rollouts; the others only create them, by Apply or
\* from a schedule, in any replica.
OneKeeper ==
    \A p, q \in Procs :
        CanRun[p] \ {"apply", "schedule"} # {} /\ CanRun[q] \ {"apply", "schedule"} # {} => p = q

AllAgreeOnBlock == \A p \in Procs : AgreesOnBlock(op[p], rows)
AllAgreeOnPhase == \A p \in Procs : AgreesOnPhase(op[p], rows)

\* The rows before and after a caller's step.
LEMMA CopiedRows ==
    ASSUME TypeInv, NEW p \in Procs, Copies(op[p], op'[p]), NEW i \in Created
    PROVE  i \in Ids /\ (rows'[i] = rows[i] \/ (Stores(op[p], op'[p]) /\ i = op[p].id))
BY DEF TypeInv, TypeOK, Copies, Holds, Drops, Loads, Promotes, Creates, Stores, Created

\* The caller's own copy agrees with the row after its step as it did before.
LEMMA CopyAgrees ==
    ASSUME TypeInv, NEW p \in Procs, Copies(op[p], op'[p]), AgreesOnBlock(op[p], rows)
    PROVE  AgreesOnBlock(op'[p], rows')
<1>0. rows \in [Ids -> Row \cup {NoRow}]
  BY DEF TypeInv, TypeOK
<1>1. CASE Holds(op[p], op'[p])
  BY <1>1 DEF Holds, AgreesOnBlock, HasCopy
<1>2. CASE Drops(op'[p]) \/ Loads(op'[p]) \/ Promotes(op'[p])
  BY <1>2 DEF Drops, Loads, Promotes, AgreesOnBlock
<1>3. CASE Creates(op[p], op'[p])
  BY <1>0, <1>3 DEF Creates, AgreesOnBlock
<1>4. CASE Stores(op[p], op'[p])
  BY <1>0, <1>4 DEF Stores, AgreesOnBlock, Created
<1> QED
  BY <1>1, <1>2, <1>3, <1>4 DEF Copies

\* A tick that recovers a rollout is alone with it.
LEMMA RecoversAlone ==
    ASSUME OneKeeper, MutualExclusion, AllAble, NEW p \in Procs, NEW q \in Procs,
           op[p].kind = "tick", op[p].pc = "locked", HasCopy(op[q])
    PROVE  p = q
<1>1. "tick" \in CanRun[p] /\ op[q].kind \in CanRun[q]
  BY DEF AllAble, Able, Licensed, HasCopy
<1>2. CASE op[q].kind \notin {"apply", "schedule"}
  BY <1>1, <1>2 DEF OneKeeper
<1>3. CASE op[q].kind \in {"apply", "schedule"}
  <2>1. op[q].pc \notin {"acquire", "reject", "promoteSave"}
    BY <1>3 DEF AllAble, Able, Fits, Placed, HasCopy
  <2>2. InCS(q) /\ InCS(p)
    BY <2>1 DEF HasCopy, CopyPCs, InCS, Holding
  <2> QED
    BY <2>2 DEF MutualExclusion
<1> QED
  BY <1>2, <1>3

LEMMA BlockStep ==
    ASSUME OneKeeper, TypeInv, MutualExclusion, AllAble, AllAgreeOnBlock,
           NEW p \in Procs, Copies(op[p], op'[p]), \A q \in Procs \ {p} : op'[q] = op[q]
    PROVE  AllAgreeOnBlock' /\ \A i \in Ids : rows[i].blocked => rows'[i].blocked
<1>0. rows \in [Ids -> Row \cup {NoRow}]
  BY DEF TypeInv, TypeOK
<1>1. \/ \A i \in Created : rows'[i].blocked = rows[i].blocked
      \/ /\ op[p].kind = "tick" /\ op[p].pc = "locked"
         /\ \A i \in Created : rows'[i].blocked = rows[i].blocked \/ rows'[i].blocked
  <2>1. CASE ~Stores(op[p], op'[p])
    BY <2>1, CopiedRows
  <2>2. CASE Stores(op[p], op'[p])
    <3>1. PICK r \in Row : /\ HasCopy(op[p]) /\ op[p].id \in Created /\ rows' = [rows EXCEPT ![op[p].id] = r]
                           /\ r.blocked = op[p].row.blocked \/ (r.blocked /\ op[p].kind = "tick" /\ op[p].pc = "locked")
      BY <2>2 DEF Stores
    <3>2. op[p].row.blocked = rows[op[p].id].blocked
      BY <3>1 DEF AllAgreeOnBlock, AgreesOnBlock
    <3>3. \A i \in Created : rows'[i] = IF i = op[p].id THEN r ELSE rows[i]
      BY <1>0, <3>1 DEF Created
    <3> QED
      BY <3>1, <3>2, <3>3
  <2> QED
    BY <2>1, <2>2
<1>2. ASSUME NEW q \in Procs PROVE AgreesOnBlock(op'[q], rows')
  <2>1. CASE q = p
    BY <2>1, CopyAgrees DEF AllAgreeOnBlock
  <2>2. CASE q # p
    <3>1. op'[q] = op[q] /\ AgreesOnBlock(op[q], rows)
      BY <2>2 DEF AllAgreeOnBlock
    <3>2. HasCopy(op[q]) => op[q].id \in Created
      BY DEF HasCopy, TypeInv, Good
    <3>3. HasCopy(op[q]) => ~(op[p].kind = "tick" /\ op[p].pc = "locked")
      BY <2>2, RecoversAlone
    <3> QED
      BY <1>1, <3>1, <3>2, <3>3 DEF AgreesOnBlock
  <2> QED
    BY <2>1, <2>2
<1>3. ASSUME NEW i \in Ids, rows[i].blocked PROVE rows'[i].blocked
  <2>1. i \in Created
    BY <1>0, <1>3 DEF Created, Exists, NoRow, NewRow, Row, Phases
  <2> QED
    BY <1>1, <1>3, <2>1
<1> QED
  BY <1>2, <1>3 DEF AllAgreeOnBlock

\* Once rollback of a rollout is blocked no later save unblocks it, where one
\* caller works on stored rollouts and the others only create them: every copy
\* that is stored was loaded after the last tick that blocked its row.
THEOREM BlockStays == SafeLeases /\ OneKeeper => (Spec => BlockedIsSticky)
<1> SUFFICES ASSUME SafeLeases, OneKeeper PROVE Spec => BlockedIsSticky
  OBVIOUS
<1>0. OneDriver
  BY DEF OneKeeper, OneDriver, DriverOps
<1> DEFINE Inv == TypeInv /\ AllAble /\ AllAgreeOnBlock
           Kept == \A i \in Ids : rows[i].blocked => rows'[i].blocked
<1>1. Init => Inv
  <2>1. Init => AllAgreeOnBlock
    BY DEF Init, AllAgreeOnBlock, AgreesOnBlock, HasCopy, Idle
  <2> QED
    BY <2>1, TypeInit, RestsAtFirst
<1>2. Inv /\ MutualExclusion /\ [Next]_vars => Inv' /\ Kept
  <2> SUFFICES ASSUME Inv, MutualExclusion, [Next]_vars PROVE Inv' /\ Kept
    OBVIOUS
  <2>1. TypeInv' /\ AllAble'
    BY <1>0, TypeStep, AbleStep
  <2>2. ASSUME NEW p \in Procs, Starts(p) \/ Continues(p) \/ StoreError(p) PROVE AllAgreeOnBlock' /\ Kept
    <3>1. Copies(op[p], op'[p])
      BY <2>2, CallerCopies DEF AllAble
    <3> QED
      BY <2>2, <3>1, OthersStay, BlockStep
  <2>3. CASE \/ \E i \in Instances : Crash(i)
             \/ Schedule \/ LeaseExpires \/ EditTarget \/ UNCHANGED vars
    <3>1. rows' = rows /\ \A p \in Procs : op'[p] \in {op[p], Idle}
      BY <2>3, WorldRests
    <3>2. ~HasCopy(Idle)
      BY DEF HasCopy, Idle
    <3>3. \A p \in Procs : AgreesOnBlock(op'[p], rows')
      BY <3>1, <3>2 DEF AllAgreeOnBlock, AgreesOnBlock
    <3> QED
      BY <2>1, <3>1, <3>3 DEF AllAgreeOnBlock
  <2> QED
    BY <2>1, <2>2, <2>3 DEF Next
<1>3. Spec => []MutualExclusion
  BY Exclusion
<1>4. Kept => [Kept]_vars
  OBVIOUS
<1> QED
  BY <1>1, <1>2, <1>3, <1>4, PTL DEF Spec, BlockedIsSticky

\* One caller at a time, whatever it does.
OneCaller == \A p, q \in Procs : p = q

LEMMA PhaseStep ==
    ASSUME TypeInv, NEW p \in Procs, Copies(op[p], op'[p]), AgreesOnPhase(op[p], rows)
    PROVE  /\ AgreesOnPhase(op'[p], rows')
           /\ \A i \in Created : PhaseMayBecome(rows[i].phase, rows'[i].phase)
<1>0. rows \in [Ids -> Row \cup {NoRow}]
  BY DEF TypeInv, TypeOK
<1>1. CASE Holds(op[p], op'[p])
  BY <1>1 DEF Holds, AgreesOnPhase, HasCopy, PhaseMayBecome
<1>2. CASE Drops(op'[p]) \/ Loads(op'[p]) \/ Promotes(op'[p])
  BY <1>2 DEF Drops, Loads, Promotes, AgreesOnPhase, PhaseMayBecome
<1>3. CASE Creates(op[p], op'[p])
  <2>1. PICK id \in Ids \ Created : /\ rows' = [rows EXCEPT ![id] = op[p].row]
                                    /\ op'[p].id = id /\ op'[p].row = op[p].row /\ op'[p].pc # "promoteSave"
    BY <1>3 DEF Creates
  <2>2. rows'[id] = op[p].row /\ \A i \in Created : rows'[i] = rows[i]
    BY <1>0, <2>1 DEF Created
  <2> QED
    BY <2>1, <2>2 DEF AgreesOnPhase, PhaseMayBecome
<1>4. CASE Stores(op[p], op'[p])
  <2>1. PICK r \in Row :
          /\ HasCopy(op[p]) /\ op[p].id \in Created /\ rows' = [rows EXCEPT ![op[p].id] = r]
          /\ IF op[p].pc = "promoteSave" THEN r.phase = "promoted" ELSE PhaseMayBecome(op[p].row.phase, r.phase)
          /\ HasCopy(op'[p]) => op'[p].id = op[p].id /\ op'[p].row = r /\ op'[p].pc # "promoteSave"
    BY <1>4 DEF Stores
  <2>2. PhaseMayBecome(rows[op[p].id].phase, r.phase)
    BY <2>1, MayBecome DEF AgreesOnPhase
  <2>3. \A i \in Created : rows'[i] = IF i = op[p].id THEN r ELSE rows[i]
    BY <1>0, <2>1 DEF Created
  <2>4. AgreesOnPhase(op'[p], rows')
    BY <2>1, <2>3 DEF AgreesOnPhase
  <2> QED
    BY <2>2, <2>3, <2>4 DEF PhaseMayBecome
<1> QED
  BY <1>1, <1>2, <1>3, <1>4 DEF Copies

\* The phase stored for a rollout only moves forward along the statechart, for a
\* caller that is alone, whatever it calls and wherever its replica crashes or a
\* write is refused.  With a second caller a Tick that loaded the row before the
\* other's Apply failed stores it verifying after it was rolled back.
THEOREM LifecycleFollowed == OneCaller => (Spec => PhasesFollowLifecycle)
<1> SUFFICES ASSUME OneCaller PROVE Spec => PhasesFollowLifecycle
  OBVIOUS
<1>0. OneDriver /\ MutualExclusion
  BY DEF OneCaller, OneDriver, MutualExclusion
<1> DEFINE Inv == TypeInv /\ AllAble /\ AllAgreeOnPhase
           Follows == \A i \in Ids : Exists(i) => PhaseMayBecome(rows[i].phase, rows'[i].phase)
<1>1. Init => Inv
  <2>1. Init => AllAgreeOnPhase
    BY DEF Init, AllAgreeOnPhase, AgreesOnPhase, HasCopy, Idle
  <2> QED
    BY <2>1, TypeInit, RestsAtFirst
<1>2. Inv /\ [Next]_vars => Inv' /\ Follows
  <2> SUFFICES ASSUME Inv, [Next]_vars PROVE Inv' /\ Follows
    OBVIOUS
  <2>1. TypeInv' /\ AllAble'
    BY <1>0, TypeStep, AbleStep
  <2>2. ASSUME NEW p \in Procs, Starts(p) \/ Continues(p) \/ StoreError(p) PROVE AllAgreeOnPhase' /\ Follows
    <3>1. Copies(op[p], op'[p])
      BY <2>2, CallerCopies DEF AllAble
    <3>2. /\ AgreesOnPhase(op'[p], rows')
          /\ \A i \in Created : PhaseMayBecome(rows[i].phase, rows'[i].phase)
      BY <3>1, PhaseStep DEF AllAgreeOnPhase
    <3>3. \A q \in Procs : q = p
      BY DEF OneCaller
    <3> QED
      BY <3>2, <3>3 DEF AllAgreeOnPhase, Created
  <2>3. CASE \/ \E i \in Instances : Crash(i)
             \/ Schedule \/ LeaseExpires \/ EditTarget \/ UNCHANGED vars
    <3>1. rows' = rows /\ \A p \in Procs : op'[p] \in {op[p], Idle}
      BY <2>3, WorldRests
    <3>2. ~HasCopy(Idle)
      BY DEF HasCopy, Idle
    <3>3. \A p \in Procs : AgreesOnPhase(op'[p], rows')
      BY <3>1, <3>2 DEF AllAgreeOnPhase, AgreesOnPhase
    <3> QED
      BY <2>1, <3>1, <3>3 DEF AllAgreeOnPhase, PhaseMayBecome
  <2> QED
    BY <2>1, <2>2, <2>3 DEF Next
<1>3. Follows => [Follows]_vars
  OBVIOUS
<1> QED
  BY <1>1, <1>2, <1>3, PTL DEF Spec, PhasesFollowLifecycle

(***************************************************************************)
(* The reconcile loop.                                                      *)
(***************************************************************************)

\* The reconcile loop is the only caller: it applies, ticks and verifies.
LoneLoop == OneCaller /\ \A p \in Procs : CanRun[p] \subseteq {"apply", "tick", "verify"}

\* ListRollouts is a strict order of the stored rows, with one row in front.
Ordered ==
    /\ Created # {} => \E i \in Created : pos[i] = 0
    /\ \A i, j \in Created : pos[i] = pos[j] => i = j

\* A rollout in flight is the newest row.
Leads == \A i \in InFlight : pos[i] = 0 /\ rows[i].phase = "deploying"

\* The loop works on the newest row, and its copy is the stored row, apart from
\* a promotion that it has not stored yet.
Copied(o) ==
    o.id # 0 => /\ pos[o.id] = 0
                /\ o.row.desired = rows[o.id].desired /\ o.row.blocked = rows[o.id].blocked
                /\ o.pc # "promoteSave" => o.row.phase = rows[o.id].phase

\* An Apply deploys the manifest of the row it creates.
Mine(o) ==
    o.kind = "apply" /\ o.pc \in {"acquire", "locked", "baseline", "create", "deploy"} =>
        o.row.desired = o.m

\* The gate judges a row that is verifying, and a tick starts on one that deploys.
Judging(o) ==
    /\ o.kind = "verify" /\ o.pc # "release" => rows[o.id].phase = "verifying"
    /\ o.pc = "tickLoad" => rows[o.id].phase = "deploying"

Claims(o) == Copied(o) /\ Mine(o) /\ Judging(o)

Steady == Ordered /\ Leads /\ \A p \in Procs : Claims(op[p])

\* The newest of the stored rows is the one in front.
LEMMA NewestInFront ==
    ASSUME pos \in [Ids -> Nat], Ordered, Created # {}
    PROVE  Newest(Created) \in Created /\ pos[Newest(Created)] = 0
<1>1. PICK i \in Created : pos[i] = 0
  BY DEF Ordered
<1>2. \A j \in Created : pos[i] <= pos[j]
  BY <1>1 DEF Created
<1>3. Newest(Created) \in Created /\ \A j \in Created : pos[Newest(Created)] <= pos[j]
  BY <1>2 DEF Newest
<1>4. pos[Newest(Created)] \in Nat
  BY <1>3 DEF Created
<1> QED
  BY <1>1, <1>3, <1>4

\* Every config asks for auto-rollback and the target can be diffed, so that every
\* rollout's baseline is checked.
Verified == Differ /\ AutoModes \subseteq {TRUE}

\* The prior of m, if there is one, is x.
Known(m, x) == Priors(m) = {} \/ Prior(m) = x

\* The newest row, while it may be rolled back, has for its prior what was live
\* when its baseline was checked.
Vouched ==
    \A i \in Created :
        pos[i] = 0 /\ ~rows[i].blocked /\ rows[i].phase \in {"deploying", "verifying"} =>
            Known(rows[i].desired, ran[i])

\* What the locals of the loop say of the manifest it would roll back to.
Aim(o) == o.m \in {ran[o.id], rows[o.id].desired}
Aims(o) ==
    /\ o.kind = "apply" /\ o.pc \in {"acquire", "locked", "baseline"} => o.auto
    /\ o.pc = "create" /\ ~o.row.blocked => Known(o.m, o.base)
    /\ o.kind = "verify" /\ o.pc = "gates" /\ ~rows[o.id].blocked => Aim(o)
    /\ o.kind = "verify" /\ o.pc \in {"rollbackLoad", "acquire", "locked"} => Aim(o)
    /\ o.pc = "revert" => Aim(o)

Backed == Vouched /\ \A p \in Procs : Aims(op[p])

\* Row i is what runs on the target, unless something else edited it.
Runs(i) == live \in {rows[i].desired, Foreign}

\* A rollout in flight runs, but for the points between its row and its deploy
\* and between a failure and the store of it; what the gate judges runs.
Landed(o) ==
    /\ \A i \in InFlight : Runs(i) \/ o.pc \in {"deploy", "fail", "error", "revert", "reverted"}
    /\ \/ o.kind = "verify" /\ o.pc \in {"finalize", "gates", "promoteLoad", "promoteSave"}
       \/ o.pc = "release" /\ o.row.phase = "verifying" /\ o.kind # "verify"
       => Runs(o.id)

Shown == \A i \in Created : pos[i] = 0 /\ rows[i].phase = "promoted" => Runs(i)

Lives == faults = 0 => Shown /\ \A p \in Procs : Landed(op[p])

\* What a step that leaves the rows and the target alone, from locals o to n,
\* does to the claims.
Keeps(o, n) ==
    /\ Claims(n)
    /\ Verified /\ Vouched /\ Aims(o) => Aims(n)
    /\ Landed(o) => Landed(n)

\* What is known of the locals of the loop.
Loop(p) ==
    /\ op[p] \in Op /\ Good(op[p], Created) /\ Fits(op[p], rows) /\ Placed(op[p])
    /\ op[p].kind \in {"none", "apply", "tick", "verify"}
    /\ Claims(op[p])

\* What the invariant says of the loop's locals.
LEMMA LoopFacts ==
    ASSUME LoneLoop, TypeInv, AllAble, Steady, NEW p \in Procs PROVE Loop(p)
<1>1. op[p] \in Op /\ Good(op[p], Created) /\ Fits(op[p], rows) /\ Placed(op[p])
  BY DEF TypeInv, TypeOK, AllAble, Able, Fits
<1>2. op[p].kind \in {"none", "apply", "tick", "verify"}
  BY DEF AllAble, Able, Licensed, LoneLoop
<1> QED
  BY <1>1, <1>2 DEF Loop, Steady

\* n is o at another program point.
Moves(o, n, c) ==
    /\ n.pc = c /\ n.kind = o.kind /\ n.id = o.id /\ n.row = o.row
    /\ n.m = o.m /\ n.auto = o.auto /\ n.base = o.base

\* Goto changes the program point and nothing else.
LEMMA GotoMoves ==
    ASSUME TypeInv, NEW p \in Procs, NEW c, Goto(p, c) PROVE Moves(op[p], op'[p], c)
BY DEF Goto, Moves, TypeInv, TypeOK, Op

\* The points at which what runs on the target is open.
Unsettled == {"deploy", "fail", "error", "revert", "reverted"}

\* The loop returns.
LEMMA ReturnKeeps ==
    ASSUME TypeInv, NEW p \in Procs, Return(p), op[p].pc \notin Unsettled
    PROVE  Keeps(op[p], op'[p])
<1>1. op'[p] = Idle
  BY DEF Return, TypeInv, TypeOK
<1>2. op'[p].kind = "none" /\ op'[p].pc = "idle" /\ op'[p].id = 0
  BY <1>1 DEF Idle
<1>3. Claims(op'[p]) /\ Aims(op'[p])
  BY <1>2 DEF Claims, Copied, Mine, Judging, Aims
<1>4. Landed(op[p]) => Landed(op'[p])
  BY <1>2 DEF Landed, Unsettled
<1> QED
  BY <1>3, <1>4 DEF Keeps

\* The loop goes on at another point with what it has.
LEMMA MoveKeeps ==
    ASSUME NEW o, NEW n, Claims(o), NEW c, Moves(o, n, c), c \notin {"promoteSave", "create", "tickLoad"},
           o.pc # "promoteSave",
           c # "release" => o.pc # "release",
           c \in {"acquire", "locked", "baseline", "create", "deploy"} => o.pc \in {"acquire", "locked", "baseline", "create"},
           o.pc \in Unsettled => c \in Unsettled,
           c \in {"acquire", "locked", "baseline"} /\ o.kind = "apply" => o.pc \in {"acquire", "locked", "baseline"},
           c \in {"gates", "rollbackLoad", "acquire", "locked"} /\ o.kind = "verify" => o.pc \in {"rollbackLoad", "acquire", "locked"},
           c = "revert" => o.kind = "verify" /\ o.pc = "locked",
           c \in {"finalize", "gates", "promoteLoad"} /\ o.kind = "verify" => o.pc \in {"finalize", "gates"},
           c = "release" => o.kind = "verify" \/ o.row.phase # "verifying"
    PROVE  Keeps(o, n)
<1>1. Claims(n)
  BY DEF Claims, Copied, Mine, Judging, Moves
<1>2. Aims(o) => Aims(n)
  BY DEF Aims, Aim, Moves
<1>3. Landed(o) => Landed(n)
  BY DEF Landed, Moves, Unsettled
<1> QED
  BY <1>1, <1>2, <1>3 DEF Keeps

\* An operation of the loop begins.
LEMMA StartsKeep ==
    ASSUME LoneLoop, TypeInv, Steady, NEW p \in Procs, Loop(p), Starts(p) PROVE Keeps(op[p], op'[p])
<1> DEFINE n == op'[p]
<1>1. CASE StartApply(p)
  <2>1. PICK m \in Manifests, gated \in GateModes, auto \in AutoModes :
          LET r == NewRow(Send([planProduced |-> TRUE, needsApproval |-> gated], "validating", "GATE"), m)
          IN  Begin(p, "apply", [Idle EXCEPT !.kind = "apply", !.pc = "acquire", !.row = r, !.m = m, !.auto = auto])
    BY <1>1 DEF StartApply
  <2>2. n.kind = "apply" /\ n.pc = "acquire" /\ n.id = 0 /\ n.row.desired = m /\ n.m = m /\ n.auto = auto
    BY <2>1 DEF Begin, Idle, NewRow, TypeInv, TypeOK
  <2>3. op[p].pc = "idle"
    BY <2>1 DEF Begin
  <2> HIDE DEF n
  <2>4. Claims(n)
    BY <2>2 DEF Claims, Copied, Mine, Judging
  <2>5. Verified => Aims(n)
    BY <2>2 DEF Aims, Verified
  <2>6. Landed(op[p]) => Landed(n)
    BY <2>2, <2>3 DEF Landed
  <2> QED
    BY <2>4, <2>5, <2>6 DEF Keeps, n
<1>2. CASE StartTick(p)
  <2>1. PICK id \in InFlight, auto \in AutoModes :
          Begin(p, "tick", [Idle EXCEPT !.kind = "tick", !.pc = "tickLoad", !.id = id, !.row = rows[id], !.auto = auto])
    BY <1>2 DEF StartTick
  <2>2. n.kind = "tick" /\ n.pc = "tickLoad" /\ n.id = id /\ n.row = rows[id] /\ op[p].pc = "idle"
    BY <2>1 DEF Begin, Idle, TypeInv, TypeOK
  <2>3. pos[id] = 0 /\ rows[id].phase = "deploying"
    BY DEF Steady, Leads
  <2> HIDE DEF n
  <2>4. Claims(n)
    BY <2>2, <2>3 DEF Claims, Copied, Mine, Judging
  <2>5. Aims(n)
    BY <2>2 DEF Aims
  <2>6. Landed(op[p]) => Landed(n)
    BY <2>2 DEF Landed
  <2> QED
    BY <2>4, <2>5, <2>6 DEF Keeps, n
<1>3. CASE StartVerify(p)
  <2> DEFINE id == Newest(Created)
  <2>1. PICK auto \in AutoModes :
          Begin(p, "verify", [Idle EXCEPT !.kind = "verify", !.pc = "finalize", !.id = id, !.row = rows[id], !.auto = auto])
    BY <1>3 DEF StartVerify
  <2>2. rows[id].phase = "verifying" /\ rows[id].desired = live /\ Created # {}
    BY <1>3 DEF StartVerify
  <2>3. n.kind = "verify" /\ n.pc = "finalize" /\ n.id = id /\ n.row = rows[id] /\ op[p].pc = "idle"
    BY <2>1 DEF Begin, Idle, TypeInv, TypeOK
  <2>4. pos[id] = 0
    BY <2>2, NewestInFront DEF Steady, TypeInv, TypeOK
  <2> HIDE DEF n, id
  <2>5. Claims(n)
    BY <2>2, <2>3, <2>4 DEF Claims, Copied, Mine, Judging
  <2>6. Aims(n)
    BY <2>3 DEF Aims
  <2>7. Landed(op[p]) => Landed(n)
    BY <2>2, <2>3 DEF Landed, Runs
  <2> QED
    BY <2>5, <2>6, <2>7 DEF Keeps, n
<1>4. ~(StartControl(p) \/ StartReject(p) \/ StartPromote(p) \/ StartRollback(p) \/ StartScheduled(p))
  <2>1. CanRun[p] \subseteq {"apply", "tick", "verify"}
    BY DEF LoneLoop
  <2>2. ~StartControl(p)
    BY <2>1 DEF StartControl, LoadThenLock, Begin
  <2>3. ~StartReject(p) /\ ~StartPromote(p) /\ ~StartScheduled(p)
    BY <2>1 DEF StartReject, StartPromote, StartScheduled, Begin
  <2>4. ~StartRollback(p)
    BY <2>1 DEF StartRollback, Begin
  <2> QED
    BY <2>2, <2>3, <2>4
<1> QED
  BY <1>1, <1>2, <1>3, <1>4 DEF Starts

\* The lock is taken and given back; a rollout that reached verifying goes to its gate.
LEMMA LockKeeps ==
    ASSUME LoneLoop, TypeInv, Steady, NEW p \in Procs, Loop(p), Acquire(p) \/ Release(p) PROVE Keeps(op[p], op'[p])
<1>1. CASE Acquire(p)
  <2>1. op[p].pc = "acquire" /\ (Goto(p, "locked") \/ Return(p))
    BY <1>1 DEF Acquire
  <2>2. ASSUME Goto(p, "locked") PROVE Keeps(op[p], op'[p])
    <3>1. Moves(op[p], op'[p], "locked")
      BY <2>2, GotoMoves
    <3> QED
      BY <2>1, <3>1, MoveKeeps DEF Loop, Unsettled
  <2> QED
    BY <2>1, <2>2, ReturnKeeps DEF Unsettled
<1>2. CASE Release(p)
  <2> DEFINE n == op'[p]
  <2>1. op[p].pc = "release" /\ AfterRelease(p) /\ op[p].kind # "schedule"
    BY <1>2 DEF Release, Loop
  <2>2. \/ /\ op[p].row.phase = "verifying" /\ op[p].kind \in {"apply", "tick"}
           /\ op' = [op EXCEPT ![p].kind = "verify", ![p].pc = "finalize"]
        \/ Return(p)
    BY <2>1 DEF AfterRelease
  <2>3. ASSUME op[p].row.phase = "verifying", op[p].kind \in {"apply", "tick"},
               op' = [op EXCEPT ![p].kind = "verify", ![p].pc = "finalize"]
        PROVE  Keeps(op[p], op'[p])
    <3>1. n.kind = "verify" /\ n.pc = "finalize" /\ n.id = op[p].id /\ n.row = op[p].row
      BY <2>3 DEF Op, TypeInv, TypeOK
    <3>2. op[p].id # 0
      BY <2>3 DEF Loop, Good
    <3> HIDE DEF n
    <3>3. Claims(n)
      BY <2>1, <2>3, <3>1, <3>2 DEF Claims, Copied, Mine, Judging, Loop
    <3>4. Aims(n)
      BY <3>1 DEF Aims
    <3>5. Landed(op[p]) => Landed(n)
      BY <2>1, <2>3, <3>1 DEF Landed
    <3> QED
      BY <3>3, <3>4, <3>5 DEF Keeps, n
  <2> QED
    BY <2>1, <2>2, <2>3, ReturnKeeps DEF Unsettled
<1> QED
  BY <1>1, <1>2

\* Apply asks InFlight and checks the baseline; what it sees live is its base.
LEMMA ApplyKeeps ==
    ASSUME LoneLoop, TypeInv, NEW p \in Procs, Loop(p), ApplyInFlight(p) \/ ApplyBaseline(p)
    PROVE  Keeps(op[p], op'[p])
<1>1. CASE ApplyInFlight(p)
  <2>1. op[p].kind = "apply" /\ op[p].pc = "locked" /\ (Goto(p, "baseline") \/ Goto(p, "release"))
    BY <1>1 DEF ApplyInFlight, At
  <2>2. op[p].row.phase # "verifying"
    BY <2>1 DEF Loop, Placed, Good
  <2>3. ASSUME NEW c \in {"baseline", "release"}, Goto(p, c) PROVE Keeps(op[p], op'[p])
    <3>1. Moves(op[p], op'[p], c)
      BY <2>3, GotoMoves
    <3> QED
      BY <2>1, <2>2, <3>1, MoveKeeps DEF Loop, Unsettled
  <2> QED
    BY <2>1, <2>3
<1>2. CASE ApplyBaseline(p)
  <2> DEFINE o == op[p]
             n == op'[p]
  <2>1. o.kind = "apply" /\ o.pc = "baseline" /\ o.id = 0
    BY <1>2 DEF ApplyBaseline, At, Loop, Placed
  <2>2. PICK blocked \in (IF o.auto THEN {TRUE, BaselineDiffers(o.m)} ELSE {FALSE}) :
          op' = [op EXCEPT ![p].pc = "create", ![p].row.blocked = blocked, ![p].base = live]
    BY <1>2 DEF ApplyBaseline
  <2>3. /\ n.kind = "apply" /\ n.pc = "create" /\ n.id = 0 /\ n.m = o.m /\ n.base = live
        /\ n.row = [o.row EXCEPT !.blocked = blocked]
    BY <2>1, <2>2 DEF TypeInv, TypeOK, Op
  <2>4. o.row \in Row
    BY <2>1, CSFacts DEF InCS, Holding
  <2>5. n.row.desired = o.row.desired /\ n.row.blocked = blocked
    BY <2>3, <2>4 DEF Row
  <2>6. o.auto /\ Verified /\ ~blocked => Known(o.m, live)
    <3> SUFFICES ASSUME o.auto, Verified, ~blocked PROVE Known(o.m, live)
      OBVIOUS
    <3>1. blocked = BaselineDiffers(o.m)
      BY <2>2
    <3>2. ~BaselineDiffers(o.m)
      BY <3>1
    <3> QED
      BY <3>2 DEF Verified, BaselineDiffers, Known
  <2> HIDE DEF n, o
  <2>7. Claims(o)
    BY DEF Loop, o
  <2>8. Claims(n)
    BY <2>1, <2>3, <2>5, <2>7 DEF Claims, Copied, Mine, Judging
  <2>9. Verified /\ Aims(o) => Aims(n)
    BY <2>1, <2>3, <2>5, <2>6 DEF Aims
  <2>10. Landed(o) => Landed(n)
    BY <2>1, <2>3 DEF Landed
  <2> QED
    BY <2>8, <2>9, <2>10 DEF Keeps, n, o
<1> QED
  BY <1>1, <1>2

\* The rows an operation in flight works on.
LEMMA DrivenDeploys ==
    ASSUME NEW p \in Procs, Loop(p), op[p].pc \in {"record", "drive", "advance", "fail"}
    PROVE  /\ op[p].kind \in {"apply", "tick"} /\ op[p].id # 0
           /\ op[p].row.phase = "deploying" /\ rows[op[p].id].phase = "deploying"
<1>1. op[p].kind \in {"apply", "tick"} /\ op[p].id # 0
  BY DEF Loop, Placed, Good
<1>2. CASE op[p].kind = "apply"
  BY <1>1, <1>2 DEF Loop, Fits, Owns, Holding
<1>3. CASE op[p].kind = "tick"
  BY <1>1, <1>3 DEF Loop, Placed, Holding, Claims, Copied
<1> QED
  BY <1>1, <1>2, <1>3

\* A step of the stepper that is not the last, and the choice of what a failure does.
LEMMA DriveKeeps ==
    ASSUME LoneLoop, TypeInv, NEW p \in Procs, Loop(p), (AdvanceStep(p) /\ op[p].k # NSteps) \/ Fail(p)
    PROVE  Keeps(op[p], op'[p])
<1> DEFINE o == op[p]
           n == op'[p]
<1>0. /\ o.pc \in {"drive", "advance", "fail"} /\ o.kind \in {"apply", "tick"} /\ o.id # 0
      /\ o.row.phase = "deploying" /\ rows[o.id].phase = "deploying"
  <2>1. o.pc \in {"drive", "advance", "fail"}
    BY DEF AdvanceStep, Fail
  <2> QED
    BY <2>1, DrivenDeploys
<1>1. CASE AdvanceStep(p) /\ op[p].k # NSteps
  <2>1. o.pc \in {"drive", "advance"}
    BY <1>1 DEF AdvanceStep
  <2>2. Goto(p, "fail") \/ op' = [op EXCEPT ![p].pc = "record", ![p].k = op[p].k + 1]
    BY <1>1 DEF AdvanceStep
  <2>3. PICK c \in {"fail", "record"} : Moves(o, n, c)
    BY <2>2, GotoMoves DEF Moves, TypeInv, TypeOK, Op
  <2> QED
    BY <1>0, <2>1, <2>3, MoveKeeps DEF Loop, Unsettled
<1>2. CASE Fail(p)
  <2>1. o.pc = "fail"
    BY <1>2 DEF Fail
  <2>2. ASSUME Goto(p, "error") PROVE Keeps(o, n)
    <3>1. Moves(o, n, "error")
      BY <2>2, GotoMoves
    <3> QED
      BY <1>0, <2>1, <3>1, MoveKeeps DEF Loop, Unsettled
  <2>3. ASSUME ~o.row.blocked, Priors(o.row.desired) # {},
               op' = [op EXCEPT ![p].pc = "revert", ![p].m = Prior(o.row.desired)]
        PROVE  Keeps(o, n)
    <3>1. n.kind = o.kind /\ n.pc = "revert" /\ n.id = o.id /\ n.row = o.row /\ n.m = Prior(o.row.desired)
      BY <2>3 DEF TypeInv, TypeOK, Op
    <3>2. Claims(o) /\ o.id \in Created
      BY <1>0 DEF Loop, Good
    <3> HIDE DEF n, o
    <3>3. pos[o.id] = 0 /\ o.row.desired = rows[o.id].desired /\ o.row.blocked = rows[o.id].blocked
      BY <1>0, <3>2 DEF Claims, Copied
    <3>4. Vouched => n.m = ran[o.id]
      BY <1>0, <2>3, <3>1, <3>2, <3>3 DEF Vouched, Known
    <3>5. Claims(n)
      BY <1>0, <2>1, <3>1, <3>2 DEF Claims, Copied, Mine, Judging
    <3>6. Vouched => Aims(n)
      BY <1>0, <3>1, <3>4 DEF Aims, Aim
    <3>7. Landed(o) => Landed(n)
      BY <2>1, <3>1 DEF Landed
    <3> QED
      BY <3>5, <3>6, <3>7 DEF Keeps
  <2> QED
    BY <1>2, <2>2, <2>3 DEF Fail
<1> QED
  BY <1>1, <1>2

\* Tick loads its row, which still deploys, and takes up the stepper.
LEMMA TickKeeps ==
    ASSUME LoneLoop, TypeInv, NEW p \in Procs, Loop(p), TickLoad(p) \/ TickStep(p)
    PROVE  Keeps(op[p], op'[p])
<1> DEFINE o == op[p]
           n == op'[p]
<1>1. CASE TickLoad(p)
  <2>1. o.pc = "tickLoad" /\ o.kind = "tick" /\ rows[o.id].phase = "deploying" /\ o.id # 0 /\ Claims(o)
    BY <1>1 DEF TickLoad, Loop, Placed, Claims, Judging, Good
  <2>2. op' = [op EXCEPT ![p].pc = "acquire", ![p].row = rows[o.id]]
    BY <1>1, <2>1 DEF TickLoad
  <2>3. n.kind = "tick" /\ n.pc = "acquire" /\ n.id = o.id /\ n.row = rows[o.id]
    BY <2>1, <2>2 DEF TypeInv, TypeOK, Op
  <2> HIDE DEF n, o
  <2>4. Claims(n)
    BY <2>1, <2>3 DEF Claims, Copied, Mine, Judging
  <2>5. Aims(n)
    BY <2>3 DEF Aims
  <2>6. Landed(o) => Landed(n)
    BY <2>1, <2>3 DEF Landed
  <2> QED
    BY <2>4, <2>5, <2>6 DEF Keeps, n, o
<1>2. CASE TickStep(p)
  <2>1. o.kind = "tick" /\ o.pc = "locked"
    BY <1>2 DEF TickStep, At
  <2>2. o.row.phase = "deploying"
    BY <2>1 DEF Loop, Placed, Holding
  <2>3. PICK c \in {"release", "fail", "advance", "record"} : Moves(o, n, c)
    BY <1>2, GotoMoves DEF TickStep, Moves, TypeInv, TypeOK, Op
  <2> QED
    BY <2>1, <2>2, <2>3, MoveKeeps DEF Loop, Unsettled
<1> QED
  BY <1>1, <1>2

\* The gate reads the prior of a row that still verifies, and decides.
LEMMA GateKeeps ==
    ASSUME LoneLoop, TypeInv, NEW p \in Procs, Loop(p),
           Finalize(p) \/ Gates(p) \/ PromoteLoad(p) \/ RollbackLoad(p) \/ RollbackLocked(p)
    PROVE  Keeps(op[p], op'[p])
<1> DEFINE o == op[p]
           n == op'[p]
<1>0. /\ o.pc \in {"finalize", "gates", "promoteLoad", "rollbackLoad", "locked"} /\ o.kind = "verify"
      /\ o.id # 0 /\ o.id \in Created /\ Claims(o)
      /\ pos[o.id] = 0 /\ rows[o.id].phase = "verifying"
      /\ o.row.desired = rows[o.id].desired /\ o.row.blocked = rows[o.id].blocked
  <2>1. /\ o.pc \in {"finalize", "gates", "promoteLoad", "rollbackLoad", "locked"}
        /\ o.pc = "locked" => o.kind \in {"verify", "rollback"}
    BY DEF Finalize, Gates, PromoteLoad, RollbackLoad, RollbackLocked
  <2>2. o.kind = "verify"
    BY <2>1 DEF Loop, Placed
  <2>3. o.id # 0 /\ o.id \in Created /\ Claims(o)
    BY <2>2 DEF Loop, Good
  <2> QED
    BY <2>1, <2>2, <2>3 DEF Claims, Copied, Judging
<1>1. CASE Return(p)
  BY <1>0, <1>1, ReturnKeeps DEF Unsettled
<1>2. CASE Finalize(p) /\ ~Return(p)
  <2> DEFINE d == rows[o.id].desired
             m == IF Priors(d) = {} THEN d ELSE Prior(d)
  <2>1. o.pc = "finalize" /\ op' = [op EXCEPT ![p].pc = "gates", ![p].row = rows[o.id], ![p].m = m]
    BY <1>0, <1>2 DEF Finalize
  <2>2. n.kind = "verify" /\ n.pc = "gates" /\ n.id = o.id /\ n.row = rows[o.id] /\ n.m = m
    BY <1>0, <2>1 DEF TypeInv, TypeOK, Op
  <2> HIDE DEF n, o
  <2>3. Vouched /\ ~rows[o.id].blocked => m \in {ran[o.id], d}
    BY <1>0 DEF Vouched, Known
  <2> HIDE DEF m
  <2>4. Claims(n)
    BY <1>0, <2>2 DEF Claims, Copied, Mine, Judging
  <2>5. Vouched => Aims(n)
    BY <2>2, <2>3 DEF Aims, Aim
  <2>6. Landed(o) => Landed(n)
    BY <1>0, <2>1, <2>2 DEF Landed
  <2> QED
    BY <2>4, <2>5, <2>6 DEF Keeps, n, o
<1>3. CASE Gates(p) /\ ~Return(p)
  <2>1. o.pc = "gates"
    BY <1>3 DEF Gates
  <2>2. ASSUME Goto(p, "promoteLoad") PROVE Keeps(o, n)
    <3>1. Moves(o, n, "promoteLoad")
      BY <2>2, GotoMoves
    <3> QED
      BY <1>0, <2>1, <3>1, MoveKeeps DEF Unsettled
  <2>3. ASSUME Goto(p, "rollbackLoad"), ~o.row.blocked PROVE Keeps(o, n)
    <3>1. Moves(o, n, "rollbackLoad")
      BY <2>3, GotoMoves
    <3> HIDE DEF n, o
    <3>2. Claims(n)
      BY <1>0, <3>1 DEF Claims, Copied, Mine, Judging, Moves
    <3>3. Aims(o) => Aims(n)
      BY <1>0, <2>1, <2>3, <3>1 DEF Aims, Aim, Moves
    <3>4. Landed(o) => Landed(n)
      BY <1>0, <2>1, <3>1 DEF Landed, Moves
    <3> QED
      BY <3>2, <3>3, <3>4 DEF Keeps
  <2> QED
    BY <1>3, <2>2, <2>3 DEF Gates
<1>4. CASE PromoteLoad(p) /\ ~Return(p)
  <2>1. /\ o.pc = "promoteLoad"
        /\ op' = [op EXCEPT ![p].pc = "promoteSave",
                            ![p].row = [rows[o.id] EXCEPT !.phase = Send(Resumed, rows[o.id].phase, "VERIFY_OK")]]
    BY <1>4 DEF PromoteLoad
  <2>2. rows[o.id] \in Row
    BY <1>0, RowExists DEF TypeInv, TypeOK, StoreOK
  <2>3. /\ n.kind = "verify" /\ n.pc = "promoteSave" /\ n.id = o.id
        /\ n.row.desired = rows[o.id].desired /\ n.row.blocked = rows[o.id].blocked
    BY <1>0, <2>1, <2>2 DEF TypeInv, TypeOK, Op, Row
  <2> HIDE DEF n, o
  <2>4. Claims(n)
    BY <1>0, <2>3 DEF Claims, Copied, Mine, Judging
  <2>5. Aims(n)
    BY <2>3 DEF Aims
  <2>6. Landed(o) => Landed(n)
    BY <1>0, <2>1, <2>3 DEF Landed
  <2> QED
    BY <2>4, <2>5, <2>6 DEF Keeps, n, o
<1>5. CASE RollbackLoad(p)
  <2>1. o.pc = "rollbackLoad" /\ op' = [op EXCEPT ![p].pc = "acquire", ![p].row = rows[o.id]]
    BY <1>5 DEF RollbackLoad
  <2>2. n.kind = "verify" /\ n.pc = "acquire" /\ n.id = o.id /\ n.row = rows[o.id] /\ n.m = o.m
    BY <1>0, <2>1 DEF TypeInv, TypeOK, Op
  <2> HIDE DEF n, o
  <2>3. Claims(n)
    BY <1>0, <2>2 DEF Claims, Copied, Mine, Judging
  <2>4. Aims(o) => Aims(n)
    BY <1>0, <2>1, <2>2 DEF Aims, Aim
  <2>5. Landed(o) => Landed(n)
    BY <1>0, <2>1, <2>2 DEF Landed
  <2> QED
    BY <2>3, <2>4, <2>5 DEF Keeps, n, o
<1>6. CASE RollbackLocked(p)
  <2>1. o.pc = "locked"
    BY <1>6 DEF RollbackLocked
  <2>2. PICK c \in {"revert", "release"} : Moves(o, n, c)
    BY <1>6, GotoMoves DEF RollbackLocked
  <2> QED
    BY <1>0, <2>1, <2>2, MoveKeeps DEF Unsettled
<1> QED
  BY <1>1, <1>2, <1>3, <1>4, <1>5, <1>6

\* A refused write ends the operation or, for recordStep, is passed over.
LEMMA StoreErrorKeeps ==
    ASSUME LoneLoop, TypeInv, NEW p \in Procs, Loop(p), StoreError(p)
    PROVE  Claims(op'[p]) /\ (Aims(op[p]) => Aims(op'[p]))
<1> DEFINE o == op[p]
           n == op'[p]
<1>1. CASE o.pc = "record"
  <2>1. op' = [op EXCEPT ![p].pc = "drive", ![p].row = [o.row EXCEPT !.step = o.k]]
    BY <1>1 DEF StoreError, InCS, Holding
  <2>2. o.row \in Row
    BY <1>1, CSFacts DEF InCS, Holding
  <2>3. /\ n.kind = o.kind /\ n.pc = "drive" /\ n.id = o.id
        /\ n.row.desired = o.row.desired /\ n.row.blocked = o.row.blocked /\ n.row.phase = o.row.phase
    BY <2>1, <2>2 DEF TypeInv, TypeOK, Op, Row
  <2>4. Claims(o)
    BY DEF Loop
  <2> HIDE DEF n, o
  <2>5. Claims(n)
    BY <1>1, <2>3, <2>4 DEF Claims, Copied, Mine, Judging
  <2>6. Aims(n)
    BY <2>3 DEF Aims
  <2> QED
    BY <2>5, <2>6 DEF n, o
<1>2. CASE o.pc # "record" /\ InCS(p)
  <2>1. Goto(p, "release")
    BY <1>2 DEF StoreError
  <2>2. Moves(o, n, "release")
    BY <2>1, GotoMoves
  <2>3. Claims(o) /\ o.pc # "promoteSave"
    BY <1>2 DEF Loop, InCS, Holding
  <2> HIDE DEF n, o
  <2>4. Claims(n)
    BY <2>2, <2>3 DEF Claims, Copied, Mine, Judging, Moves
  <2>5. Aims(n)
    BY <2>2 DEF Aims, Moves
  <2> QED
    BY <2>4, <2>5 DEF n, o
<1>3. CASE ~InCS(p)
  <2>1. Return(p)
    BY <1>3 DEF StoreError, InCS, Holding
  <2>2. n = Idle
    BY <2>1 DEF Return, TypeInv, TypeOK
  <2>3. n.kind = "none" /\ n.pc = "idle" /\ n.id = 0
    BY <2>2 DEF Idle
  <2> HIDE DEF n, o
  <2>4. Claims(n) /\ Aims(n)
    BY <2>3 DEF Claims, Copied, Mine, Judging, Aims
  <2> QED
    BY <2>4 DEF n, o
<1> QED
  BY <1>1, <1>2, <1>3

\* SaveRollout of the row in front changes that row and no place.
LEMMA FrontSave ==
    ASSUME StoreOK, NEW id \in Created, pos[id] = 0, NEW r \in Row, Save(id, r)
    PROVE  /\ pos' = pos /\ Created' = Created
           /\ \A j \in Ids : rows'[j] = IF j = id THEN r ELSE rows[j]
<1>1. id \in Ids /\ Exists(id)
  BY DEF Created
<1>2. \A j \in Ids : rows'[j] = IF j = id THEN r ELSE rows[j]
  BY DEF Save, StoreOK
<1>3. \A j \in Ids : ~(pos[j] < 0)
  BY DEF StoreOK
<1>4. pos' = [j \in Ids |-> IF j = id THEN 0
                            ELSE IF Exists(j) /\ (Exists(id) => pos[j] < pos[id]) THEN pos[j] + 1 ELSE pos[j]]
  BY DEF Save
<1>5. \A j \in Ids : pos'[j] = pos[j]
  BY <1>1, <1>3, <1>4
<1>6. pos' = pos
  BY <1>4, <1>5 DEF StoreOK
<1>7. r.phase # "none"
  BY DEF Row, Phases
<1>8. Created' = Created
  BY <1>1, <1>2, <1>7 DEF Created, Exists
<1> QED
  BY <1>2, <1>6, <1>8

\* The prior of a row's manifest does not depend on that row.
LEMMA PriorStays ==
    ASSUME StoreOK, NEW id \in Created, NEW d, rows[id].desired = d, rows'[id].desired = d,
           pos' = pos, Created' = Created, \A j \in Ids : j # id => rows'[j] = rows[j], NEW x, Known(d, x)
    PROVE  Known(d, x)'
<1>1. Priors(d)' = Priors(d)
  BY DEF Priors, Created
<1>2. CASE Priors(d) = {}
  BY <1>1, <1>2 DEF Known
<1>3. CASE Priors(d) # {}
  <2>1. Newest(Priors(d)) \in Priors(d)
    BY <1>3, NewestIsMember DEF Priors, Created, StoreOK
  <2>2. Newest(Priors(d))' = Newest(Priors(d))
    BY <1>1 DEF Newest
  <2>3. Newest(Priors(d)) \in Ids /\ Newest(Priors(d)) # id
    BY <2>1 DEF Priors, Created
  <2>4. Prior(d)' = Prior(d)
    BY <2>2, <2>3 DEF Prior
  <2> QED
    BY <1>3, <2>4 DEF Known
<1> QED
  BY <1>2, <1>3

\* The loop stores the row r in place of its own, and goes on with it or returns.
Rewrites(p, r) ==
    LET o == op[p]
        n == op'[p]
    IN  /\ o.id # 0 /\ r \in Row /\ Save(o.id, r)
        /\ live' = live /\ ran' = ran /\ faults' = faults
        /\ Flies(r) => r.phase = "deploying" /\ rows[o.id].phase = "deploying" /\ r.desired = rows[o.id].desired
        /\ \/ n.id = 0 /\ n.kind = "none" /\ n.pc = "idle"
           \/ /\ n.id = o.id /\ n.kind = o.kind
              /\ n.row.desired = r.desired /\ n.row.blocked = r.blocked /\ n.row.phase = r.phase
              /\ n.pc \in {"drive", "fail", "release"} /\ (n.kind = "verify" => n.pc = "release")

\* A rewrite keeps the places of all rows, and its row is the one in front.
LEMMA RewriteFacts ==
    ASSUME LoneLoop, TypeInv, Steady, NEW p \in Procs, Loop(p), NEW r, Rewrites(p, r)
    PROVE  /\ op[p].id \in Created /\ pos[op[p].id] = 0 /\ pos' = pos /\ Created' = Created
           /\ \A j \in Ids : rows'[j] = IF j = op[p].id THEN r ELSE rows[j]
           /\ \A j \in Created : pos[j] = 0 => j = op[p].id
<1>1. op[p].id \in Created /\ pos[op[p].id] = 0
  BY DEF Loop, Good, Claims, Copied, Rewrites
<1>2. StoreOK /\ r \in Row /\ Save(op[p].id, r)
  BY DEF Rewrites, TypeInv, TypeOK, StoreOK
<1>3. /\ pos' = pos /\ Created' = Created
      /\ \A j \in Ids : rows'[j] = IF j = op[p].id THEN r ELSE rows[j]
  BY <1>1, <1>2, FrontSave
<1> QED
  BY <1>1, <1>3 DEF Steady, Ordered

\* The rows stay in order, and the copy is the row that was stored.
LEMMA RewriteSteady ==
    ASSUME LoneLoop, TypeInv, Steady, NEW p \in Procs, Loop(p), NEW r, Rewrites(p, r) PROVE Steady'
<1> DEFINE id == op[p].id
<1>1. /\ id \in Created /\ id \in Ids /\ pos[id] = 0 /\ pos' = pos /\ Created' = Created
      /\ \A j \in Ids : rows'[j] = IF j = id THEN r ELSE rows[j]
  BY RewriteFacts DEF Created
<1>2. Ordered'
  BY <1>1 DEF Steady, Ordered
<1>3. ASSUME NEW i \in InFlight' PROVE pos'[i] = 0 /\ rows'[i].phase = "deploying"
  <2>1. i \in Ids /\ rows'[i].phase \in InFlightPhase
    BY <1>3 DEF InFlight
  <2>2. CASE i = id
    BY <1>1, <2>1, <2>2 DEF Rewrites, Flies
  <2>3. CASE i # id
    BY <1>1, <2>1, <2>3 DEF Steady, Leads, InFlight
  <2> QED
    BY <2>2, <2>3
<1>4. Claims(op[p])'
  <2>1. CASE op'[p].id = 0 /\ op'[p].kind = "none" /\ op'[p].pc = "idle"
    BY <2>1 DEF Claims, Copied, Mine, Judging
  <2>2. CASE /\ op'[p].id = id /\ op'[p].kind = op[p].kind
             /\ op'[p].row.desired = r.desired /\ op'[p].row.blocked = r.blocked /\ op'[p].row.phase = r.phase
             /\ op'[p].pc \in {"drive", "fail", "release"} /\ (op'[p].kind = "verify" => op'[p].pc = "release")
    <3>1. rows'[op'[p].id] = r /\ pos'[op'[p].id] = 0
      BY <1>1, <2>2
    <3> QED
      BY <2>2, <3>1 DEF Claims, Copied, Mine, Judging
  <2> QED
    BY <2>1, <2>2 DEF Rewrites
<1>5. \A q \in Procs : Claims(op[q])'
  BY <1>4 DEF LoneLoop, OneCaller
<1> QED
  BY <1>2, <1>3, <1>5 DEF Steady, Leads

\* A row that is stored again with its manifest keeps its baseline.
LEMMA RewriteBacked ==
    ASSUME LoneLoop, TypeInv, Steady, Backed, NEW p \in Procs, Loop(p), NEW r, Rewrites(p, r),
           ~r.blocked /\ r.phase \in {"deploying", "verifying"} =>
               /\ r.desired = rows[op[p].id].desired /\ ~rows[op[p].id].blocked
               /\ rows[op[p].id].phase \in {"deploying", "verifying"}
    PROVE  Backed'
<1>0. PICK id \in Created : id = op[p].id
  BY RewriteFacts
<1>1. /\ id \in Created /\ id \in Ids /\ pos[id] = 0 /\ pos' = pos /\ Created' = Created
      /\ \A j \in Ids : rows'[j] = IF j = id THEN r ELSE rows[j]
      /\ \A j \in Created : pos[j] = 0 => j = id
  BY <1>0, RewriteFacts DEF Created
<1>2. ran' = ran
  BY DEF Rewrites
<1>3. ASSUME NEW i \in Created', pos'[i] = 0, ~rows'[i].blocked, rows'[i].phase \in {"deploying", "verifying"}
      PROVE  Known(rows[i].desired, ran[i])'
  <2>1. i = id /\ rows'[i] = r
    BY <1>1, <1>3
  <2>2. r.desired = rows[id].desired /\ Known(r.desired, ran[id])
    BY <1>0, <1>1, <1>3, <2>1 DEF Backed, Vouched
  <2>3. StoreOK
    BY DEF TypeInv, TypeOK, StoreOK
  <2>4. PICK d, x : d = r.desired /\ x = ran[id]
    OBVIOUS
  <2>5. Known(d, x)'
    <3>1. rows[id].desired = d /\ rows'[id].desired = d /\ Known(d, x)
      BY <2>1, <2>2, <2>4
    <3>2. \A j \in Ids : j # id => rows'[j] = rows[j]
      BY <1>1
    <3> QED
      BY <1>1, <2>3, <3>1, <3>2, PriorStays
  <2>6. d = rows'[i].desired /\ x = ran'[i]
    BY <1>2, <2>1, <2>4
  <2> QED
    BY <2>5, <2>6
<1>4. Aims(op[p])'
  <2>1. op'[p].pc \in {"idle", "release", "drive", "fail"}
    BY DEF Rewrites
  <2> QED
    BY <2>1 DEF Aims
<1>5. \A q \in Procs : Aims(op[q])'
  BY <1>4 DEF LoneLoop, OneCaller
<1> QED
  BY <1>3, <1>5 DEF Backed, Vouched

\* What is stored promoted, or is handed to the gate, runs.
LEMMA RewriteLives ==
    ASSUME LoneLoop, TypeInv, Steady, Lives, NEW p \in Procs, Loop(p), NEW r, Rewrites(p, r),
           op[p].pc \in Unsettled => r.phase = "rolledback",
           r.phase \in {"promoted", "verifying"} =>
               /\ r.desired = rows[op[p].id].desired
               /\ faults = 0 => Runs(op[p].id)
    PROVE  Lives'
<1> SUFFICES ASSUME faults' = 0 PROVE Shown' /\ \A q \in Procs : Landed(op[q])'
  BY DEF Lives
<1>0. PICK id \in Created : id = op[p].id
  BY RewriteFacts
<1>1. /\ id \in Created /\ id \in Ids /\ pos[id] = 0 /\ pos' = pos /\ Created' = Created
      /\ \A j \in Ids : rows'[j] = IF j = id THEN r ELSE rows[j]
      /\ \A j \in Created : pos[j] = 0 => j = id
  BY <1>0, RewriteFacts DEF Created
<1>2. live' = live /\ faults = 0 /\ Landed(op[p])
  BY DEF Rewrites, Lives
<1>3. ASSUME NEW i \in Created', pos'[i] = 0, rows'[i].phase = "promoted" PROVE Runs(i)'
  <2>1. i = id /\ rows'[i] = r
    BY <1>1, <1>3
  <2> QED
    BY <1>0, <1>2, <1>3, <2>1 DEF Runs
<1>4. ASSUME NEW i \in InFlight' PROVE Runs(i)'
  <2>1. i \in Ids /\ rows'[i].phase \in InFlightPhase
    BY <1>4 DEF InFlight
  <2>2. i = id
    <3> SUFFICES ASSUME i # id PROVE FALSE
      OBVIOUS
    <3>1. i \in InFlight /\ i \in Created
      BY <1>1, <2>1 DEF InFlight, Created, Exists, InFlightPhase
    <3> QED
      BY <1>1, <3>1 DEF Steady, Leads
  <2>3. rows'[i] = r /\ Flies(r)
    BY <1>1, <2>1, <2>2 DEF Flies
  <2>4. r.desired = rows[id].desired /\ id \in InFlight /\ op[p].pc \notin Unsettled
    BY <1>0, <1>1, <2>3 DEF Rewrites, InFlight, InFlightPhase, Flies
  <2>5. Runs(id)
    BY <1>2, <2>4 DEF Landed, Unsettled
  <2> QED
    BY <1>2, <2>2, <2>3, <2>4, <2>5 DEF Runs
<1>5. ASSUME \/ op'[p].kind = "verify" /\ op'[p].pc \in {"finalize", "gates", "promoteLoad", "promoteSave"}
             \/ op'[p].pc = "release" /\ op'[p].row.phase = "verifying" /\ op'[p].kind # "verify"
      PROVE  Runs(op[p].id)'
  <2>1. op'[p].pc = "release" /\ op'[p].id = id /\ r.phase = "verifying"
    BY <1>0, <1>5 DEF Rewrites
  <2>2. rows'[id] = r /\ Runs(id) /\ r.desired = rows[id].desired
    BY <1>0, <1>1, <1>2, <2>1
  <2> QED
    BY <1>2, <2>1, <2>2 DEF Runs
<1>6. Landed(op[p])'
  BY <1>4, <1>5 DEF Landed
<1>7. \A q \in Procs : Landed(op[q])'
  BY <1>6 DEF LoneLoop, OneCaller
<1> QED
  BY <1>3, <1>7 DEF Shown

\* What a step of the loop upholds.
Upholds == Steady' /\ (Verified /\ Backed => Backed') /\ (Lives => Lives')

\* A rewrite that keeps the manifest, and settles what it leaves open, upholds the claims.
LEMMA RewriteUpholds ==
    ASSUME LoneLoop, TypeInv, Steady, NEW p \in Procs, Loop(p), NEW r, Rewrites(p, r),
           ~r.blocked /\ r.phase \in {"deploying", "verifying"} =>
               /\ r.desired = rows[op[p].id].desired /\ ~rows[op[p].id].blocked
               /\ rows[op[p].id].phase \in {"deploying", "verifying"},
           op[p].pc \in Unsettled => r.phase = "rolledback",
           r.phase \in {"promoted", "verifying"} =>
               /\ r.desired = rows[op[p].id].desired
               /\ Lives /\ faults = 0 => Runs(op[p].id)
    PROVE  Upholds
<1>1. Steady'
  BY RewriteSteady
<1>2. Backed => Backed'
  BY RewriteBacked
<1>3. Lives => Lives'
  BY RewriteLives
<1> QED
  BY <1>1, <1>2, <1>3 DEF Upholds

\* A rollout in flight that is not being deployed or failed runs.
LEMMA InFlightRuns ==
    ASSUME Lives, faults = 0, NEW p \in Procs, op[p].pc \notin Unsettled,
           op[p].id \in Created, rows[op[p].id].phase = "deploying"
    PROVE  Runs(op[p].id)
BY DEF Lives, Landed, Unsettled, InFlight, InFlightPhase, Created

\* The locals and the world after a save that goes on to the release.
LEMMA SaveRewrites ==
    ASSUME TypeInv, NEW p \in Procs, op[p].id # 0, NEW r \in Row, SaveAndRelease(p, r),
           UNCHANGED <<locks, live, queue, faults, history>>,
           Flies(r) => r.phase = "deploying" /\ rows[op[p].id].phase = "deploying" /\ r.desired = rows[op[p].id].desired
    PROVE  Rewrites(p, r)
<1>1. op'[p].pc = "release" /\ op'[p].kind = op[p].kind /\ op'[p].id = op[p].id /\ op'[p].row = r
  BY Released
<1>2. Save(op[p].id, r) /\ live' = live /\ ran' = ran /\ faults' = faults
  BY DEF SaveAndRelease, history
<1> QED
  BY <1>1, <1>2 DEF Rewrites

\* The stepper stores a step, a snapshot or its completion.
LEMMA StepperUpholds ==
    ASSUME LoneLoop, TypeInv, Steady, NEW p \in Procs, Loop(p),
           RecordStep(p) \/ Bake(p) \/ (AdvanceStep(p) /\ op[p].k = NSteps)
    PROVE  Upholds
<1> DEFINE o == op[p]
           id == op[p].id
<1>1. /\ o.pc \in {"record", "drive", "advance"} /\ o.kind \in {"apply", "tick"} /\ id # 0
      /\ o.row.phase = "deploying" /\ rows[id].phase = "deploying"
  <2>1. o.pc \in {"record", "drive", "advance"}
    BY DEF RecordStep, Bake, AdvanceStep
  <2> QED
    BY <2>1, DrivenDeploys
<1>2. o.row \in Row /\ o.k \in 0..NSteps
  <2>1. InCS(p)
    BY <1>1 DEF InCS, Holding
  <2> QED
    BY <2>1, CSFacts DEF Loop, Op
<1>3. id \in Created /\ o.row.desired = rows[id].desired /\ o.row.blocked = rows[id].blocked /\ o.pc \notin Unsettled
  BY <1>1 DEF Loop, Good, Claims, Copied, Unsettled
<1>4. ASSUME NEW r \in Row, Rewrites(p, r), r.desired = o.row.desired, r.blocked = o.row.blocked, r.phase # "promoted"
      PROVE  Upholds
  <2>1. Lives /\ faults = 0 => Runs(id)
    BY <1>1, <1>3, InFlightRuns
  <2> QED
    BY <1>1, <1>3, <1>4, <2>1, RewriteUpholds
<1>5. CASE RecordStep(p)
  <2> DEFINE r == [o.row EXCEPT !.step = o.k]
  <2>1. r \in Row /\ r.desired = o.row.desired /\ r.blocked = o.row.blocked /\ r.phase = "deploying"
    BY <1>1, <1>2 DEF Row
  <2>2. PICK c \in {"drive", "fail"} : op' = [op EXCEPT ![p].pc = c, ![p].row = r]
    BY <1>5 DEF RecordStep
  <2>3. op'[p].pc = c /\ op'[p].row = r /\ op'[p].id = id /\ op'[p].kind = o.kind
    BY <2>2 DEF TypeInv, TypeOK, Op
  <2>4. Save(id, r) /\ live' = live /\ ran' = ran /\ faults' = faults
    BY <1>5 DEF RecordStep, history
  <2> HIDE DEF r
  <2>5. Rewrites(p, r)
    BY <1>1, <1>3, <2>1, <2>3, <2>4 DEF Rewrites
  <2> QED
    BY <1>4, <2>1, <2>5
<1>6. CASE Bake(p)
  <2> DEFINE r == [o.row EXCEPT !.snap = o.k]
  <2>1. r \in Row /\ r.desired = o.row.desired /\ r.blocked = o.row.blocked /\ r.phase = "deploying"
    BY <1>1, <1>2 DEF Row
  <2>2. SaveAndRelease(p, r) /\ UNCHANGED <<locks, live, queue, faults, history>>
    BY <1>6 DEF Bake
  <2> HIDE DEF r
  <2>3. Rewrites(p, r)
    BY <1>1, <1>3, <2>1, <2>2, SaveRewrites
  <2> QED
    BY <1>4, <2>1, <2>3
<1>7. CASE AdvanceStep(p) /\ o.k = NSteps
  <2> DEFINE r == [o.row EXCEPT !.snap = o.k, !.phase = Send(Resumed, o.row.phase, "DEPLOYED")]
  <2>0. Send(Resumed, o.row.phase, "DEPLOYED") = "verifying" /\ "verifying" \in Phases
    BY <1>1, Charted DEF Phases
  <2>1. r \in Row /\ r.desired = o.row.desired /\ r.blocked = o.row.blocked /\ r.phase = "verifying"
    BY <1>1, <1>2, <2>0 DEF Row
  <2>2. SaveAndRelease(p, r) /\ UNCHANGED <<locks, live, queue, faults, history>>
    BY <1>2, <1>7 DEF AdvanceStep
  <2> HIDE DEF r
  <2>3. ~Flies(r)
    BY <2>1 DEF Flies, InFlightPhase
  <2>4. Rewrites(p, r)
    BY <1>1, <1>3, <2>1, <2>2, <2>3, SaveRewrites
  <2> QED
    BY <1>4, <2>1, <2>4
<1> QED
  BY <1>5, <1>6, <1>7

\* A failed or reverted deploy is stored rolled back.
LEMMA RolledBackUpholds ==
    ASSUME LoneLoop, TypeInv, Steady, NEW p \in Procs, Loop(p), StoreFailed(p) \/ StoreReverted(p)
    PROVE  Upholds
<1>1. op[p].pc \in {"error", "reverted"} /\ InCS(p)
  BY DEF StoreFailed, StoreReverted, InCS, Holding
<1>2. op[p].id # 0 /\ op[p].row \in Row
  BY <1>1, CSFacts, IdFacts
<1>3. op[p].pc = "reverted" => op[p].m \in Manifests
  BY <1>1 DEF Loop, Good, Op
<1>4. PICK r \in Row : /\ r.phase = "rolledback" /\ SaveAndRelease(p, r)
                       /\ UNCHANGED <<locks, live, queue, faults, history>>
  <2>1. CASE StoreFailed(p)
    <3> DEFINE r == RolledBack(op[p].row)
    <3>1. r \in Row /\ r.phase = "rolledback"
      BY <1>2 DEF RolledBack, Row, Phases
    <3> QED
      BY <2>1, <3>1 DEF StoreFailed
  <2>2. CASE StoreReverted(p)
    <3> DEFINE r == [RolledBack(op[p].row) EXCEPT !.desired = op[p].m]
    <3>0. op[p].m \in Manifests
      BY <1>3, <2>2 DEF StoreReverted
    <3>1. r \in Row /\ r.phase = "rolledback"
      BY <1>2, <3>0 DEF RolledBack, Row, Phases
    <3> QED
      BY <2>2, <3>1 DEF StoreReverted
  <2> QED
    BY <2>1, <2>2
<1>5. ~Flies(r)
  BY <1>4 DEF Flies, InFlightPhase
<1>6. Rewrites(p, r)
  BY <1>2, <1>4, <1>5, SaveRewrites
<1> QED
  BY <1>4, <1>6, RewriteUpholds

\* An interrupted rollout goes to its gate with its rollback blocked.
LEMMA RecoverUpholds ==
    ASSUME LoneLoop, TypeInv, Steady, NEW p \in Procs, Loop(p), TickRecover(p) PROVE Upholds
<1> DEFINE o == op[p]
           r == Recovered(o.row)
<1>1. o.kind = "tick" /\ o.pc = "locked" /\ InCS(p)
  BY DEF TickRecover, At, InCS, Holding
<1>2. o.id # 0 /\ o.id \in Created /\ o.row \in Row /\ o.pc \notin Unsettled
  BY <1>1, CSFacts, IdFacts DEF Unsettled
<1>3. o.row.phase = "deploying" /\ rows[o.id].phase = "deploying" /\ o.row.desired = rows[o.id].desired
  BY <1>1, <1>2 DEF Loop, Placed, Holding, Claims, Copied
<1>4. r \in Row /\ r.phase = "verifying" /\ r.blocked = TRUE /\ r.desired = o.row.desired
  BY <1>2 DEF Recovered, Row, Phases
<1>5. SaveAndRelease(p, r) /\ UNCHANGED <<locks, live, queue, faults, history>>
  BY DEF TickRecover
<1> HIDE DEF r
<1>6. ~Flies(r)
  BY <1>4 DEF Flies, InFlightPhase
<1>7. Rewrites(p, r)
  BY <1>2, <1>4, <1>5, <1>6, SaveRewrites
<1>8. Lives /\ faults = 0 => Runs(o.id)
  BY <1>2, <1>3, InFlightRuns
<1> QED
  BY <1>2, <1>3, <1>4, <1>7, <1>8, RewriteUpholds

\* The gate promotes the row that it judged.
LEMMA PromoteUpholds ==
    ASSUME LoneLoop, TypeInv, Steady, NEW p \in Procs, Loop(p), PromoteSave(p) PROVE Upholds
<1> DEFINE o == op[p]
           r == op[p].row
<1>1. o.pc = "promoteSave" /\ o.kind = "verify" /\ r.phase = "promoted" /\ o.id # 0
  BY DEF PromoteSave, Loop, Placed, Good
<1>2. r \in Row
  BY <1>1 DEF Loop, Good, Op
<1>3. op'[p] = Idle /\ Save(o.id, r) /\ live' = live /\ ran' = ran /\ faults' = faults
  BY DEF PromoteSave, Return, TypeInv, TypeOK, history
<1>4. op'[p].id = 0 /\ op'[p].kind = "none" /\ op'[p].pc = "idle"
  BY <1>3 DEF Idle
<1>5. ~Flies(r)
  BY <1>1 DEF Flies, InFlightPhase
<1>6. Rewrites(p, r)
  BY <1>1, <1>2, <1>3, <1>4, <1>5 DEF Rewrites
<1>7. r.desired = rows[o.id].desired /\ o.pc \notin Unsettled
  BY <1>1 DEF Loop, Claims, Copied, Unsettled
<1>8. Lives /\ faults = 0 => Runs(o.id)
  BY <1>1 DEF Lives, Landed
<1> QED
  BY <1>1, <1>6, <1>7, <1>8, RewriteUpholds

\* The prior of a manifest depends on the rows and their places only.
LEMMA KnownSame ==
    ASSUME rows' = rows, pos' = pos, NEW m, NEW x PROVE Known(m, x)' <=> Known(m, x)
<1>1. Priors(m)' = Priors(m)
  BY DEF Priors, Created, Exists
<1>2. Newest(Priors(m))' = Newest(Priors(m))
  BY <1>1 DEF Newest
<1> QED
  BY <1>1, <1>2 DEF Known, Prior

\* Claims about rows that did not change.
LEMMA ClaimsCarry ==
    ASSUME LoneLoop, Steady, rows' = rows, pos' = pos, NEW p \in Procs, Claims(op'[p]) PROVE Steady'
<1>1. Created' = Created /\ InFlight' = InFlight
  BY DEF Created, Exists, InFlight
<1>2. Ordered' /\ Leads'
  BY <1>1 DEF Steady, Ordered, Leads
<1>3. Claims(op[p])'
  BY DEF Claims, Copied, Mine, Judging
<1>4. \A q \in Procs : Claims(op[q])'
  BY <1>3 DEF LoneLoop, OneCaller
<1> QED
  BY <1>2, <1>4 DEF Steady

\* What the locals aim at carries over to rows that did not change.
LEMMA AimsCarry ==
    ASSUME LoneLoop, Backed, rows' = rows, pos' = pos, ran' = ran, NEW p \in Procs, Aims(op'[p]) PROVE Backed'
<1>1. Created' = Created
  BY DEF Created, Exists
<1>2. \A m, x : Known(m, x)' <=> Known(m, x)
  BY KnownSame
<1>3. Vouched'
  BY <1>1, <1>2 DEF Backed, Vouched
<1>4. Aims(op[p])'
  BY <1>2 DEF Aims, Aim
<1>5. \A q \in Procs : Aims(op[q])'
  BY <1>4 DEF LoneLoop, OneCaller
<1> QED
  BY <1>3, <1>5 DEF Backed

\* A step that changes only the loop's locals.
LEMMA KeepsUpholds ==
    ASSUME LoneLoop, Steady, rows' = rows, pos' = pos, live' = live, ran' = ran, faults' = faults,
           NEW p \in Procs, Keeps(op[p], op'[p])
    PROVE  Upholds
<1>1. Steady'
  BY ClaimsCarry DEF Keeps
<1>2. Verified /\ Backed => Backed'
  BY AimsCarry DEF Keeps, Backed
<1>3. ASSUME Lives PROVE Lives'
  <2> SUFFICES ASSUME faults = 0 PROVE Shown' /\ \A q \in Procs : Landed(op[q])'
    BY DEF Lives
  <2>1. Created' = Created /\ InFlight' = InFlight
    BY DEF Created, Exists, InFlight
  <2>2. Shown'
    BY <1>3, <2>1 DEF Lives, Shown, Runs
  <2>3. Landed(op'[p])
    BY <1>3 DEF Lives, Keeps
  <2>4. Landed(op[p])'
    BY <2>1, <2>3 DEF Landed, Runs
  <2> QED
    BY <2>2, <2>4 DEF LoneLoop, OneCaller
<1> QED
  BY <1>1, <1>2, <1>3 DEF Upholds

\* A step that deploys while the row in front is in flight or verifying.
LEMMA DeployUpholds ==
    ASSUME LoneLoop, TypeInv, Steady, rows' = rows, pos' = pos, ran' = ran, faults' = faults,
           NEW p \in Procs, Loop(p), op[p].id # 0, rows[op[p].id].phase \in {"deploying", "verifying"},
           Claims(op'[p]), Aims(op[p]) => Aims(op'[p]),
           \/ op'[p].pc \in Unsettled
           \/ rows[op[p].id].phase = "verifying"
           \/ live' = rows[op[p].id].desired,
           op'[p].pc \in Unsettled \/ op'[p].pc = "record" \/ (op'[p].pc = "release" /\ op'[p].kind = "verify")
    PROVE  Upholds
<1>1. Steady'
  BY ClaimsCarry
<1>2. Verified /\ Backed => Backed'
  BY AimsCarry DEF Backed
<1>3. ASSUME Lives PROVE Lives'
  <2> SUFFICES Shown' /\ \A q \in Procs : Landed(op[q])'
    BY DEF Lives
  <2>1. Created' = Created /\ InFlight' = InFlight /\ InFlight \subseteq Created
    BY DEF Created, Exists, InFlight, InFlightPhase
  <2>2. op[p].id \in Created /\ pos[op[p].id] = 0 /\ \A i \in Created : pos[i] = 0 => i = op[p].id
    BY DEF Loop, Good, Claims, Copied, Steady, Ordered
  <2>3. Shown'
    BY <2>1, <2>2 DEF Shown
  <2>4. ASSUME NEW i \in InFlight PROVE i = op[p].id /\ rows[i].phase = "deploying"
    BY <2>1, <2>2, <2>4 DEF Steady, Leads
  <2>5. \A i \in InFlight' : Runs(i)' \/ op'[p].pc \in Unsettled
    BY <2>1, <2>4 DEF Runs
  <2>6. Landed(op[p])'
    BY <2>5 DEF Landed, Unsettled
  <2> QED
    BY <2>3, <2>6 DEF LoneLoop, OneCaller
<1> QED
  BY <1>1, <1>2, <1>3 DEF Upholds

\* deployOnce, and the re-apply of a rollback.
LEMMA DeploysUphold ==
    ASSUME LoneLoop, TypeInv, Steady, NEW p \in Procs, Loop(p), ApplyDeploy(p) \/ Revert(p) PROVE Upholds
<1> DEFINE o == op[p]
           n == op'[p]
<1>0. rows' = rows /\ pos' = pos /\ ran' = ran /\ faults' = faults
  BY DEF ApplyDeploy, Revert, store, history
<1>1. CASE ApplyDeploy(p)
  <2>1. o.kind = "apply" /\ o.pc = "deploy" /\ o.id # 0
    BY <1>1 DEF ApplyDeploy, At, Loop, Good
  <2>2. rows[o.id].phase = "deploying" /\ Claims(o)
    BY <2>1 DEF Loop, Fits, Owns, Holding
  <2>3. o.m = rows[o.id].desired
    BY <2>1, <2>2 DEF Claims, Mine, Copied
  <2>4. PICK c \in {"record", "fail"} : Moves(o, n, c) /\ (c = "record" => live' = o.m)
    BY <1>1, GotoMoves DEF ApplyDeploy, Moves, TypeInv, TypeOK, Op
  <2> HIDE DEF o, n
  <2>5. Claims(n)
    BY <2>1, <2>2, <2>4 DEF Claims, Copied, Mine, Judging, Moves
  <2>6. Aims(n)
    BY <2>4 DEF Aims, Moves
  <2>7. n.pc \in Unsettled \/ (n.pc = "record" /\ live' = rows[o.id].desired)
    BY <2>3, <2>4 DEF Moves, Unsettled
  <2> QED
    BY <1>0, <2>1, <2>2, <2>5, <2>6, <2>7, DeployUpholds DEF o, n
<1>2. CASE Revert(p)
  <2>1. o.pc = "revert" /\ o.id # 0 /\ o.kind \in {"apply", "tick", "verify"}
    BY <1>2 DEF Revert, Loop, Good, Placed
  <2>2. rows[o.id].phase = IF o.kind = "verify" THEN "verifying" ELSE "deploying"
    BY <2>1 DEF Loop, Fits, Owns, Placed, Holding, Claims, Copied, Judging
  <2>3. PICK c \in {"reverted", "error", "release"} : Moves(o, n, c) /\ (c = "release" <=> c # "reverted" /\ o.kind = "verify")
    BY <1>2, <2>1, GotoMoves DEF Revert, Deployed
  <2>4. Claims(o)
    BY DEF Loop
  <2> HIDE DEF o, n
  <2>5. Claims(n)
    BY <2>1, <2>3, <2>4 DEF Claims, Copied, Mine, Judging, Moves
  <2>6. Aims(n)
    BY <2>3 DEF Aims, Moves
  <2>7. n.pc \in Unsettled \/ (n.pc = "release" /\ n.kind = "verify" /\ rows[o.id].phase = "verifying")
    BY <2>2, <2>3 DEF Moves, Unsettled
  <2>8. rows[o.id].phase \in {"deploying", "verifying"}
    BY <2>2
  <2> QED
    BY <1>0, <2>1, <2>5, <2>6, <2>7, <2>8, DeployUpholds DEF o, n
<1> QED
  BY <1>1, <1>2

\* A step that moves every stored row one place down keeps the newest of a set.
LEMMA NewestStays ==
    ASSUME StoreOK, pos' \in [Ids -> Nat], Ordered, NEW S, S \subseteq Created, S # {},
           \A j \in Created : pos'[j] = pos[j] + 1
    PROVE  Newest(S)' = Newest(S)
<1> DEFINE Least(i) == i \in S /\ \A j \in S : pos[i] <= pos[j]
<1>1. S \subseteq Ids /\ \A j \in S : pos[j] \in Nat /\ pos'[j] = pos[j] + 1
  BY DEF Created, StoreOK
<1>2. Least(Newest(S))
  <2> DEFINE T == {pos[i] : i \in S}
  <2>0. T \subseteq Nat /\ T # {}
    BY <1>1
  <2>1. \E x \in T : \A y \in T : x <= y
    <3> HIDE DEF T
    <3> QED
      BY <2>0, LeastNatural
  <2>2. \E i \in S : \A j \in S : pos[i] <= pos[j]
    BY <2>1
  <2> QED
    BY <2>2 DEF Newest
<1>3. \A i \in S : (\A j \in S : pos'[i] <= pos'[j]) <=> (\A j \in S : pos[i] <= pos[j])
  BY <1>1
<1>4. Least(Newest(S)')
  <2>1. \E i \in S : \A j \in S : pos'[i] <= pos'[j]
    BY <1>2, <1>3
  <2>2. Newest(S)' \in S /\ \A j \in S : pos'[Newest(S)'] <= pos'[j]
    BY <2>1 DEF Newest
  <2> QED
    BY <1>3, <2>2
<1>5. \A i, j : Least(i) /\ Least(j) => i = j
  BY <1>1 DEF Ordered
<1> QED
  BY <1>2, <1>4, <1>5

\* The row of an Apply is stored in front of all others, and nothing else is in flight.
LEMMA CreateUpholds ==
    ASSUME LoneLoop, TypeInv, TypeInv', Steady, Alone, NEW p \in Procs, Loop(p), ApplyCreate(p) PROVE Upholds
<1>1. PICK f \in Ids \ Created : f = FreshId
  BY FreshIdType DEF ApplyCreate
<1>2. PICK r, m, base :
        /\ r \in Row /\ r = op[p].row /\ m = op[p].m /\ base = op[p].base
        /\ op[p].kind = "apply" /\ op[p].pc = "create" /\ op[p].id = 0
        /\ r.phase \in {"deploying", "awaiting"} /\ r.desired = m
  <2>1. op[p].kind = "apply" /\ op[p].pc = "create" /\ op[p].row \in Row
    BY CSFacts DEF ApplyCreate, At, InCS, Holding
  <2>2. op[p].id = 0 /\ op[p].row.phase \in {"deploying", "awaiting"} /\ op[p].row.desired = op[p].m
    BY <2>1 DEF Loop, Placed, Claims, Mine
  <2> QED
    BY <2>1, <2>2
<1>3. StoreOK /\ pos' \in [Ids -> Nat] /\ ran \in [Ids -> Manifests \cup {Foreign, None}]
  BY DEF TypeInv, TypeOK, StoreOK
<1>4. Save(f, r) /\ live' = live /\ faults' = faults
  BY <1>1, <1>2 DEF ApplyCreate
<1>5. /\ \A j \in Ids : rows'[j] = IF j = f THEN r ELSE rows[j]
      /\ pos'[f] = 0 /\ \A j \in Created : pos'[j] = pos[j] + 1
  <2>1. ~Exists(f)
    BY DEF Created
  <2>2. \A j \in Created : j \in Ids /\ j # f /\ Exists(j)
    BY DEF Created
  <2> QED
    BY <1>3, <1>4, <2>1, <2>2 DEF Save, StoreOK
<1>6. Created' = Created \cup {f}
  <2>1. r.phase # "none"
    BY <1>2
  <2> QED
    BY <1>5, <2>1 DEF Created, Exists
<1>7. \A j \in Created : pos'[j] # 0
  BY <1>3, <1>5 DEF Created, StoreOK
<1>8. InFlight = {}
  BY <1>2 DEF Alone, Clearing, InFlight, Ids
<1>9. \A i \in InFlight' : i = f /\ r.phase = "deploying"
  BY <1>2, <1>5, <1>8 DEF InFlight, InFlightPhase
<1>10. /\ op'[p].kind = "apply" /\ op'[p].id = f /\ op'[p].row = r /\ op'[p].m = m
       /\ op'[p].pc = IF r.phase = "awaiting" THEN "release" ELSE "deploy"
       /\ r.phase # "awaiting" => ran' = [ran EXCEPT ![f] = base]
  BY <1>1, <1>2 DEF ApplyCreate, TypeInv, TypeOK, Op
<1>11. Steady'
  <2>1. Ordered'
    <3>1. \A i \in Created : i \in Ids /\ pos[i] \in Nat
      BY <1>3 DEF Created, StoreOK
    <3>2. ASSUME NEW i \in Created', NEW j \in Created', pos'[i] = pos'[j] PROVE i = j
      BY <1>5, <1>6, <1>7, <3>1, <3>2 DEF Steady, Ordered
    <3> QED
      BY <1>5, <1>6, <3>2 DEF Ordered
  <2>2. Leads'
    BY <1>5, <1>9 DEF Leads
  <2>3. Claims(op[p])'
    BY <1>2, <1>5, <1>10 DEF Claims, Copied, Mine, Judging
  <2>4. \A q \in Procs : Claims(op[q])'
    BY <2>3 DEF LoneLoop, OneCaller
  <2> QED
    BY <2>1, <2>2, <2>4 DEF Steady
<1>12. ASSUME Backed PROVE Backed'
  <2>1. ~r.blocked => Known(m, base)
    BY <1>2, <1>12 DEF Backed, Aims
  <2>2. Priors(m)' = Priors(m)
    BY <1>2, <1>5, <1>6 DEF Priors, Created
  <2>3. Known(m, base) => Known(m, base)'
    <3>1. PICK S : S = Priors(m) /\ S = Priors(m)' /\ S \subseteq Created
      BY <2>2 DEF Priors
    <3>2. CASE S = {}
      BY <3>1, <3>2 DEF Known
    <3>3. CASE S # {}
      <4>1. Newest(S)' = Newest(S)
        BY <1>3, <1>5, <3>1, <3>3, NewestStays DEF Steady
      <4>2. Newest(S) \in S
        BY <1>3, <3>1, <3>3, NewestIsMember DEF StoreOK, Created
      <4>3. PICK x : x = Newest(S) /\ x = Newest(S)' /\ x \in Created
        BY <3>1, <4>1, <4>2
      <4>4. rows'[x] = rows[x]
        BY <1>5, <4>3 DEF Created
      <4>5. Newest(Priors(m)) = x /\ Newest(Priors(m))' = x
        BY <3>1, <4>3
      <4>6. Prior(m)' = Prior(m)
        BY <4>4, <4>5 DEF Prior
      <4> QED
        BY <3>1, <3>3, <4>6 DEF Known
    <3> QED
      BY <3>2, <3>3
  <2>4. ASSUME NEW i \in Created', pos'[i] = 0, ~rows'[i].blocked, rows'[i].phase \in {"deploying", "verifying"}
        PROVE  Known(rows[i].desired, ran[i])'
    <3>1. i = f /\ rows'[i] = r
      BY <1>5, <1>6, <1>7, <2>4
    <3>2. rows'[i].desired = m /\ ran'[i] = base
      BY <1>2, <1>3, <1>10, <2>4, <3>1
    <3>3. Known(m, base)'
      BY <2>1, <2>3, <2>4, <3>1
    <3> QED
      BY <3>2, <3>3
  <2>5. Aims(op[p])'
    BY <1>10 DEF Aims
  <2>6. \A q \in Procs : Aims(op[q])'
    BY <2>5 DEF LoneLoop, OneCaller
  <2> QED
    BY <2>4, <2>6 DEF Backed, Vouched
<1>13. Lives'
  <2>1. Shown'
    BY <1>2, <1>5, <1>6, <1>7 DEF Shown
  <2>2. Landed(op[p])'
    BY <1>2, <1>9, <1>10 DEF Landed
  <2>3. \A q \in Procs : Landed(op[q])'
    BY <2>2 DEF LoneLoop, OneCaller
  <2> QED
    BY <2>1, <2>3 DEF Lives
<1> QED
  BY <1>11, <1>12, <1>13 DEF Upholds

\* Only the operations of the loop run.
LEMMA LoopRuns ==
    ASSUME NEW p \in Procs, Loop(p)
    PROVE  ~(PauseOrResume(p) \/ Abort(p) \/ ApproveLocked(p) \/ ApproveDeploy(p) \/ ApproveStore(p)
             \/ StoreRejected(p) \/ ScheduledCreate(p) \/ ScheduledDeploy(p) \/ ScheduledStore(p))
<1>1. ~(PauseOrResume(p) \/ Abort(p) \/ ApproveLocked(p) \/ ScheduledCreate(p))
  BY DEF Loop, PauseOrResume, Abort, ApproveLocked, ScheduledCreate, At
<1>2. ~(ApproveDeploy(p) \/ ApproveStore(p) \/ StoreRejected(p) \/ ScheduledDeploy(p) \/ ScheduledStore(p))
  BY DEF Loop, Placed, ApproveDeploy, ApproveStore, StoreRejected, ScheduledDeploy, ScheduledStore
<1> QED
  BY <1>1, <1>2

\* A step that only returns.
LEMMA ReturnUpholds ==
    ASSUME LoneLoop, TypeInv, Steady, NEW p \in Procs, Unschedule(p) PROVE Upholds
<1>1. Return(p) /\ op[p].pc \notin Unsettled
  BY DEF Unschedule, Unsettled
<1>2. rows' = rows /\ pos' = pos /\ live' = live /\ ran' = ran /\ faults' = faults
  BY DEF Unschedule, store, history
<1> QED
  BY <1>1, <1>2, ReturnKeeps, KeepsUpholds

\* Every step of the loop upholds what it claims.
LEMMA CallerUpholds ==
    ASSUME LoneLoop, TypeInv, TypeInv', Steady, Alone, NEW p \in Procs, Loop(p), Starts(p) \/ Continues(p)
    PROVE  Upholds
<1>1. CASE \/ Starts(p) \/ Acquire(p) \/ Release(p) \/ ApplyInFlight(p) \/ ApplyBaseline(p) \/ Fail(p)
           \/ TickLoad(p) \/ TickStep(p) \/ Finalize(p) \/ Gates(p) \/ PromoteLoad(p)
           \/ RollbackLoad(p) \/ RollbackLocked(p) \/ (AdvanceStep(p) /\ op[p].k # NSteps)
  <2>1. rows' = rows /\ pos' = pos /\ live' = live /\ ran' = ran /\ faults' = faults
    <3>1. CASE Starts(p)
      BY <3>1 DEF Starts, StartApply, StartTick, StartControl, StartReject, StartVerify, StartPromote,
                  StartRollback, StartScheduled, LoadThenLock, store, history
    <3>2. CASE ~Starts(p)
      BY <1>1, <3>2 DEF Acquire, Release, ApplyInFlight, ApplyBaseline, Fail, TickLoad, TickStep, Finalize, Gates,
                        PromoteLoad, RollbackLoad, RollbackLocked, AdvanceStep, store, history
    <3> QED
      BY <3>1, <3>2
  <2>2. Keeps(op[p], op'[p])
    BY <1>1, StartsKeep, LockKeeps, ApplyKeeps, DriveKeeps, TickKeeps, GateKeeps
  <2> QED
    BY <2>1, <2>2, KeepsUpholds
<1>2. CASE RecordStep(p) \/ Bake(p) \/ (AdvanceStep(p) /\ op[p].k = NSteps)
  BY <1>2, StepperUpholds
<1>3. CASE StoreFailed(p) \/ StoreReverted(p)
  BY <1>3, RolledBackUpholds
<1>4. CASE ApplyCreate(p) \/ ApplyDeploy(p) \/ Revert(p)
  BY <1>4, CreateUpholds, DeploysUphold
<1>5. CASE TickRecover(p) \/ PromoteSave(p) \/ Unschedule(p)
  BY <1>5, RecoverUpholds, PromoteUpholds, ReturnUpholds
<1> QED
  BY <1>1, <1>2, <1>3, <1>4, <1>5, LoopRuns DEF Continues

\* A step of the environment and a refused write: they leave the rows alone, the
\* operation goes on or is gone, and a fault ends what is said of the target.
LEMMA WorldUpholds ==
    ASSUME LoneLoop, TypeInv, Steady, NEW p \in Procs, Loop(p),
           StoreError(p) \/ (\E i \in Instances : Crash(i)) \/ Schedule \/ LeaseExpires \/ EditTarget \/ UNCHANGED vars
    PROVE  Upholds
<1>1. rows' = rows /\ pos' = pos /\ ran' = ran
  BY DEF StoreError, Crash, Schedule, LeaseExpires, EditTarget, vars, store, history
<1>2. Claims(op'[p]) /\ (Aims(op[p]) => Aims(op'[p]))
  <2>1. CASE StoreError(p)
    BY <2>1, StoreErrorKeeps
  <2>2. CASE ~StoreError(p)
    <3>1. op'[p] \in {op[p], Idle}
      BY <2>2, WorldRests
    <3>2. Claims(Idle) /\ Aims(Idle)
      BY DEF Idle, Claims, Copied, Mine, Judging, Aims
    <3> QED
      BY <3>1, <3>2 DEF Loop
  <2> QED
    BY <2>1, <2>2
<1>3. Steady' /\ (Backed => Backed')
  BY <1>1, <1>2, ClaimsCarry, AimsCarry DEF Backed
<1>4. ASSUME Lives PROVE Lives'
  <2>1. CASE faults' # 0
    BY <2>1 DEF Lives
  <2>2. CASE faults' = 0
    <3>0. faults \in Nat
      BY DEF TypeInv, TypeOK
    <3>a. StoreError(p) \/ (\E i \in Instances : Crash(i)) => faults' = faults + 1
      BY DEF StoreError, Crash
    <3>b. ~StoreError(p) /\ ~\E i \in Instances : Crash(i)
      BY <2>2, <3>0, <3>a
    <3>1. op' = op /\ faults = 0 /\ live' \in {live, Foreign}
      BY <2>2, <3>b DEF Schedule, LeaseExpires, EditTarget, vars
    <3>2. Created' = Created /\ InFlight' = InFlight
      BY <1>1 DEF Created, Exists, InFlight
    <3>3. \A i : Runs(i) => Runs(i)'
      BY <1>1, <3>1 DEF Runs
    <3>4. Shown'
      BY <1>1, <1>4, <3>1, <3>2, <3>3 DEF Lives, Shown
    <3>5. Landed(op[p]) /\ op'[p] = op[p]
      BY <1>4, <3>1 DEF Lives
    <3>6. Landed(op[p])'
      BY <3>2, <3>3, <3>5 DEF Landed
    <3> QED
      BY <3>4, <3>6 DEF Lives, LoneLoop, OneCaller
  <2> QED
    BY <2>1, <2>2
<1> QED
  BY <1>3, <1>4 DEF Upholds

\* What holds of the loop in every reachable state.
LoopInv == TypeInv /\ AllAble /\ Alone /\ AtMostOneInFlight /\ Steady

\* Initially nothing is stored and the loop is idle.
LEMMA LoopInit == LoneLoop /\ Init => LoopInv /\ Backed /\ Lives
<1> SUFFICES ASSUME LoneLoop, Init PROVE LoopInv /\ Backed /\ Lives
  OBVIOUS
<1>1. TypeInv /\ AllAble /\ Alone /\ AtMostOneInFlight
  BY TypeInit, RestsAtFirst
<1>2. Created = {} /\ InFlight = {} /\ \A p \in Procs : op[p].kind = "none" /\ op[p].pc = "idle" /\ op[p].id = 0
  BY DEF Init, Created, Exists, InFlight, InFlightPhase, NoRow, NewRow, Idle
<1>3. Steady
  BY <1>2 DEF Steady, Ordered, Leads, Claims, Copied, Mine, Judging
<1>4. Backed
  BY <1>2 DEF Backed, Vouched, Aims
<1>5. Lives
  BY <1>2 DEF Lives, Shown, Landed
<1> QED
  BY <1>1, <1>3, <1>4, <1>5 DEF LoopInv

\* Every step keeps it, and upholds the claims about the target.
LEMMA LoopStep == ASSUME LoneLoop, LoopInv, [Next]_vars PROVE LoopInv' /\ Upholds
<1>0. /\ OneDriver /\ MutualExclusion /\ (\A p \in Procs : "schedule" \notin CanRun[p])
      /\ \A p, q \in Procs : p = q
  BY DEF LoneLoop, OneCaller, OneDriver, MutualExclusion
<1>1. TypeInv' /\ AllAble'
  BY <1>0, TypeStep, AbleStep DEF LoopInv
<1>2. ASSUME NEW p \in Procs PROVE Loop(p)
  BY LoopFacts DEF LoopInv
<1>3. ASSUME NEW p \in Procs, Starts(p) \/ Continues(p) \/ StoreError(p)
      PROVE  Alone' /\ AtMostOneInFlight' /\ Upholds
  <2>1. Does(p)
    BY <1>3, CallerDoes DEF AllAble, LoopInv
  <2>2. Alone' /\ AtMostOneInFlight'
    BY <1>0, <1>3, <2>1, OthersStay, FlightStep DEF LoopInv
  <2>3. Upholds
    <3>1. Loop(p) /\ TypeInv /\ Steady /\ Alone
      BY <1>2 DEF LoopInv
    <3>2. CASE Starts(p) \/ Continues(p)
      BY <1>1, <3>1, <3>2, CallerUpholds
    <3>3. CASE StoreError(p)
      BY <3>1, <3>3, WorldUpholds
    <3> QED
      BY <1>3, <3>2, <3>3
  <2> QED
    BY <2>2, <2>3
<1>4. ASSUME (\E i \in Instances : Crash(i)) \/ Schedule \/ LeaseExpires \/ EditTarget \/ UNCHANGED vars
      PROVE  Alone' /\ AtMostOneInFlight' /\ Upholds
  <2>1. rows' = rows /\ \A p \in Procs : op'[p] \in {op[p], Idle}
    BY <1>4, WorldRests DEF LoopInv
  <2>2. \A p \in Procs : Clearing(op'[p]) => op'[p] = op[p]
    BY <2>1, IdleClaimsNothing
  <2>3. InFlight' = InFlight
    BY <2>1 DEF InFlight
  <2>4. Alone' /\ AtMostOneInFlight'
    BY <2>2, <2>3 DEF LoopInv, Alone, AtMostOneInFlight
  <2>5. CASE Procs # {}
    <3>1. PICK p \in Procs : TRUE
      BY <2>5
    <3>2. Upholds
      BY <1>2, <1>4, WorldUpholds DEF LoopInv
    <3> QED
      BY <2>4, <3>2
  <2>6. CASE Procs = {}
    <3>1. rows' = rows /\ pos' = pos /\ ran' = ran
      BY <1>4 DEF Crash, Schedule, LeaseExpires, EditTarget, vars, store, history
    <3>2. Created' = Created /\ InFlight' = InFlight /\ Steady
      BY <3>1 DEF Created, Exists, InFlight, LoopInv
    <3>3. Steady'
      BY <2>6, <3>1, <3>2 DEF Steady, Ordered, Leads
    <3>4. Backed => Backed'
      <4>1. \A m, x : Known(m, x)' <=> Known(m, x)
        BY <3>1, KnownSame
      <4> QED
        BY <2>6, <3>1, <3>2, <4>1 DEF Backed, Vouched
    <3>5. Lives => Lives'
      <4> SUFFICES ASSUME Lives, faults' = 0 PROVE Shown'
        BY <2>6 DEF Lives
      <4>0. faults \in Nat
        BY DEF LoopInv, TypeInv, TypeOK
      <4>1. ~\E i \in Instances : Crash(i)
        BY <4>0 DEF Crash
      <4>2. faults = 0 /\ live' \in {live, Foreign}
        BY <1>4, <4>1 DEF Schedule, LeaseExpires, EditTarget, vars
      <4> QED
        BY <3>1, <3>2, <4>2 DEF Lives, Shown, Runs
    <3> QED
      BY <2>4, <3>3, <3>4, <3>5 DEF Upholds
  <2> QED
    BY <2>5, <2>6
<1>5. Alone' /\ AtMostOneInFlight' /\ Upholds
  BY <1>3, <1>4 DEF Next
<1> QED
  BY <1>1, <1>5 DEF LoopInv, Upholds

\* An automatic rollback re-applies what was live when the rollout's baseline was
\* checked, for the reconcile loop on its own with auto-rollback in every config
\* and a target that can be diffed, wherever the daemon crashes, a write is
\* refused, the target is edited or a deploy fails half way.  rollbackBaseline
\* compares the recorded prior with live before the row is stored, the row stays
\* the newest until it is settled, so that failProgressive and finalize find the
\* same prior later; a row that was re-opened without a snapshot is blocked.
THEOREM RestoresBaseline == LoneLoop /\ Verified => (Spec => []RestoresWhatRan)
<1> SUFFICES ASSUME LoneLoop, Verified PROVE Spec => []RestoresWhatRan
  OBVIOUS
<1> DEFINE Inv == LoopInv /\ Backed
<1>1. Init => Inv
  BY LoopInit
<1>2. Inv /\ [Next]_vars => Inv'
  BY LoopStep DEF Upholds
<1>3. Inv => RestoresWhatRan
  <2> SUFFICES ASSUME Inv, NEW p \in Procs, op[p].pc = "revert", op[p].kind \in {"apply", "tick", "verify"}
               PROVE  op[p].m \in {ran[op[p].id], op[p].row.desired}
    BY DEF RestoresWhatRan
  <2>1. Loop(p)
    BY LoopFacts DEF LoopInv
  <2>2. op[p].id # 0
    BY <2>1 DEF Loop, Good
  <2> QED
    BY <2>1, <2>2 DEF Backed, Aims, Aim, Loop, Claims, Copied
<1> QED
  BY <1>1, <1>2, <1>3, PTL DEF Spec

\* When no call is running, a newest rollout that is promoted is what runs on the
\* target unless something else edited it, for the reconcile loop on its own and
\* as long as no call crashed or lost a write, for every number of manifests,
\* rows and steps and whatever deploy, gate or rollback fails.  The gate promotes
\* only the newest row, which runs from its deploy on until it is rolled back.
THEOREM PromotedRuns == LoneLoop => (Spec => []PromotedIsLive)
<1> SUFFICES ASSUME LoneLoop PROVE Spec => []PromotedIsLive
  OBVIOUS
<1> DEFINE Inv == LoopInv /\ Lives
<1>1. Init => Inv
  BY LoopInit
<1>2. Inv /\ [Next]_vars => Inv'
  BY LoopStep DEF Upholds
<1>3. Inv => PromotedIsLive
  <2> SUFFICES ASSUME Inv, faults = 0, Created # {}, rows[Newest(Created)].phase = "promoted"
               PROVE  live \in {rows[Newest(Created)].desired, Foreign}
    BY DEF PromotedIsLive
  <2>1. Newest(Created) \in Created /\ pos[Newest(Created)] = 0
    BY NewestInFront DEF LoopInv, Steady, TypeInv, TypeOK
  <2> QED
    BY <2>1 DEF Lives, Shown, Runs
<1> QED
  BY <1>1, <1>2, <1>3, PTL DEF Spec

================================================================================
