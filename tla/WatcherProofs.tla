--------------------------- MODULE WatcherProofs ---------------------------
(***************************************************************************)
(* Proofs about the watcher, for any number of callers, configs and         *)
(* targets.  SerialTicks holds of every world; the other properties hold of  *)
(* the worlds their theorems name, and TLC shows counterexamples outside.    *)
(***************************************************************************)
EXTENDS Watcher, TLAPS

Ticking == {"read", "preflight", "each"}
Outs == [Keys -> Texts \cup {"done", None}]
Op == [pc : Ticking \cup {"idle", "note"}, changed : BOOLEAN, todo : SUBSET Paths, outs : Outs]
Streak == [msg : Texts \cup {None}, n : Nat, fired : BOOLEAN, age : Nat]

WatcherTypes ==
    /\ world \in Worlds
    /\ head \in world.trees /\ moved \in BOOLEAN
    /\ lock \in BOOLEAN
    /\ fail \in [Keys -> Streak]
    /\ seen \subseteq Paths /\ absent \in [Paths -> Nat] /\ clean \in [Paths -> Nat]
    /\ lastSeen \in [Paths -> Refs \cup {None}]
    /\ op \in [Callers -> Op]
    /\ latest \in [Keys -> Texts \cup {None}]

Busy(c) == op[c].pc \in Ticking

\* The lock is held exactly while one caller is in the middle of its tick.
LockInv ==
    /\ lock => \E c \in Callers : Busy(c)
    /\ \A c \in Callers : Busy(c) => lock
    /\ \A c, d \in Callers : Busy(c) /\ Busy(d) => c = d

-----------------------------------------------------------------------------
\* Constants of a tick.
LEMMA Small ==
    /\ "forbidden" \in Texts /\ "busy" \in Texts /\ "unreadable" \in Texts /\ "invalid" \in Texts
    /\ "timeout" \in Texts /\ Repo \in Keys /\ Paths \subseteq Keys
    /\ NoOuts \in Outs /\ Idle \in Op /\ NoStreak \in Streak /\ ~ held(NoStreak)
    /\ Idle.pc = "idle" /\ Idle.outs = NoOuts
  BY WatcherAssumption
  DEF Texts, Keys, NoOuts, Outs, Idle, Op, Ticking, NoStreak, Streak, held, permanentFailure

\* What the end of a tick leaves of its caller.
LEMMA EndsIn ==
    ASSUME NEW c \in Callers, NEW outs \in Outs, End(c, outs)
    PROVE  \E o \in Op : /\ op' = [op EXCEPT ![c] = o] /\ o.pc \in {"idle", "note"} /\ o.outs \in {NoOuts, outs}
                         /\ (c = Loop => o.outs = outs /\ o.pc = "note") /\ (c # Loop => o = Idle)
<1> DEFINE o == IF c = Loop THEN [Idle EXCEPT !.pc = "note", !.outs = outs] ELSE Idle
<1>1. o \in Op /\ o.pc \in {"idle", "note"} /\ o.outs \in {NoOuts, outs}
      /\ (c = Loop => o.outs = outs /\ o.pc = "note") /\ (c # Loop => o = Idle)
  BY Small DEF Idle, Op, Outs
<1>2. op' = [op EXCEPT ![c] = o] BY DEF End
<1> QED BY <1>1, <1>2

\* What noting an outcome, or an interval, makes of a streak.
LEMMA NoteTypes ==
    ASSUME NEW f \in Streak, NEW m \in Texts
    PROVE  note(f, m) \in Streak /\ note(f, m).msg = m
  BY WatcherAssumption DEF note, Streak, permanentFailure

\* The four ways a step of a tick moves its caller and the lock.
Moves(c, o) ==
    /\ o \in Op /\ op' = [op EXCEPT ![c] = o]
    /\ \/ op[c].pc = "idle" /\ ~lock /\ lock' = TRUE /\ o.pc \in Ticking
       \/ op[c].pc = "idle" /\ lock' = lock /\ o.pc \notin Ticking
       \/ Busy(c) /\ lock' = lock /\ o.pc \in Ticking
       \/ Busy(c) /\ lock' = FALSE /\ o.pc \notin Ticking

\* Each step of a tick is one of them.
LEMMA TickMoves ==
    ASSUME WatcherTypes, NEW c \in Callers, Tick(c)
    PROVE  \E o : Moves(c, o)
<1>0. op \in [Callers -> Op] /\ op[c] \in Op /\ op[c].outs \in Outs /\ lock \in BOOLEAN BY DEF WatcherTypes, Op
<1>e. ASSUME NEW outs \in Outs, End(c, outs), Busy(c) \/ op[c].pc = "idle",
             Busy(c) => lock' = FALSE, op[c].pc = "idle" => lock' = lock
      PROVE  \E o : Moves(c, o)
  <2>1. PICK o \in Op : op' = [op EXCEPT ![c] = o] /\ o.pc \in {"idle", "note"} BY <1>e, EndsIn
  <2> QED BY <2>1, <1>e DEF Moves, Ticking, Busy
<1>w. ASSUME NEW k \in Keys, NEW m \in Texts \cup {None}, EndWith(c, k, m), Busy(c) \/ op[c].pc = "idle",
             Busy(c) => lock' = FALSE, op[c].pc = "idle" => lock' = lock
      PROVE  \E o : Moves(c, o)
  <2> DEFINE outs == [op[c].outs EXCEPT ![k] = m]
  <2>1. outs \in Outs BY <1>0 DEF Outs
  <2>2. End(c, outs) BY <1>w DEF EndWith
  <2> HIDE DEF outs
  <2> QED BY <2>1, <2>2, <1>e, <1>w
<1>d. ASSUME NEW p \in Paths, NEW m \in Texts \cup {"done", None}, Done(c, p, m), op[c].pc = "each", lock' = lock
      PROVE  \E o : Moves(c, o)
  <2> DEFINE o == [op[c] EXCEPT !.todo = op[c].todo \ {p}, !.outs = [op[c].outs EXCEPT ![p] = IF c = Loop THEN m ELSE None]]
  <2>1. op' = [op EXCEPT ![c] = o] BY <1>0, <1>d DEF Done
  <2>2. [op[c].outs EXCEPT ![p] = IF c = Loop THEN m ELSE None] \in Outs BY <1>0, Small DEF Outs
  <2>3. o \in Op /\ o.pc = "each" BY <1>0, <1>d, <2>2 DEF Op
  <2> QED BY <1>d, <2>1, <2>3 DEF Moves, Busy, Ticking
<1>1. CASE StartTick(c)
  <2>1. CASE lock BY <1>1, <2>1, <1>w, Small DEF StartTick, Busy, Ticking
  <2>2. CASE ~lock
    <3> DEFINE o == [op[c] EXCEPT !.pc = "read"]
    <3>1. op' = [op EXCEPT ![c] = o] /\ lock' = TRUE /\ op[c].pc = "idle" BY <1>1, <2>2 DEF StartTick
    <3>2. o \in Op /\ o.pc = "read" BY <1>0 DEF Op, Ticking
    <3> QED BY <2>2, <3>1, <3>2 DEF Moves, Ticking
  <2> QED BY <2>1, <2>2
<1>2. CASE PullFails(c) \/ LoadFails(c)
  BY <1>2, <1>w, Small DEF PullFails, LoadFails, Busy, Ticking
<1>3. CASE Read(c)
  <2> DEFINE o == [op[c] EXCEPT !.pc = "preflight", !.changed = (moved \/ tree = None)]
  <2>1. op' = [op EXCEPT ![c] = o] /\ lock' = lock /\ op[c].pc = "read" BY <1>3 DEF Read
  <2>2. o \in Op /\ o.pc = "preflight" BY <1>0 DEF Op, Ticking
  <2> QED BY <2>1, <2>2 DEF Moves, Busy, Ticking
<1>4. CASE PreflightHeld(c)
  <2>1. Reopened(c)[Repo].msg \in Texts \cup {None}
    BY Small DEF Reopened, WatcherTypes, Streak
  <2> QED BY <1>4, <2>1, <1>w, Small DEF PreflightHeld, Busy, Ticking
<1>5. CASE PreflightRefused(c)
  <2>1. world.refusals \subseteq Texts BY Small, WatcherAssumption DEF WatcherTypes
  <2> QED BY <1>5, <2>1, <1>w, Small DEF PreflightRefused, Busy, Ticking
<1>6. CASE PreflightPasses(c)
  <2> DEFINE o == [op[c] EXCEPT !.pc = "each", !.todo = Declared(tree)]
  <2>1. op' = [op EXCEPT ![c] = o] /\ lock' = lock /\ op[c].pc = "preflight" BY <1>6 DEF PreflightPasses
  <2>2. o \in Op /\ o.pc = "each" BY <1>0 DEF Op, Ticking, Declared
  <2> QED BY <2>1, <2>2 DEF Moves, Busy, Ticking
<1>7. CASE Skip(c)
  <2>1. \A p \in Paths : fail[p].msg \in Texts \cup {None} BY Small DEF WatcherTypes, Streak
  <2> QED BY <1>7, <2>1, <1>d DEF Skip, Turn
<1>8. CASE ReconcileFails(c)
  <2>1. world.refusals \subseteq Texts BY Small, WatcherAssumption DEF WatcherTypes
  <2> QED BY <1>8, <2>1, <1>d DEF ReconcileFails, Turn
<1>9. CASE Reconcile(c)
  BY <1>9, <1>d DEF Reconcile, Reconciles, Turn
<1>10. CASE Finish(c)
  BY <1>0, <1>10, <1>e DEF Finish, Busy, Ticking
<1> QED BY <1>1, <1>2, <1>3, <1>4, <1>5, <1>6, <1>7, <1>8, <1>9, <1>10 DEF Tick

\* The variables a step of a tick may write keep their types.
LEMMA TickTypes == ASSUME WatcherTypes, NEW c \in Callers, Tick(c) PROVE WatcherTypes'
<1> USE DEF git, reaper, engine
<1>1. PICK o : Moves(c, o) BY TickMoves
<1>2. op' \in [Callers -> Op] /\ lock' \in BOOLEAN BY <1>1 DEF Moves, WatcherTypes
<1>3. world' = world /\ head' = head /\ moved' \in BOOLEAN
  BY DEF WatcherTypes, Tick, StartTick, PullFails, LoadFails, Read, PreflightHeld, PreflightRefused, PreflightPasses,
     Skip, ReconcileFails, Reconcile, Reconciles, Finish
<1>4. fail' \in [Keys -> Streak]
  <2>1. Reopened(c) \in [Keys -> Streak] BY Small DEF Reopened, WatcherTypes
  <2>2. CASE PreflightHeld(c) \/ PreflightRefused(c) BY <2>1, <2>2 DEF PreflightHeld, PreflightRefused
  <2>3. CASE PreflightPasses(c) BY <2>1, <2>3, Small DEF PreflightPasses
  <2>4. CASE Reconcile(c) BY <2>4, Small DEF Reconcile, Reconciles, WatcherTypes
  <2> QED BY <2>2, <2>3, <2>4
      DEF WatcherTypes, Tick, StartTick, PullFails, LoadFails, Read, Skip, ReconcileFails, Finish
<1>5. latest' \in [Keys -> Texts \cup {None}]
  <2>1. world.refusals \subseteq Texts BY Small, WatcherAssumption DEF WatcherTypes
  <2>2. CASE PreflightRefused(c) \/ PreflightPasses(c) \/ ReconcileFails(c) \/ Reconcile(c)
    BY <2>1, <2>2, Small DEF PreflightRefused, PreflightPasses, ReconcileFails, Reconcile, Reconciles, WatcherTypes
  <2> QED BY <2>2 DEF WatcherTypes, Tick, StartTick, PullFails, LoadFails, Read, PreflightHeld, Skip, Finish
<1>6. /\ seen' \subseteq Paths /\ absent' \in [Paths -> Nat] /\ clean' \in [Paths -> Nat]
      /\ lastSeen' \in [Paths -> Refs \cup {None}]
  <2>1. CASE PullFails(c) BY <2>1 DEF PullFails, WatcherTypes
  <2>2. CASE LoadFails(c) BY <2>2 DEF LoadFails, Forgiven, WatcherTypes
  <2>3. CASE Read(c)
    <3>1. Declared(head) \subseteq Paths /\ seen' \subseteq Paths BY <2>3 DEF Read, Declared, WatcherTypes
    <3>2. absent' \in [Paths -> Nat] BY <2>3 DEF Read, Observed, WatcherTypes
    <3>3. clean' \in [Paths -> Nat] BY <2>3, WatcherAssumption DEF Read, WatcherTypes
    <3>4. head \in [Paths -> Refs \cup {None}] BY WatcherAssumption DEF WatcherTypes
    <3>5. lastSeen' \in [Paths -> Refs \cup {None}] BY <2>3, <3>4 DEF Read, WatcherTypes
    <3> QED BY <3>1, <3>2, <3>3, <3>5
  <2> QED BY <2>1, <2>2, <2>3
      DEF WatcherTypes, Tick, StartTick, PreflightHeld, PreflightRefused, PreflightPasses, Skip, ReconcileFails,
          Reconcile, Reconciles, Finish
<1> QED BY <1>2, <1>3, <1>4, <1>5, <1>6 DEF WatcherTypes

\* The callers of a world are goroutines of this process, Run among them.
LEMMA WorldCallers == WatcherTypes => world.callers \subseteq Callers /\ Loop \in world.callers
  BY WatcherAssumption DEF WatcherTypes

\* Every variable keeps its type.
LEMMA TypesNext == WatcherTypes /\ [Next]_vars => WatcherTypes'
<1> SUFFICES ASSUME WatcherTypes, [Next]_vars PROVE WatcherTypes' OBVIOUS
<1> USE DEF git, reaper, engine
<1>1. CASE UNCHANGED vars BY <1>1 DEF vars, WatcherTypes
<1>2. CASE \E c \in world.callers : Tick(c) BY <1>2, TickTypes, WorldCallers
<1>3. CASE logOutcomes
  <2>1. op[Loop].outs \in Outs /\ Loop \in Callers BY WorldCallers DEF WatcherTypes, Op
  <2>2. fail' \in [Keys -> Streak]
    BY <1>3, <2>1, NoteTypes, Small DEF logOutcomes, WatcherTypes
  <2>3. op' \in [Callers -> Op] BY <1>3, <2>1, Small DEF logOutcomes, WatcherTypes
  <2> QED BY <1>3, <2>2, <2>3 DEF logOutcomes, WatcherTypes
<1>4. CASE Commit BY <1>4 DEF Commit, WatcherTypes
<1>5. CASE Interval
  <2>1. \A f \in Streak : [f EXCEPT !.age = IF f.age <= HoldFor THEN f.age + 1 ELSE f.age] \in Streak
    BY WatcherAssumption DEF Streak
  <2>2. fail' = [k \in Keys |-> [fail[k] EXCEPT !.age = IF fail[k].age <= HoldFor THEN fail[k].age + 1 ELSE fail[k].age]]
    BY <1>5 DEF Interval
  <2>3. fail' \in [Keys -> Streak] BY <2>1, <2>2 DEF WatcherTypes
  <2> QED BY <1>5, <2>3 DEF Interval, WatcherTypes
<1>6. CASE Restart
  <2>1. fail' \in [Keys -> Streak] /\ op' \in [Callers -> Op] BY <1>6, Small DEF Restart
  <2> QED BY <1>6, <2>1 DEF Restart, WatcherTypes
<1> QED BY <1>1, <1>2, <1>3, <1>4, <1>5, <1>6 DEF Next

\* A watcher that has just started.
LEMMA TypesInit == Init => WatcherTypes /\ LockInv
<1> SUFFICES ASSUME Init PROVE WatcherTypes /\ LockInv OBVIOUS
<1>1. fail \in [Keys -> Streak] /\ op \in [Callers -> Op] BY Small DEF Init
<1>2. WatcherTypes BY <1>1 DEF Init, WatcherTypes
<1>3. LockInv BY Small DEF Init, LockInv, Busy, Ticking
<1> QED BY <1>2, <1>3

\* The lock follows the one busy caller.
LEMMA LockNext == WatcherTypes /\ LockInv /\ [Next]_vars => LockInv'
<1> SUFFICES ASSUME WatcherTypes, LockInv, [Next]_vars PROVE LockInv' OBVIOUS
<1>0. op \in [Callers -> Op] /\ lock \in BOOLEAN BY DEF WatcherTypes
<1>1. CASE UNCHANGED <<op, lock>> BY <1>1 DEF LockInv, Busy
<1>2. ASSUME NEW c \in Callers, Tick(c) PROVE LockInv'
  <2>1. PICK o : Moves(c, o) BY <1>2, TickMoves
  <2>2. \A d \in Callers : op'[d] = IF d = c THEN o ELSE op[d] BY <1>0, <2>1 DEF Moves
  <2>3. \A d \in Callers : Busy(d)' <=> IF d = c THEN o.pc \in Ticking ELSE Busy(d) BY <2>2 DEF Busy
  <2>4. "idle" \notin Ticking BY DEF Ticking
  <2> QED BY <2>1, <2>3, <2>4 DEF Moves, LockInv, Busy
<1>3. CASE logOutcomes
  <2>1. Loop \in Callers BY WorldCallers
  <2>2. \A d \in Callers : op'[d] = IF d = Loop THEN Idle ELSE op[d] BY <1>0, <1>3 DEF logOutcomes
  <2>3. \A d \in Callers : Busy(d)' <=> Busy(d)
    BY <1>3, <2>1, <2>2, Small DEF logOutcomes, Busy, Ticking
  <2>4. lock' = lock BY <1>3 DEF logOutcomes
  <2> QED BY <2>3, <2>4 DEF LockInv
<1>4. CASE Restart BY <1>4, Small DEF Restart, LockInv, Busy, Ticking
<1>5. CASE \E c \in world.callers : Tick(c) BY <1>2, <1>5, WorldCallers
<1> QED BY <1>1, <1>3, <1>4, <1>5 DEF Next, vars, Commit, Interval

\* Whatever the world, with any number of callers: no two of them are in the
\* middle of a tick, and between ticks the lock is free (watch.go: "serialized
\* per repo").
THEOREM TicksAreSerial == Spec => []SerialTicks
<1>1. WatcherTypes /\ LockInv => SerialTicks
  <2> SUFFICES ASSUME WatcherTypes, LockInv PROVE SerialTicks OBVIOUS
  <2>1. \A c, d \in Callers : {op[c].pc, op[d].pc} \subseteq {"read", "preflight", "each"} => c = d
    BY DEF LockInv, Busy, Ticking
  <2>2. (\A c \in Callers : op[c].pc \in {"idle", "note"}) => ~lock BY DEF LockInv, Busy, Ticking
  <2> QED BY <2>1, <2>2 DEF SerialTicks
<1> QED BY <1>1, TypesInit, TypesNext, LockNext, PTL DEF Spec

-----------------------------------------------------------------------------
\* The reaper's count of a file never runs ahead of its clean absence.
CleanInv == \A p \in Paths : absent[p] <= clean[p] /\ (p \notin seen => absent[p] = 0)

\* Where no pull fails, every step keeps that, and forgets only files that were
\* cleanly absent.
LEMMA CleanNext ==
    ASSUME \A w \in Worlds : "pull" \notin w.readErrors, WatcherTypes, CleanInv, [Next]_vars
    PROVE  CleanInv' /\ \A p \in seen : p \notin seen' => clean'[p] >= After \/ tree' = None
<1>0. seen \subseteq Paths /\ absent \in [Paths -> Nat] /\ clean \in [Paths -> Nat] /\ After \in Nat
  BY WatcherAssumption DEF WatcherTypes
<1>1. CASE UNCHANGED <<seen, absent, clean>> BY <1>1 DEF CleanInv
<1>2. ASSUME NEW c, LoadFails(c) PROVE CleanInv' /\ seen' = seen
  <2>1. clean' = [p \in Paths |-> 0] /\ absent' = [p \in Paths |-> IF p \in seen THEN 0 ELSE absent[p]] /\ seen' = seen
    BY <1>2 DEF LoadFails, Forgiven
  <2> QED BY <1>0, <2>1 DEF CleanInv
<1>3. ASSUME NEW c, Read(c)
      PROVE  CleanInv' /\ \A p \in seen : p \notin seen' => clean'[p] >= After
  <2> DEFINE present == Declared(head)
             verdicts == Verdicts(present)
  <2>1. /\ absent' = [p \in Paths |-> IF p \notin seen THEN absent[p] ELSE IF p \in present \cup verdicts THEN 0
                                      ELSE absent[p] + 1]
        /\ clean' = [p \in Paths |-> IF p \in present THEN 0 ELSE IF clean[p] < After THEN clean[p] + 1 ELSE After]
        /\ seen' = (seen \cup present) \ verdicts
    BY <1>3 DEF Read, Observed
  <2>2. \A p \in verdicts : p \in seen /\ p \notin present /\ absent[p] + 1 >= After BY DEF Verdicts
  <2>3. \A p \in seen : p \notin present /\ p \notin verdicts => absent[p] + 1 < After
    BY <1>0 DEF Verdicts
  <2> HIDE DEF present, verdicts
  <2>4. ASSUME NEW p \in Paths PROVE absent'[p] <= clean'[p] /\ (p \notin seen' => absent'[p] = 0)
    <3>1. absent[p] \in Nat /\ clean[p] \in Nat /\ absent[p] <= clean[p] /\ (p \notin seen => absent[p] = 0)
      BY <1>0 DEF CleanInv
    <3>2. absent'[p] = IF p \notin seen THEN absent[p] ELSE IF p \in present \cup verdicts THEN 0 ELSE absent[p] + 1
      BY <2>1
    <3>3. clean'[p] = IF p \in present THEN 0 ELSE IF clean[p] < After THEN clean[p] + 1 ELSE After
      BY <2>1
    <3>4. p \in seen' <=> (p \in seen \/ p \in present) /\ p \notin verdicts BY <2>1
    <3> QED BY <1>0, <2>2, <2>3, <3>1, <3>2, <3>3, <3>4
  <2>5. ASSUME NEW p \in seen, p \notin seen' PROVE clean'[p] >= After
    <3>1. p \in verdicts /\ p \notin present /\ p \in Paths BY <1>0, <2>1, <2>2, <2>5
    <3>2. absent[p] \in Nat /\ clean[p] \in Nat /\ absent[p] <= clean[p] /\ absent[p] + 1 >= After
      BY <1>0, <2>2, <3>1 DEF CleanInv
    <3>3. clean'[p] = IF clean[p] < After THEN clean[p] + 1 ELSE After BY <2>1, <3>1
    <3> QED BY <1>0, <3>2, <3>3
  <2> QED BY <2>4, <2>5 DEF CleanInv
<1>4. CASE Restart BY <1>4 DEF Restart, CleanInv
<1>5. \A c : ~ PullFails(c) BY DEF PullFails, WatcherTypes
<1>6. CASE \E c : LoadFails(c) BY <1>2, <1>6
<1>7. CASE \E c : Read(c) BY <1>3, <1>7
<1> QED BY <1>1, <1>4, <1>5, <1>6, <1>7
    DEF Next, Tick, vars, reaper, logOutcomes, Commit, Interval, StartTick, PreflightHeld, PreflightRefused,
        PreflightPasses, Skip, ReconcileFails, Reconcile, Reconciles, Finish

\* Where pulls do not fail, whatever loads, refusals, restarts and callers do,
\* a config is given up only after After loads in a row without it (reap.go:29:
\* "consecutive error-free ticks").  A failed pull breaks it: see the README.
THEOREM CleanReaping ==
    ASSUME \A w \in Worlds : "pull" \notin w.readErrors
    PROVE  Spec => ReapsAfterCleanAbsence
<1>1. Init => CleanInv BY DEF Init, CleanInv
<1>2. WatcherTypes /\ CleanInv /\ [Next]_vars => CleanInv' BY CleanNext
<1>3. WatcherTypes /\ CleanInv /\ [Next]_vars =>
        [\A p \in seen : p \notin seen' => clean'[p] >= After \/ tree' = None]_vars
  BY CleanNext
<1> QED BY <1>1, <1>2, <1>3, TypesInit, TypesNext, PTL DEF Spec, ReapsAfterCleanAbsence

-----------------------------------------------------------------------------
\* Every target is declared by one and the same file, wherever it is declared.
StableHomes ==
    \A w \in Worlds : \A t, u \in w.trees : \A p, q \in Paths : t[p] = u[q] /\ t[p] # None => p = q

\* What the reaper remembers of a file was once declared there.
HomeInv == \A p \in Paths : lastSeen[p] # None => \E t \in world.trees : t[p] = lastSeen[p]

\* Then the reaper never condemns a target that the new checkout declares.
LEMMA HomeNext ==
    ASSUME StableHomes, WatcherTypes, HomeInv, [Next]_vars
    PROVE  HomeInv' /\ \A r \in running \ running' : \A p \in Paths : tree'[p] # r
<1>0. world \in Worlds /\ head \in world.trees /\ lastSeen \in [Paths -> Refs \cup {None}] /\ seen \subseteq Paths
  BY DEF WatcherTypes
<1>1. CASE UNCHANGED <<lastSeen, world>> /\ running \subseteq running' BY <1>1 DEF HomeInv
<1>2. ASSUME NEW c, Read(c) PROVE HomeInv' /\ \A r \in running \ running' : \A p \in Paths : tree'[p] # r
  <2> DEFINE present == Declared(head)
             verdicts == Verdicts(present)
  <2>1. /\ tree' = head /\ world' = world
        /\ lastSeen' = [p \in Paths |-> IF p \in present THEN head[p] ELSE IF p \in verdicts THEN None ELSE lastSeen[p]]
        /\ running' \in {running, running \ Reaped(verdicts)}
    BY <1>2 DEF Read
  <2>2. HomeInv' BY <1>0, <2>1 DEF HomeInv
  <2>3. ASSUME NEW r \in running \ running', NEW q \in Paths, tree'[q] = r PROVE FALSE
    <3>1. r \in Reaped(verdicts) BY <2>1, <2>3
    <3>2. PICK p \in verdicts : lastSeen[p] = r BY <3>1 DEF Reaped
    <3>3. p \in Paths /\ p \notin present BY <1>0, <3>2 DEF Verdicts
    <3>4. r # None BY <3>1, WatcherAssumption DEF Reaped
    <3>5. PICK t \in world.trees : t[p] = r BY <3>2, <3>3, <3>4 DEF HomeInv
    <3>6. head[q] = r BY <2>1, <2>3
    <3>7. q = p BY <1>0, <3>3, <3>4, <3>5, <3>6 DEF StableHomes
    <3>8. \A s \in Paths : s < p => head[s] # head[p]
      <4> SUFFICES ASSUME NEW s \in Paths, s < p, head[s] = head[p] PROVE FALSE OBVIOUS
      <4>1. s = p BY <1>0, <3>3, <3>4, <3>6, <3>7 DEF StableHomes
      <4>2. p \in Nat BY <3>3, WatcherAssumption
      <4> QED BY <4>1, <4>2
    <3>9. p \in present BY <3>3, <3>4, <3>6, <3>7, <3>8 DEF Declared
    <3> QED BY <3>3, <3>9
  <2> QED BY <2>2, <2>3
<1>3. CASE Restart BY <1>3 DEF Restart, HomeInv, engine
<1>4. CASE \E c : Read(c) BY <1>2, <1>4
<1>5. ASSUME NEW c, ReconcileFails(c) \/ Reconcile(c) PROVE UNCHANGED <<lastSeen, world>> /\ running \subseteq running'
  BY <1>5 DEF ReconcileFails, Reconcile, Reconciles, reaper
<1>6. CASE \E c : ReconcileFails(c) \/ Reconcile(c) BY <1>1, <1>5, <1>6
<1> QED BY <1>1, <1>3, <1>4, <1>6
    DEF Next, Tick, vars, reaper, engine, logOutcomes, Commit, Interval, StartTick, PullFails, LoadFails,
        PreflightHeld, PreflightRefused, PreflightPasses, Skip, Finish

\* As long as no config is moved to another file, whatever else happens in Git
\* and around the watcher, only targets the checkout no longer declares are
\* deleted (reap.go:91).  A renamed file breaks it: see the README.
THEOREM UndeclaredReaping ==
    ASSUME StableHomes
    PROVE  Spec => ReapsUndeclared
<1>1. Init => HomeInv BY DEF Init, HomeInv
<1>2. WatcherTypes /\ HomeInv /\ [Next]_vars => HomeInv' BY HomeNext
<1>3. WatcherTypes /\ HomeInv /\ [Next]_vars =>
        [\A r \in running \ running' : \A p \in Paths : tree'[p] # r]_vars
  BY HomeNext
<1> QED BY <1>1, <1>2, <1>3, TypesInit, TypesNext, PTL DEF Spec, ReapsUndeclared

-----------------------------------------------------------------------------
\* What Run knows in the middle of its tick, when nobody else ticks: a key it
\* has no outcome of yet is held for what the latest attempt was told, and an
\* outcome that refuses for good is what the latest attempt was told.
RunKnows ==
    /\ \A c \in Callers \ {Loop} : op[c] = Idle
    /\ op[Loop].pc \in {"idle", "read", "preflight"} => op[Loop].outs = NoOuts
    /\ op[Loop].pc = "each" => op[Loop].outs[Repo] = None /\ \A p \in op[Loop].todo : op[Loop].outs[p] = None
    /\ \A k \in Keys : op[Loop].outs[k] = "forbidden" => latest[k] = "forbidden"
    /\ \A k \in Keys : op[Loop].outs[k] = None /\ held(fail[k]) => latest[k] = "forbidden"

\* A streak that is held was refused for good.
LEMMA HeldText == \A f : held(f) => f.msg = "forbidden"
  BY DEF held, permanentFailure

\* The caller of a step ends its tick with one more outcome.
LEMMA EndKnows ==
    ASSUME WatcherTypes, NEW k \in Keys, NEW m \in Texts \cup {None}, EndWith(Loop, k, m), Loop \in Callers
    PROVE  /\ op' = [op EXCEPT ![Loop] = op'[Loop]] /\ op'[Loop].pc = "note"
           /\ op'[Loop].outs = [op[Loop].outs EXCEPT ![k] = m]
<1> DEFINE outs == [op[Loop].outs EXCEPT ![k] = m]
<1>1. op \in [Callers -> Op] /\ op[Loop].outs \in Outs BY DEF WatcherTypes, Op
<1>2. outs \in Outs BY <1>1 DEF Outs
<1>3. End(Loop, outs) BY DEF EndWith
<1> HIDE DEF outs
<1>4. PICK o \in Op : op' = [op EXCEPT ![Loop] = o] /\ o.outs = outs /\ o.pc = "note" BY <1>2, <1>3, EndsIn
<1>5. op'[Loop] = o BY <1>1, <1>4
<1> QED BY <1>4, <1>5 DEF outs

\* The tick of Run keeps what it knows.
LEMMA RunTick ==
    ASSUME WatcherTypes, RunKnows, Loop \in Callers, Tick(Loop)
    PROVE  RunKnows'
<1> DEFINE o == op[Loop]
<1>0. op \in [Callers -> Op] /\ o \in Op /\ o.outs \in Outs /\ fail \in [Keys -> Streak]
      /\ latest \in [Keys -> Texts \cup {None}]
  BY DEF WatcherTypes, Op
<1>1. PICK n : Moves(Loop, n) BY TickMoves
<1>2. op'[Loop] = n /\ \A c \in Callers \ {Loop} : op'[c] = op[c] BY <1>0, <1>1 DEF Moves
<1>3. \A c \in Callers \ {Loop} : op'[c] = Idle BY <1>2 DEF RunKnows
<1> USE DEF git, reaper, engine
<1>f. "forbidden" \in Texts /\ None \notin Texts /\ Repo \in Keys /\ Repo \notin Paths /\ Paths \subseteq Keys
  BY Small, WatcherAssumption
<1>r. \A k \in Keys : held(Reopened(Loop)[k]) => held(fail[k]) /\ Reopened(Loop)[k] = fail[k]
  BY Small DEF Reopened
\* An outcome of the repo that ends the tick.
<1>e. ASSUME NEW m \in Texts, EndWith(Loop, Repo, m), \A k \in Keys : held(fail'[k]) => held(fail[k]),
             \A k \in Keys \ {Repo} : latest'[k] = latest[k], m = "forbidden" => latest'[Repo] = "forbidden",
             o.pc \in {"idle", "read", "preflight"}
      PROVE  RunKnows'
  <2>1. op'[Loop].pc = "note" /\ op'[Loop].outs = [o.outs EXCEPT ![Repo] = m] BY <1>e, <1>f, EndKnows
  <2>2. o.outs = NoOuts BY <1>e DEF RunKnows
  <2>3. \A k \in Keys : op'[Loop].outs[k] = IF k = Repo THEN m ELSE None BY <2>1, <2>2 DEF NoOuts
  <2>4. \A k \in Keys \ {Repo} : held(fail[k]) => latest[k] = "forbidden"
    BY <2>2 DEF RunKnows, NoOuts
  <2> QED BY <1>3, <1>e, <1>f, <2>1, <2>3, <2>4 DEF RunKnows
\* An outcome of one config.
<1>d. ASSUME NEW p \in Paths, NEW m \in Texts \cup {"done", None}, Turn(Loop, p), Done(Loop, p, m),
             \A k \in Keys \ {p} : fail'[k] = fail[k] /\ latest'[k] = latest[k],
             m = "forbidden" => latest'[p] = "forbidden",
             m = None /\ held(fail'[p]) => latest'[p] = "forbidden"
      PROVE  RunKnows'
  <2>1. o.pc = "each" /\ p \in o.todo BY <1>d DEF Turn, Eligible
  <2>2. op'[Loop] = [o EXCEPT !.todo = o.todo \ {p}, !.outs = [o.outs EXCEPT ![p] = m]] BY <1>0, <1>d DEF Done
  <2>3. op'[Loop].pc = "each" /\ op'[Loop].todo = o.todo \ {p} /\ op'[Loop].outs = [o.outs EXCEPT ![p] = m]
    BY <1>0, <2>1, <2>2 DEF Op
  <2>4. \A k \in Keys : op'[Loop].outs[k] = IF k = p THEN m ELSE o.outs[k] BY <1>0, <2>3 DEF Outs
  <2>5. o.todo \subseteq Keys BY <1>0, <1>f DEF Op
  <2>6. p \in Keys /\ p # Repo BY <1>f
  <2>7. op'[Loop].outs[Repo] = None /\ \A q \in op'[Loop].todo : op'[Loop].outs[q] = None
    BY <1>f, <2>1, <2>3, <2>4, <2>5, <2>6 DEF RunKnows
  <2>8. \A k \in Keys : op'[Loop].outs[k] = "forbidden" => latest'[k] = "forbidden"
    BY <1>d, <2>4 DEF RunKnows
  <2>9. \A k \in Keys : op'[Loop].outs[k] = None /\ held(fail'[k]) => latest'[k] = "forbidden"
    BY <1>d, <2>4 DEF RunKnows
  <2> QED BY <1>3, <2>3, <2>7, <2>8, <2>9 DEF RunKnows
<1>4. CASE StartTick(Loop)
  <2>1. CASE lock
    <3>1. EndWith(Loop, Repo, "busy") /\ UNCHANGED <<fail, latest>> /\ o.pc = "idle" BY <1>4, <2>1 DEF StartTick
    <3> QED BY <1>e, <3>1, Small
  <2>2. CASE ~lock
    <3>1. op' = [op EXCEPT ![Loop].pc = "read"] /\ UNCHANGED <<fail, latest>> /\ o.pc = "idle" BY <1>4, <2>2 DEF StartTick
    <3>2. op'[Loop].pc = "read" /\ op'[Loop].outs = o.outs BY <1>0, <3>1 DEF Op
    <3> QED BY <1>3, <3>1, <3>2 DEF RunKnows
  <2> QED BY <2>1, <2>2
<1>5. CASE PullFails(Loop) \/ LoadFails(Loop)
  <2>1. /\ EndWith(Loop, Repo, "unreadable") \/ EndWith(Loop, Repo, "invalid")
        /\ UNCHANGED <<fail, latest>> /\ o.pc = "read"
    BY <1>5 DEF PullFails, LoadFails
  <2> QED BY <1>e, <2>1, Small
<1>6. CASE Read(Loop)
  <2>1. op' = [op EXCEPT ![Loop] = [o EXCEPT !.pc = "preflight", !.changed = (moved \/ tree = None)]]
        /\ UNCHANGED <<fail, latest>> /\ o.pc = "read"
    BY <1>6 DEF Read
  <2>2. op'[Loop].pc = "preflight" /\ op'[Loop].outs = o.outs BY <1>0, <2>1 DEF Op
  <2> QED BY <1>3, <2>1, <2>2 DEF RunKnows
<1>7. CASE PreflightHeld(Loop)
  <2>1. /\ EndWith(Loop, Repo, Reopened(Loop)[Repo].msg) /\ fail' = Reopened(Loop) /\ latest' = latest
        /\ held(Reopened(Loop)[Repo]) /\ o.pc = "preflight"
    BY <1>7 DEF PreflightHeld
  <2>2. Reopened(Loop)[Repo].msg = "forbidden" BY <2>1, HeldText
  <2>3. latest[Repo] = "forbidden" BY <2>1, <1>r, <1>f DEF RunKnows, NoOuts
  <2> QED BY <1>e, <1>f, <1>r, <2>1, <2>2, <2>3
<1>8. CASE PreflightRefused(Loop)
  <2>1. PICK m \in world.refusals : EndWith(Loop, Repo, m) /\ latest' = [latest EXCEPT ![Repo] = m]
    BY <1>8 DEF PreflightRefused
  <2>2. fail' = Reopened(Loop) /\ o.pc = "preflight" BY <1>8 DEF PreflightRefused
  <2>3. m \in Texts BY Small, WatcherAssumption DEF WatcherTypes
  <2>4. latest'[Repo] = m /\ \A k \in Keys \ {Repo} : latest'[k] = latest[k] BY <1>0, <1>f, <2>1
  <2> QED BY <1>e, <1>r, <2>1, <2>2, <2>3, <2>4
<1>9. CASE PreflightPasses(Loop)
  <2>1. /\ op' = [op EXCEPT ![Loop] = [o EXCEPT !.pc = "each", !.todo = Declared(tree)]]
        /\ fail' = [Reopened(Loop) EXCEPT ![Repo] = NoStreak] /\ latest' = [latest EXCEPT ![Repo] = None]
        /\ o.pc = "preflight"
    BY <1>9 DEF PreflightPasses
  <2>2. op'[Loop].pc = "each" /\ op'[Loop].outs = o.outs /\ op'[Loop].todo = Declared(tree) BY <1>0, <2>1 DEF Op
  <2>3. o.outs = NoOuts BY <2>1 DEF RunKnows
  <2>4. \A k \in Keys : o.outs[k] = None BY <2>3 DEF NoOuts
  <2>5. Reopened(Loop) \in [Keys -> Streak] BY <1>0, Small DEF Reopened
  <2>6. \A k \in Keys : held(fail'[k]) => k # Repo /\ held(fail[k]) BY <1>r, <2>1, <2>5, Small
  <2>7. \A k \in Keys \ {Repo} : latest'[k] = latest[k] BY <1>0, <2>1
  <2>8. Declared(tree) \subseteq Keys BY <1>f DEF Declared
  <2> QED BY <1>3, <1>f, <2>2, <2>4, <2>6, <2>7, <2>8 DEF RunKnows
<1>10. CASE Skip(Loop)
  <2>1. PICK p \in Paths : /\ Turn(Loop, p)
                           /\ \/ Waiting(p) /\ Done(Loop, p, None)
                              \/ ~Waiting(p) /\ Skips(p) /\ Done(Loop, p, fail[p].msg)
    BY <1>10 DEF Skip
  <2>2. UNCHANGED <<fail, latest>> BY <1>10 DEF Skip
  <2>3. p \in o.todo /\ o.pc = "each" /\ p \in Keys BY <1>f, <2>1 DEF Turn, Eligible
  <2>4. held(fail[p]) => latest[p] = "forbidden" BY <2>3 DEF RunKnows
  <2>5. fail[p].msg \in Texts \cup {None} BY <1>0, <2>3 DEF Streak
  <2>6. Skips(p) => held(fail[p]) /\ fail[p].msg = "forbidden" BY HeldText DEF Skips, Held
  <2> QED BY <1>d, <1>f, <2>1, <2>2, <2>4, <2>5, <2>6
<1>11. CASE ReconcileFails(Loop)
  <2>1. PICK p \in Paths, m \in world.refusals :
          Turn(Loop, p) /\ Done(Loop, p, m) /\ latest' = [latest EXCEPT ![p] = m] /\ fail' = fail
    BY <1>11 DEF ReconcileFails
  <2>2. m \in Texts BY Small, WatcherAssumption DEF WatcherTypes
  <2>3. latest'[p] = m /\ \A k \in Keys \ {p} : latest'[k] = latest[k] BY <1>0, <1>f, <2>1
  <2> QED BY <1>d, <1>f, <2>1, <2>2, <2>3
<1>12. CASE Reconcile(Loop)
  <2>1. PICK p \in Paths, m \in {"done", None} :
          /\ Turn(Loop, p) /\ Done(Loop, p, m) /\ latest' = [latest EXCEPT ![p] = None]
          /\ fail' = [fail EXCEPT ![p] = NoStreak]
    BY <1>12 DEF Reconcile, Reconciles
  <2>2. \A k \in Keys \ {p} : latest'[k] = latest[k] /\ fail'[k] = fail[k] BY <1>0, <1>f, <2>1
  <2>3. fail'[p] = NoStreak BY <1>0, <1>f, <2>1
  <2>4. "done" # "forbidden" OBVIOUS
  <2> QED BY <1>d, <1>f, <2>1, <2>2, <2>3, <2>4, Small
<1>13. CASE Finish(Loop)
  <2>1. End(Loop, o.outs) /\ UNCHANGED <<fail, latest>> BY <1>13 DEF Finish
  <2>2. PICK x \in Op : op' = [op EXCEPT ![Loop] = x] /\ x.outs = o.outs /\ x.pc = "note" BY <1>0, <2>1, EndsIn
  <2>3. op'[Loop].pc = "note" /\ op'[Loop].outs = o.outs BY <1>0, <2>2
  <2> QED BY <1>3, <2>1, <2>3 DEF RunKnows
<1> QED BY <1>4, <1>5, <1>6, <1>7, <1>8, <1>9, <1>10, <1>11, <1>12, <1>13 DEF Tick

\* So do the notes of Run, commits, time and restarts.
LEMMA RunNext ==
    ASSUME WatcherTypes, RunKnows, world.callers = {Loop}, [Next]_vars
    PROVE  RunKnows'
<1>0. op \in [Callers -> Op] /\ op[Loop].outs \in Outs /\ fail \in [Keys -> Streak] /\ Loop \in Callers
  BY WorldCallers DEF WatcherTypes, Op
<1>1. CASE UNCHANGED <<op, fail, latest>> BY <1>1 DEF RunKnows
<1>2. CASE Tick(Loop) BY <1>0, <1>2, RunTick
<1>3. CASE logOutcomes
  <2>1. latest' = latest /\ op'[Loop] = Idle /\ \A c \in Callers \ {Loop} : op'[c] = op[c]
    BY <1>0, <1>3 DEF logOutcomes
  <2>2. ASSUME NEW k \in Keys, held(fail'[k]) PROVE latest[k] = "forbidden"
    <3> DEFINE m == op[Loop].outs[k]
    <3>1. fail'[k] = IF m \in Texts THEN note(fail[k], m) ELSE IF m = "done" THEN NoStreak ELSE fail[k]
      BY <1>3 DEF logOutcomes
    <3>2. m \in Texts \cup {"done", None} /\ fail[k] \in Streak BY <1>0 DEF Outs
    <3>3. CASE m \in Texts
      <4>1. fail'[k].msg = m BY <3>1, <3>2, <3>3, NoteTypes
      <4> QED BY <2>2, <4>1, HeldText DEF RunKnows
    <3>4. CASE m = None /\ m # "done" /\ m \notin Texts
      <4>1. fail'[k] = fail[k] BY <3>1, <3>4
      <4> QED BY <2>2, <3>4, <4>1 DEF RunKnows
    <3>5. CASE m = "done" /\ m \notin Texts BY <2>2, <3>1, <3>5, Small
    <3> QED BY <3>2, <3>3, <3>4, <3>5
  <2>3. \A k \in Keys : NoOuts[k] = None BY DEF NoOuts
  <2>4. None # "forbidden" BY WatcherAssumption, Small
  <2> QED BY <2>1, <2>2, <2>3, <2>4, Small DEF RunKnows
<1>4. CASE Interval
  <2>1. UNCHANGED <<op, latest>> BY <1>4 DEF Interval
  <2>2. ASSUME NEW k \in Keys, held(fail'[k]) PROVE held(fail[k])
    <3>1. fail[k] \in Streak /\ HoldFor \in Nat BY <1>0, WatcherAssumption
    <3>2. fail'[k] = [fail[k] EXCEPT !.age = IF fail[k].age <= HoldFor THEN fail[k].age + 1 ELSE fail[k].age]
      BY <1>4 DEF Interval
    <3> QED BY <2>2, <3>1, <3>2 DEF held, Streak
  <2> QED BY <2>1, <2>2 DEF RunKnows
<1>5. CASE Restart
  <2>1. \A c \in Callers : op'[c] = Idle BY <1>5 DEF Restart
  <2>2. \A k \in Keys : fail'[k] = NoStreak /\ NoOuts[k] = None BY <1>5 DEF Restart, NoOuts
  <2>3. None # "forbidden" BY WatcherAssumption, Small
  <2> QED BY <1>0, <2>1, <2>2, <2>3, Small DEF RunKnows
<1> QED BY <1>1, <1>2, <1>3, <1>4, <1>5 DEF Next, vars, Commit

\* Where nothing is refused for good, nothing is ever held.
NothingForGood ==
    /\ \A k \in Keys : fail[k].msg # "forbidden"
    /\ \A c \in Callers, k \in Keys : op[c].outs[k] # "forbidden"

\* A tick brings no such refusal in.
LEMMA NothingTick ==
    ASSUME WatcherTypes, NothingForGood, "forbidden" \notin world.refusals, NEW c \in Callers, Tick(c)
    PROVE  NothingForGood'
<1> USE DEF git, reaper, engine
<1>0. op \in [Callers -> Op] /\ op[c] \in Op /\ op[c].outs \in Outs /\ fail \in [Keys -> Streak]
  BY DEF WatcherTypes, Op
<1>n. NoStreak.msg # "forbidden" /\ None # "forbidden" BY WatcherAssumption, Small DEF NoStreak
<1>k. Repo \in Keys /\ Paths \subseteq Keys /\ \A k \in Keys : NoOuts[k] # "forbidden" BY <1>n, Small DEF NoOuts
<1>r. Reopened(c) \in [Keys -> Streak] /\ \A k \in Keys : Reopened(c)[k].msg # "forbidden"
  BY <1>0, <1>n, Small DEF Reopened, NothingForGood
<1>m. world.refusals \subseteq Texts \ {"forbidden"} BY Small, WatcherAssumption DEF WatcherTypes
<1>1. \A k \in Keys : fail'[k].msg # "forbidden"
  <2>1. CASE PreflightHeld(c) \/ PreflightRefused(c) BY <1>r, <2>1 DEF PreflightHeld, PreflightRefused
  <2>2. CASE PreflightPasses(c) BY <1>r, <1>n, <2>2 DEF PreflightPasses
  <2>3. CASE Reconcile(c) BY <1>0, <1>n, <2>3 DEF Reconcile, Reconciles, NothingForGood
  <2> QED BY <2>1, <2>2, <2>3 DEF Tick, StartTick, PullFails, LoadFails, Read, Skip, ReconcileFails, Finish, NothingForGood
<1>2. ASSUME NEW o \in Op, op' = [op EXCEPT ![c] = o], \A k \in Keys : o.outs[k] # "forbidden" PROVE NothingForGood'
  <2>1. \A d \in Callers : op'[d] = IF d = c THEN o ELSE op[d] BY <1>0, <1>2
  <2> QED BY <1>1, <1>2, <2>1 DEF NothingForGood
<1>e. ASSUME NEW outs \in Outs, End(c, outs), \A k \in Keys : outs[k] # "forbidden" PROVE NothingForGood'
  <2>1. PICK o \in Op : op' = [op EXCEPT ![c] = o] /\ o.outs \in {NoOuts, outs} BY <1>e, EndsIn
  <2> QED BY <1>2, <1>e, <1>k, <2>1
<1>w. ASSUME NEW k \in Keys, NEW m \in Texts \cup {None}, m # "forbidden", EndWith(c, k, m) PROVE NothingForGood'
  <2> DEFINE outs == [op[c].outs EXCEPT ![k] = m]
  <2>1. outs \in Outs /\ \A l \in Keys : outs[l] # "forbidden" BY <1>0, <1>w DEF Outs, NothingForGood
  <2>2. End(c, outs) BY <1>w DEF EndWith
  <2> HIDE DEF outs
  <2> QED BY <1>e, <2>1, <2>2
<1>d. ASSUME NEW p \in Paths, NEW m \in Texts \cup {"done", None}, m # "forbidden", Done(c, p, m) PROVE NothingForGood'
  <2> DEFINE outs == [op[c].outs EXCEPT ![p] = IF c = Loop THEN m ELSE None]
             o == [op[c] EXCEPT !.todo = op[c].todo \ {p}, !.outs = outs]
  <2>1. outs \in Outs /\ \A l \in Keys : outs[l] # "forbidden" BY <1>0, <1>n, <1>k, <1>d DEF Outs, NothingForGood
  <2>2. op' = [op EXCEPT ![c] = o] BY <1>0, <1>d DEF Done
  <2> HIDE DEF outs
  <2>3. o \in Op /\ o.outs = outs BY <1>0, <2>1 DEF Op
  <2> HIDE DEF o
  <2> QED BY <1>2, <2>1, <2>2, <2>3
<1>3. CASE StartTick(c)
  <2>1. CASE EndWith(c, Repo, "busy") BY <1>k, <1>w, <2>1, Small
  <2>2. CASE op' = [op EXCEPT ![c].pc = "read"]
    <3>1. [op[c] EXCEPT !.pc = "read"] \in Op /\ [op[c] EXCEPT !.pc = "read"].outs = op[c].outs BY <1>0 DEF Op, Ticking
    <3>2. op' = [op EXCEPT ![c] = [op[c] EXCEPT !.pc = "read"]] BY <2>2
    <3> QED BY <1>2, <3>1, <3>2 DEF NothingForGood
  <2> QED BY <1>3, <2>1, <2>2 DEF StartTick
<1>4. CASE PullFails(c) \/ LoadFails(c)
  <2>1. EndWith(c, Repo, "unreadable") \/ EndWith(c, Repo, "invalid") BY <1>4 DEF PullFails, LoadFails
  <2> QED BY <1>k, <1>w, <2>1, Small
<1>5. CASE Read(c)
  <2> DEFINE o == [op[c] EXCEPT !.pc = "preflight", !.changed = (moved \/ tree = None)]
  <2>1. op' = [op EXCEPT ![c] = o] BY <1>5 DEF Read
  <2>2. o \in Op /\ o.outs = op[c].outs BY <1>0 DEF Op, Ticking
  <2> HIDE DEF o
  <2> QED BY <1>2, <2>1, <2>2 DEF NothingForGood
<1>6. CASE PreflightHeld(c)
  <2>1. EndWith(c, Repo, Reopened(c)[Repo].msg) BY <1>6 DEF PreflightHeld
  <2>2. Reopened(c)[Repo].msg \in Texts \cup {None} BY <1>r, <1>k DEF Streak
  <2> QED BY <1>k, <1>r, <1>w, <2>1, <2>2
<1>7. CASE PreflightRefused(c)
  <2>1. PICK m \in world.refusals : EndWith(c, Repo, m) BY <1>7 DEF PreflightRefused
  <2> QED BY <1>k, <1>m, <1>w, <2>1
<1>8. CASE PreflightPasses(c)
  <2> DEFINE o == [op[c] EXCEPT !.pc = "each", !.todo = Declared(tree)]
  <2>1. op' = [op EXCEPT ![c] = o] BY <1>8 DEF PreflightPasses
  <2>2. o \in Op /\ o.outs = op[c].outs BY <1>0 DEF Op, Ticking, Declared
  <2> HIDE DEF o
  <2> QED BY <1>2, <2>1, <2>2 DEF NothingForGood
<1>9. CASE Skip(c)
  <2>1. PICK p \in Paths : Done(c, p, None) \/ Done(c, p, fail[p].msg) BY <1>9 DEF Skip
  <2>2. fail[p].msg \in Texts \cup {None} /\ fail[p].msg # "forbidden" BY <1>0, <1>k DEF Streak, NothingForGood
  <2> QED BY <1>d, <1>n, <2>1, <2>2
<1>10. CASE ReconcileFails(c)
  <2>1. PICK p \in Paths, m \in world.refusals : Done(c, p, m) BY <1>10 DEF ReconcileFails
  <2> QED BY <1>d, <1>m, <2>1
<1>11. CASE Reconcile(c)
  <2>1. PICK p \in Paths, m \in {"done", None} : Done(c, p, m) BY <1>11 DEF Reconcile, Reconciles
  <2> QED BY <1>d, <1>n, <2>1
<1>12. CASE Finish(c)
  <2>1. End(c, op[c].outs) BY <1>12 DEF Finish
  <2> QED BY <1>0, <1>e, <2>1 DEF NothingForGood
<1> QED BY <1>3, <1>4, <1>5, <1>6, <1>7, <1>8, <1>9, <1>10, <1>11, <1>12 DEF Tick

\* Nor does anything else.
LEMMA NothingNext ==
    ASSUME WatcherTypes, NothingForGood, "forbidden" \notin world.refusals, [Next]_vars
    PROVE  NothingForGood'
<1>0. op \in [Callers -> Op] /\ fail \in [Keys -> Streak] /\ Loop \in Callers /\ op[Loop].outs \in Outs
  BY WorldCallers DEF WatcherTypes, Op
<1>n. NoStreak.msg # "forbidden" /\ \A k \in Keys : NoOuts[k] # "forbidden"
  BY WatcherAssumption, Small DEF NoStreak, NoOuts
<1>1. CASE UNCHANGED <<op, fail>> BY <1>1 DEF NothingForGood
<1>2. CASE \E c \in world.callers : Tick(c) BY <1>2, NothingTick, WorldCallers
<1>3. CASE logOutcomes
  <2>1. \A c \in Callers : op'[c] = IF c = Loop THEN Idle ELSE op[c] BY <1>0, <1>3 DEF logOutcomes
  <2>2. ASSUME NEW k \in Keys PROVE fail'[k].msg # "forbidden"
    <3> DEFINE m == op[Loop].outs[k]
    <3>1. fail'[k] = IF m \in Texts THEN note(fail[k], m) ELSE IF m = "done" THEN NoStreak ELSE fail[k]
      BY <1>3 DEF logOutcomes
    <3>2. m # "forbidden" /\ fail[k].msg # "forbidden" /\ fail[k] \in Streak BY <1>0 DEF NothingForGood
    <3> QED BY <1>n, <3>1, <3>2, NoteTypes
  <2> QED BY <1>n, <2>1, <2>2, Small DEF NothingForGood
<1>4. CASE Interval
  <2>1. \A k \in Keys : fail'[k].msg = fail[k].msg BY <1>0, <1>4 DEF Interval, Streak
  <2>2. op' = op BY <1>4 DEF Interval
  <2> QED BY <2>1, <2>2 DEF NothingForGood
<1>5. CASE Restart
  <2>1. \A c \in Callers : op'[c] = Idle BY <1>5 DEF Restart
  <2>2. \A k \in Keys : fail'[k] = NoStreak BY <1>5 DEF Restart
  <2> QED BY <1>n, <2>1, <2>2, Small DEF NothingForGood
<1> QED BY <1>1, <1>2, <1>3, <1>4, <1>5 DEF Next, vars, Commit

HoldInv ==
    /\ world.callers = {Loop} => RunKnows
    /\ "forbidden" \notin world.refusals => NothingForGood

\* Where Run ticks alone, or nothing is refused for good, a key is held between
\* ticks only for what its latest attempt was told (fail.go:97).  A webhook that
\* succeeds between the tick of Run and its notes breaks it: see the README.
THEOREM HoldsAreEarned ==
    ASSUME \A w \in Worlds : w.callers = {Loop} \/ "forbidden" \notin w.refusals
    PROVE  Spec => []HeldWasRefused
<1>1. Init => HoldInv
  <2> SUFFICES ASSUME Init PROVE HoldInv OBVIOUS
  <2>1. WatcherTypes /\ Loop \in Callers BY TypesInit, WorldCallers
  <2>2. \A c \in Callers : op[c] = Idle BY DEF Init
  <2>3. \A k \in Keys : fail[k] = NoStreak /\ NoOuts[k] = None BY DEF Init, NoOuts
  <2>4. None # "forbidden" /\ NoStreak.msg = None BY WatcherAssumption, Small DEF NoStreak
  <2>5. RunKnows BY <2>1, <2>2, <2>3, <2>4, Small DEF RunKnows
  <2>6. NothingForGood BY <2>2, <2>3, <2>4, Small DEF NothingForGood
  <2> QED BY <2>5, <2>6 DEF HoldInv
<1>2. WatcherTypes /\ HoldInv /\ [Next]_vars => HoldInv'
  <2> SUFFICES ASSUME WatcherTypes, HoldInv, [Next]_vars PROVE HoldInv' OBVIOUS
  <2>1. world' = world
    BY DEF vars, Next, Tick, StartTick, PullFails, LoadFails, Read, PreflightHeld, PreflightRefused, PreflightPasses,
       Skip, ReconcileFails, Reconcile, Reconciles, Finish, logOutcomes, Commit, Interval, Restart
  <2> QED BY <2>1, RunNext, NothingNext DEF HoldInv
<1>3. WatcherTypes /\ HoldInv => HeldWasRefused
  <2> SUFFICES ASSUME WatcherTypes, HoldInv, \A c \in Callers : op[c].pc = "idle", NEW k \in Keys, Held(k)
               PROVE  permanentFailure(latest[k])
    BY DEF HeldWasRefused
  <2>1. fail[k].msg = "forbidden" BY HeldText DEF Held
  <2>2. world \in Worlds /\ Loop \in Callers BY WorldCallers DEF WatcherTypes
  <2>3. RunKnows BY <2>1, <2>2 DEF HoldInv, NothingForGood
  <2>4. op[Loop].outs[k] = None BY <2>2, <2>3 DEF RunKnows, NoOuts
  <2> QED BY <2>3, <2>4 DEF RunKnows, Held, permanentFailure
<1> QED BY <1>1, <1>2, <1>3, TypesInit, TypesNext, PTL DEF Spec
=============================================================================
