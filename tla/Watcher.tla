-------------------------------- MODULE Watcher --------------------------------
(***************************************************************************)
(* The watcher of internal/reconcile: ticks of one repo, the failStreak     *)
(* that holds refused targets, and the reaper that retires configs which    *)
(* are no longer declared.                                                  *)
(*                                                                          *)
(* Repos are independent here: locks and keys are per repo.  This replica   *)
(* is the reconcile leader (a tick of another one changes nothing of this   *)
(* state) and preflight is on, as in the daemon.  Rollouts are abstract:    *)
(* what Reconcile may do to one is RolloutEngine's subject.                 *)
(***************************************************************************)
EXTENDS Naturals, FiniteSets

CONSTANTS
    Callers,       \* the goroutines that tick: Run, the webhook, "Sync now"
    Loop,          \* Run, the one that hands its outcomes to logOutcomes
    Repo,          \* the repo's own key in failStreak
    Paths,         \* config files, in file order
    Refs,          \* target refs
    None,          \* no ref, no error text, no checkout
    DependsOn,     \* ref -> the refs its config names in dependsOn
    ReapOnDelete,  \* refs whose config sets reapOnDelete
    Worlds,        \* what may happen around the watcher: [callers, those of Callers that
                   \* tick; trees, what Git may hold (file -> the ref it declares, or None);
                   \* refusals, error texts preflight and Reconcile may return; readErrors,
                   \* ways reading the repo may fail; restarts, may the process restart]
    After,         \* stuckAfterCycles
    HoldFor        \* permanentHoldFor, in reconcile intervals

Texts == {"busy", "unreadable", "invalid", "forbidden", "timeout"}

ASSUME WatcherAssumption ==
    /\ Worlds \subseteq [callers : {C \in SUBSET Callers : Loop \in C}, trees : SUBSET [Paths -> Refs \cup {None}],
                        refusals : SUBSET {"forbidden", "timeout"}, readErrors : SUBSET {"pull", "load"},
                        restarts : BOOLEAN]
    /\ Paths \subseteq Nat /\ IsFiniteSet(Paths) /\ Repo \notin Paths
    /\ None \notin Refs /\ None \notin Texts
    /\ DependsOn \in [Refs -> SUBSET Refs]
    /\ ReapOnDelete \subseteq Refs
    /\ After \in Nat \ {0} /\ HoldFor \in Nat

Keys == Paths \cup {Repo}

VARIABLES
    world,     \* the world of this behaviour, which stays
    head,      \* the tree of the tracked branch at the remote
    moved,     \* head has commits the checkout does not
    tree,      \* the checkout, None before the first clone
    lock,      \* repoLocks.held[repo]
    fail,      \* failStreak: key -> streak
    seen,      \* reaper.seen: files declared on some earlier tick
    absent,    \* reaper.absent: file -> consecutive ticks it was missing
    lastSeen,  \* file -> the ref it last declared
    status,    \* ref -> where its newest rollout stands
    stale,     \* refs whose desired state moved since they were in sync
    running,   \* refs with resources on the cluster
    op,        \* per caller: the tick it is in the middle of
    due,       \* the interval of Run has elapsed
    clean,     \* history: file -> loads in a row without it, no failed tick between
    latest     \* history: key -> how the latest attempt on it ended

vars == <<world, head, moved, tree, lock, fail, seen, absent, lastSeen, status, stale,
          running, op, due, clean, latest>>
git == <<head, moved, tree>>
reaper == <<seen, absent, lastSeen, clean>>
engine == <<status, stale, running>>

(***************************************************************************)
(* failStreak.  age is the time since heldAt, in intervals, and stands still *)
(* once the hold is over; perm is permanentFailure of the text, as note     *)
(* sets both together; n is not counted past After.                         *)
(***************************************************************************)
NoStreak == [msg |-> None, n |-> 0, fired |-> FALSE, age |-> HoldFor + 1]

permanentFailure(m) == m = "forbidden"

note(f, m) ==
    LET perm == permanentFailure(m)
        age == IF perm THEN 0 ELSE f.age
    IN  IF f.msg # m
        THEN [msg |-> m, n |-> 1, fired |-> perm, age |-> age]
        ELSE [msg |-> m, n |-> IF f.n < After THEN f.n + 1 ELSE After,
              fired |-> f.fired \/ perm \/ f.n + 1 >= After, age |-> age]

\* Mutant of held: any streak that fired holds, whatever its text.
HeldAnyText(f) == f.fired /\ f.age <= HoldFor

held(f) == f.fired /\ permanentFailure(f.msg) /\ f.age <= HoldFor

Held(k) == held(fail[k])

(***************************************************************************)
(* The configs of a checkout, and their order.                              *)
(***************************************************************************)

\* The first file that declares a ref; later ones are skipped as duplicates.
Declared(t) == {p \in Paths : t[p] # None /\ \A q \in Paths : q < p => t[q] # t[p]}

\* orderByDependsOn: a dependency before its dependents, unless the batch has a
\* cycle, which keeps file order.
Eligible(batch, todo) ==
    LET Needs(p, S) == {q \in S : tree[q] \in DependsOn[tree[p]]}
        cyclic == \E S \in SUBSET batch : S # {} /\ \A p \in S : Needs(p, S) # {}
    IN  IF cyclic THEN {p \in todo : \A q \in todo : p <= q}
        ELSE {p \in todo : Needs(p, todo) = {}}

\* outs: what logOutcomes will see of each key, an error text, "done" for a
\* rollout that was applied, None for nothing.
NoOuts == [k \in Keys |-> None]
Idle == [pc |-> "idle", changed |-> FALSE, todo |-> {}, outs |-> NoOuts]

\* The tick returns its outcomes: Run logs them, the others drop them.
End(c, outs) ==
    op' = [op EXCEPT ![c] = IF c = Loop THEN [Idle EXCEPT !.pc = "note", !.outs = outs]
                            ELSE Idle]
EndWith(c, k, m) == End(c, [op[c].outs EXCEPT ![k] = m])

Init ==
    /\ world \in Worlds
    /\ head \in world.trees /\ moved = FALSE /\ tree = None
    /\ lock = FALSE
    /\ fail = [k \in Keys |-> NoStreak]
    /\ seen = {} /\ absent = [p \in Paths |-> 0] /\ lastSeen = [p \in Paths |-> None]
    /\ status = [r \in Refs |-> "none"] /\ stale = Refs /\ running = {}
    /\ op = [c \in Callers |-> Idle]
    /\ due = TRUE
    /\ clean = [p \in Paths |-> 0]
    /\ latest = [k \in Keys |-> None]

(***************************************************************************)
(* One tick: tickOne under the repo lock, then logOutcomes without it.      *)
(***************************************************************************)

\* TickHint, then tryAcquire: a repo another caller is ticking is busy.
StartTick(c) ==
    /\ op[c].pc = "idle" /\ (c = Loop => due)
    /\ due' = (due /\ c # Loop)
    /\ IF lock
       THEN EndWith(c, Repo, "busy") /\ UNCHANGED lock
       ELSE lock' = TRUE /\ op' = [op EXCEPT ![c].pc = "read"]
    /\ UNCHANGED <<world, git, fail, reaper, engine, latest>>

\* A clone or pull that fails returns before the reaper hears of it.
PullFails(c) ==
    /\ op[c].pc = "read" /\ "pull" \in world.readErrors
    /\ lock' = FALSE /\ EndWith(c, Repo, "unreadable")
    /\ clean' = [p \in Paths |-> 0]
    /\ UNCHANGED <<world, git, fail, seen, absent, lastSeen, engine, due, latest>>

\* Mutant of Forgiven: a load error only pauses the count.
ForgivenNot == absent

\* What a new commit does to the targets: every config it declares is edited.
Edited == IF moved THEN stale \cup {head[p] : p \in Declared(head)} ELSE stale

\* reaper.observe with a load error: progress is reset for every known file.
Forgiven == [p \in Paths |-> IF p \in seen THEN 0 ELSE absent[p]]

LoadFails(c) ==
    /\ op[c].pc = "read" /\ "load" \in world.readErrors
    /\ tree' = head /\ moved' = FALSE
    /\ lock' = FALSE /\ EndWith(c, Repo, "invalid")
    /\ absent' = Forgiven
    /\ clean' = [p \in Paths |-> 0]
    /\ stale' = Edited
    /\ UNCHANGED <<world, head, fail, seen, lastSeen, status, running, due, latest>>

\* Mutant of Verdicts: the count of an earlier absence still condemns a file
\* that is back.
VerdictsOnCount(present) == {p \in seen : absent[p] + 1 >= After}

\* Files missing for After ticks, counting this one.
Verdicts(present) == {p \in seen \ present : absent[p] + 1 >= After}

\* reaper.observe of a complete load.
Observed(present) ==
    [p \in Paths |-> IF p \notin seen THEN absent[p]
                     ELSE IF p \in present \cup Verdicts(present) THEN 0
                     ELSE absent[p] + 1]

\* reportOrphan: the targets to delete, of vanished configs that asked for it.
Reaped(verdicts) == {lastSeen[p] : p \in verdicts} \cap ReapOnDelete

\* Pull and load succeed; the reaper observes the deduplicated set, the verdicts
\* are reaped, which may fail and is not tried again, and their files forgotten.
Read(c) ==
    LET present == Declared(head)
        verdicts == Verdicts(present)
        changed == moved \/ tree = None
    IN  /\ op[c].pc = "read"
        /\ tree' = head /\ moved' = FALSE
        /\ absent' = Observed(present)
        /\ seen' = (seen \cup present) \ verdicts
        /\ lastSeen' = [p \in Paths |-> IF p \in present THEN head[p]
                                        ELSE IF p \in verdicts THEN None ELSE lastSeen[p]]
        /\ clean' = [p \in Paths |-> IF p \in present THEN 0
                                     ELSE IF clean[p] < After THEN clean[p] + 1 ELSE After]
        /\ running' \in {running, running \ Reaped(verdicts)}
        /\ stale' = Edited
        /\ op' = [op EXCEPT ![c].pc = "preflight", ![c].changed = changed]
        /\ UNCHANGED <<world, head, lock, fail, status, due, latest>>

\* failures.clearRepo when Git moved.
Reopened(c) == IF op[c].changed THEN [k \in Keys |-> NoStreak] ELSE fail

PreflightHeld(c) ==
    /\ op[c].pc = "preflight" /\ held(Reopened(c)[Repo])
    /\ fail' = Reopened(c)
    /\ lock' = FALSE /\ EndWith(c, Repo, Reopened(c)[Repo].msg)
    /\ UNCHANGED <<world, git, reaper, engine, due, latest>>

PreflightRefused(c) ==
    /\ op[c].pc = "preflight" /\ ~held(Reopened(c)[Repo])
    /\ \E m \in world.refusals : EndWith(c, Repo, m) /\ latest' = [latest EXCEPT ![Repo] = m]
    /\ fail' = Reopened(c)
    /\ lock' = FALSE
    /\ UNCHANGED <<world, git, reaper, engine, due>>

PreflightPasses(c) ==
    /\ op[c].pc = "preflight" /\ ~held(Reopened(c)[Repo])
    /\ fail' = [Reopened(c) EXCEPT ![Repo] = NoStreak]
    /\ latest' = [latest EXCEPT ![Repo] = None]
    /\ op' = [op EXCEPT ![c].pc = "each", ![c].todo = Declared(tree)]
    /\ UNCHANGED <<world, git, lock, reaper, engine, due>>

\* The config whose turn it is, done with the outcome m, which only Run reads.
Turn(c, p) == op[c].pc = "each" /\ p \in Eligible(Declared(tree), op[c].todo)
Done(c, p, m) == op' = [op EXCEPT ![c].todo = @ \ {p}, ![c].outs[p] = IF c = Loop THEN m ELSE None]

\* waitingOn: a dependency whose newest rollout is not promoted.
Waiting(p) == \E d \in DependsOn[tree[p]] : status[d] # "promoted"

\* A held target is left alone, except that one in flight is still stepped.
Skips(p) == Held(p) /\ status[tree[p]] # "flight"

Skip(c) ==
    /\ \E p \in Paths :
           /\ Turn(c, p)
           /\ \/ Waiting(p) /\ Done(c, p, None)
              \/ ~Waiting(p) /\ Skips(p) /\ Done(c, p, fail[p].msg)
    /\ UNCHANGED <<world, git, lock, fail, reaper, engine, due, latest>>

\* The newest rollout is promoted and Plan finds nothing to change.
InSync(r) == status[r] = "promoted" /\ r \notin stale

\* Reconcile returns an error; the rollout is as it was or, if there was
\* something to do, rolled back or left in flight.
ReconcileFails(c) ==
    \E p \in Paths, m \in world.refusals :
        LET r == tree[p]
            left == {status[r]} \cup (IF InSync(r) THEN {} ELSE {"flight", "other"})
        IN  /\ Turn(c, p) /\ ~Waiting(p) /\ ~Skips(p)
            /\ Done(c, p, m)
            /\ status' \in {[status EXCEPT ![r] = s] : s \in left}
            /\ stale' = IF status'[r] = "flight" /\ status[r] # "flight" THEN stale \ {r} ELSE stale
            /\ latest' = [latest EXCEPT ![p] = m]
            /\ running' = IF status' = status THEN running ELSE running \cup {r}
            /\ UNCHANGED <<world, git, lock, fail, reaper, due>>

\* Reconcile in sync is a no-op; otherwise the target is stepped or applied, and
\* its rollout ends promoted, in flight, or in some other phase.
Reconciles(c, p, s) ==
    LET r == tree[p]
        inSync == InSync(r)
    IN  /\ Turn(c, p) /\ ~Waiting(p) /\ ~Skips(p)
        /\ s \in IF inSync THEN {"promoted"} ELSE {"flight", "promoted", "other"}
        /\ Done(c, p, IF inSync THEN None ELSE "done")
        /\ status' = [status EXCEPT ![r] = s]
        /\ stale' = IF status[r] = "flight" THEN stale ELSE stale \ {r}
        /\ running' = IF inSync THEN running ELSE running \cup {r}
        /\ fail' = [fail EXCEPT ![p] = NoStreak]
        /\ latest' = [latest EXCEPT ![p] = None]
        /\ UNCHANGED <<world, git, lock, reaper, due>>

Reconcile(c) == \E p \in Paths, s \in {"flight", "promoted", "other"} : Reconciles(c, p, s)

\* Mutant of Finish: the deferred release is lost.
FinishHolding(c) ==
    /\ op[c].pc = "each" /\ op[c].todo = {}
    /\ End(c, op[c].outs)
    /\ UNCHANGED <<world, git, lock, fail, reaper, engine, due, latest>>

Finish(c) ==
    /\ op[c].pc = "each" /\ op[c].todo = {}
    /\ lock' = FALSE /\ End(c, op[c].outs)
    /\ UNCHANGED <<world, git, fail, reaper, engine, due, latest>>

logOutcomes ==
    LET outs == op[Loop].outs IN
    /\ op[Loop].pc = "note"
    /\ fail' = [k \in Keys |-> IF outs[k] \in Texts THEN note(fail[k], outs[k])
                               ELSE IF outs[k] = "done" THEN NoStreak ELSE fail[k]]
    /\ op' = [op EXCEPT ![Loop] = Idle]
    /\ UNCHANGED <<world, git, lock, reaper, engine, due, latest>>

(***************************************************************************)
(* The world: commits, time, a restart.                                     *)
(***************************************************************************)
Commit ==
    /\ head' \in world.trees
    /\ moved' = TRUE
    /\ UNCHANGED <<world, tree, lock, fail, reaper, engine, op, due, latest>>

\* One interval of Run passes.
Interval ==
    /\ due' = TRUE
    /\ fail' = [k \in Keys |-> [fail[k] EXCEPT !.age = IF @ <= HoldFor THEN @ + 1 ELSE @]]
    /\ UNCHANGED <<world, git, lock, reaper, engine, op, latest>>

\* Everything the watcher knows is in memory; the checkout is made afresh.
Restart ==
    /\ world.restarts
    /\ tree' = None /\ lock' = FALSE
    /\ fail' = [k \in Keys |-> NoStreak]
    /\ seen' = {} /\ absent' = [p \in Paths |-> 0] /\ lastSeen' = [p \in Paths |-> None]
    /\ clean' = [p \in Paths |-> 0]
    /\ op' = [c \in Callers |-> Idle]
    /\ due' = TRUE
    /\ latest' = [k \in Keys |-> None]
    /\ UNCHANGED <<world, head, moved, engine>>

Tick(c) ==
    \/ StartTick(c) \/ PullFails(c) \/ LoadFails(c) \/ Read(c)
    \/ PreflightHeld(c) \/ PreflightRefused(c) \/ PreflightPasses(c)
    \/ Skip(c) \/ ReconcileFails(c) \/ Reconcile(c) \/ Finish(c)

Next == (\E c \in world.callers : Tick(c)) \/ logOutcomes \/ Commit \/ Interval \/ Restart

Spec == Init /\ [][Next]_vars

\* A tick that has begun runs to its end and Run ticks on every interval.  What
\* the world is asked for, when it is asked again and again: that a read, a
\* preflight and a rollout of each target succeed some time.
Fairness ==
    /\ \A c \in Callers : WF_vars(op[c].pc # "idle" /\ Tick(c))
    /\ WF_vars(StartTick(Loop)) /\ WF_vars(logOutcomes) /\ WF_vars(Interval)
    /\ SF_vars(\E c \in Callers : Read(c)) /\ SF_vars(\E c \in Callers : PreflightPasses(c))
    /\ \A p \in Paths : SF_vars(\E c \in Callers : Reconciles(c, p, "promoted"))

FairSpec == Spec /\ Fairness

(***************************************************************************)
(* Properties.                                                              *)
(***************************************************************************)

\* The repo is ticked by one caller at a time (Watcher: "serialized per repo"),
\* and between ticks the lock is free for the next one.
SerialTicks ==
    /\ \A c, d \in Callers : {op[c].pc, op[d].pc} \subseteq {"read", "preflight", "each"} => c = d
    /\ (\A c \in Callers : op[c].pc \in {"idle", "note"}) => ~lock

\* Between ticks a key is held only if the latest attempt on it was refused for
\* good (failStreak.held: "a refusal that cannot change without a human").
HeldWasRefused ==
    (\A c \in Callers : op[c].pc = "idle") =>
        \A k \in Keys : Held(k) => permanentFailure(latest[k])

\* The reaper gives a verdict on a file only after After loads in a row without
\* it and no failed tick among them (reap.go: "consecutive error-free ticks").
ReapsAfterCleanAbsence ==
    [][\A p \in seen : p \notin seen' => clean'[p] >= After \/ tree' = None]_vars

\* Resources are deleted only for a target that the checkout no longer declares
\* (reapOrphan: "a target whose RolloutConfig is gone").
ReapsUndeclared ==
    [][\A r \in running \ running' : \A p \in Paths : tree'[p] # r]_vars

\* A hold ends: the target is tried again some time (permanentHoldFor: "one retry
\* per hold"; CHANGELOG.md: "That hold now expires after 30 minutes").
HoldExpires == \A k \in Keys : Held(k) ~> ~Held(k)

\* Once Git is quiet, every declared target is promoted and stays so, in spite of
\* failures that pass and of dependsOn waits.
Quiet == tree = head /\ ~moved
Converges ==
    <>[]Quiet => \A p \in Paths :
        <>[](tree # None /\ (p \in Declared(tree) => status[tree[p]] = "promoted"))

================================================================================
