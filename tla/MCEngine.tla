-------------------------------- MODULE MCEngine --------------------------------
(***************************************************************************)
(* Instances of RolloutEngine for TLC: who calls, from which replica, and   *)
(* which operations.                                                        *)
(***************************************************************************)
EXTENDS RolloutEngine, TLC

CONSTANTS p1, p2, i1, i2

\* One caller at a time, in one replica.
OneHome == p1 :> i1
OneOwner == i1 :> "a"

\* Two callers in one replica, or in two that share the Store.
SharedHome == p1 :> i1 @@ p2 :> i1
SplitHome == p1 :> i1 @@ p2 :> i2
TwoOwners == i1 :> "a" @@ i2 :> "b"
SameOwner == i1 :> "rollopsd" @@ i2 :> "rollopsd"

EveryOp == p1 :> Kinds
\* The reconcile loop alone.
LoopOps == p1 :> {"apply", "tick", "verify"}
\* The reconcile leader in one replica, an API caller in the other.
LeaderAndApi == p1 :> {"apply", "tick", "verify"} @@ p2 :> {"apply"}
\* An API caller in one replica, the reconcile loop in the other.
ApiThenLoop == p1 :> {"apply"} @@ p2 :> {"tick", "verify"}
\* The pairs of operations whose steps interleave, or follow one another.
ApproveOps == p1 :> {"apply", "approve"}
RejectOps == p1 :> {"apply", "tick", "reject"}
TickRace == p1 :> {"apply"} @@ p2 :> {"tick"}
AbortRace == p1 :> {"apply", "abort"} @@ p2 :> {"tick"}

\* Manifests are interchangeable.
Perms == Permutations(Manifests)

\* The state without its history, for the runs whose properties do not read it:
\* no action depends on cleared, ran or base.
NoHistory == <<rows, pos, lease, held, live, queue, faults,
               [p \in Procs |-> [op[p] EXCEPT !.base = None]]>>

\* The state without cleared, for the runs that read what ran but not that.
NoClearance == <<rows, pos, lease, held, live, queue, faults, op, ran>>
================================================================================
