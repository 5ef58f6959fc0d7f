------------------------------- MODULE MCWatcher -------------------------------
(***************************************************************************)
(* Instances of Watcher for TLC: what Git may hold and how configs depend.  *)
(***************************************************************************)
EXTENDS Watcher, TLC

CONSTANTS r1, r2, loop, hook

\* Two configs, and the second one removed and restored.
BothOrFirst == {(1 :> r1 @@ 2 :> r2), (1 :> r1 @@ 2 :> None)}
\* A config, and the same config moved to another file.
Moved == {(1 :> r1 @@ 2 :> None), (1 :> None @@ 2 :> r1)}
\* Two configs that stay.
Both == {(1 :> r1 @@ 2 :> r2)}
One == {(1 :> r1)}

World(c, t, f, e, r) == [callers |-> c, trees |-> t, refusals |-> f, readErrors |-> e, restarts |-> r]
\* Run alone, refused in every way; Run and the webhook, with a config that comes and goes.
HoldsAndReaper == {World({loop}, Both, {"forbidden", "timeout"}, {"pull", "load"}, TRUE),
                   World({loop, hook}, BothOrFirst, {}, {"load"}, TRUE)}
\* Failures that pass, and one refusal for good.
Passing == {World({loop}, Both, {"timeout"}, {"pull", "load"}, FALSE)}
Refused == {World({loop}, One, {"forbidden"}, {}, FALSE)}

\* With Moved, the reaper deletes a target that is still declared.
Relocated == {World({loop}, Moved, {}, {}, FALSE)}

Alone == r1 :> {}
Independent == r1 :> {} @@ r2 :> {}
\* The config in the first file waits for the one in the second.
FirstNeedsSecond == r1 :> {r2} @@ r2 :> {}
================================================================================
