------------------------------ MODULE Exposure ------------------------------
(***************************************************************************)
(* What a progressive delivery promises whoever sends it traffic: the share *)
(* of traffic a rollout gets is set only to the weight of a step that    *)
(* has passed its gate, steps pass one at a time and in the order of the    *)
(* plan, nothing is raised while an operator holds the rollout or after it  *)
(* has settled, and the share may fall to nothing at any time before the    *)
(* end.  Canary implements it.                                              *)
(***************************************************************************)
EXTENDS Integers, Sequences

VARIABLES weights,  \* the weight of each step of the plan, in order
          level,    \* the share of traffic the rollout gets
          pos,      \* how many steps have passed their gate
          mode      \* "off", "live", "held" or "settled"

vars == <<weights, level, pos, mode>>

Init == weights \in Seq(Int) /\ level = 0 /\ pos = 0 /\ mode = "off"

Begin == mode = "off" /\ mode' = "live" /\ pos' = 0 /\ UNCHANGED level

Pass == /\ mode = "live"
        /\ pos < Len(weights)
        /\ pos' = pos + 1
        /\ UNCHANGED <<level, mode>>

Raise == /\ mode = "live"
         /\ level' \in {weights[i] : i \in 1..pos}
         /\ UNCHANGED <<pos, mode>>

Reset == mode # "off" /\ level' = 0 /\ UNCHANGED <<pos, mode>>

Hold    == mode = "live" /\ mode' = "held" /\ UNCHANGED <<level, pos>>
Release == mode = "held" /\ mode' = "live" /\ UNCHANGED <<level, pos>>
Settle  == mode = "live" /\ mode' = "settled" /\ UNCHANGED <<level, pos>>

End == mode # "off" /\ mode' = "off" /\ level' \in {level, 0} /\ UNCHANGED pos

Next == /\ Begin \/ Pass \/ Raise \/ Reset \/ Hold \/ Release \/ Settle \/ End
        /\ UNCHANGED weights

Spec == Init /\ [][Next]_vars
=============================================================================
