------------------------------- MODULE Lifecycle -------------------------------
(***************************************************************************)
(* The rollout statechart of internal/rollout/lifecycle.go: the phases, the *)
(* edges buildMachine declares with their guards, and Send.  The module has *)
(* no variables; the engine modules resume the chart at a stored phase and  *)
(* send it events, and PhaseMayBecome is the abstract promise a stored row  *)
(* is held to.                                                              *)
(***************************************************************************)
EXTENDS Naturals

Phases == {"pending", "validating", "awaiting", "deploying", "paused",
           "verifying", "promoted", "rolledback"}

Events == {"VALIDATE", "GATE", "APPROVE", "REJECT", "DEPLOYED", "VERIFY_OK",
           "ROLLBACK", "ERROR", "PAUSE", "RESUME", "PROMOTE"}

\* LifeContext: the inputs of the guards.
LifeContext == [planProduced : BOOLEAN, needsApproval : BOOLEAN]

\* The context every operation that resumes a stored rollout passes.
Resumed == [planProduced |-> TRUE, needsApproval |-> FALSE]

\* buildMachine: the edges, each with the guard evaluated on the context c.
Edges(c) ==
    { <<"pending", "VALIDATE", "validating">>,
      <<"validating", "ERROR", "rolledback">>,
      <<"awaiting", "REJECT", "rolledback">>,
      <<"awaiting", "ROLLBACK", "rolledback">>,
      <<"deploying", "DEPLOYED", "verifying">>,
      <<"deploying", "PAUSE", "paused">>,
      <<"deploying", "PROMOTE", "verifying">>,
      <<"deploying", "ERROR", "rolledback">>,
      <<"deploying", "ROLLBACK", "rolledback">>,
      <<"paused", "RESUME", "deploying">>,
      <<"paused", "PROMOTE", "verifying">>,
      <<"paused", "ROLLBACK", "rolledback">>,
      <<"verifying", "VERIFY_OK", "promoted">>,
      <<"verifying", "ROLLBACK", "rolledback">>,
      <<"promoted", "ROLLBACK", "rolledback">> }
    \cup (IF ~c.needsApproval /\ c.planProduced                 \* readyToDeploy
          THEN {<<"validating", "GATE", "deploying">>} ELSE {})
    \cup (IF c.needsApproval                                    \* needsApproval
          THEN {<<"validating", "GATE", "awaiting">>} ELSE {})
    \cup (IF c.planProduced                                     \* canDeploy
          THEN {<<"awaiting", "APPROVE", "deploying">>} ELSE {})

\* Send is refused, with an error, when no edge leaves the phase on the event.
Accepts(c, phase, event) == \E to \in Phases : <<phase, event, to>> \in Edges(c)

\* The phase Send returns: the one the event leads to, of which the guards leave
\* at most one, or the phase as it was when the event is refused.
Send(c, phase, event) ==
    IF Accepts(c, phase, event)
    THEN CHOOSE to \in Phases : <<phase, event, to>> \in Edges(c)
    ELSE phase

\* Phases a rollout in phase p can reach by accepted events, one at least.
After(p) ==
    CASE p = "pending"    -> Phases \ {"pending"}
      [] p = "validating" -> Phases \ {"pending", "validating"}
      [] p = "awaiting"   -> Phases \ {"pending", "validating", "awaiting"}
      [] p \in {"deploying", "paused"}
                          -> {"deploying", "paused", "verifying", "promoted", "rolledback"}
      [] p = "verifying"  -> {"promoted", "rolledback"}
      [] p = "promoted"   -> {"rolledback"}
      [] p = "rolledback" -> {}

\* The abstract promise: a stored phase moves forward along accepted edges.
PhaseMayBecome(p, q) == q = p \/ q \in After(p)

\* After is the transitive closure of the edges: it contains every edge, and
\* every phase in it is one edge away or one edge beyond a phase in it.
ASSUME AfterIsReachability ==
    LET E == UNION {Edges(c) : c \in LifeContext}
        Step(p) == {q \in Phases : \E e \in Events : <<p, e, q>> \in E}
    IN  \A p \in Phases :
            After(p) = Step(p) \cup UNION {Step(q) : q \in After(p)}
================================================================================
