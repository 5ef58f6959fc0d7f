----------------------------- MODULE MCDelivery -----------------------------
(***************************************************************************)
(* The five components a deploy goes through, checked side by side: the      *)
(* artifact gate, the canary, its gates, the target and the plugin host share *)
(* no state, so each behaviour picks one of them (subject) and leaves the     *)
(* others at rest.                                                           *)
(***************************************************************************)
EXTENDS Artifacts, Canary, Gates, Targets, Plugins
VARIABLE subject

\* Canary: two steps that bake, one that does not, a plain rolling update.
Step(w, p) == [weight |-> w, pause |-> p]
TwoBakes == [type |-> "canary", steps |-> <<Step(20, 2), Step(50, 1)>>]
MCStrategies == {TwoBakes, [type |-> "canary", steps |-> <<Step(30, 0), Step(100, 1)>>], [type |-> "rolling", steps |-> <<>>]}

\* Gates: failure limits, several metrics, bad configurations; series of none, one and two
\* values, a NaN alone and behind a number.
MCAnswers == {<<>>, <<0>>, <<2>>, <<0, 2>>, <<1, 1>>, <<NaN>>, <<0, NaN>>}
Metric(p, a) == [provider |-> p, aggregation |-> a]
MCTemplates == { [count |-> 3, limit |-> 1, metrics |-> <<Metric("prometheus", "")>>],
                 [count |-> 0, limit |-> 0, metrics |-> <<Metric("prometheus", "max"), Metric("plugin", "")>>],
                 [count |-> 2, limit |-> 1, metrics |-> <<Metric("prometheus", "any")>>],
                 [count |-> 1, limit |-> 1, metrics |-> <<Metric("prometheus", "sum")>>],
                 [count |-> 1, limit |-> 0, metrics |-> <<Metric("plugin", "min")>>],
                 [count |-> 2, limit |-> -1, metrics |-> <<Metric("prometheus", "")>>] }

\* Targets: two of a cluster, one rendered from files and one inline, a third whose
\* ref comes to the label of the second, and a host.
K == {"web", "db", "DB", "host"}
MCKind == [r \in K |-> IF r = "host" THEN "file" ELSE "kubernetes"]
MCSource == [r \in K |-> IF r = "web" THEN "from" ELSE "inline"]
MCDocs == [web  |-> <<{"web/main"}, {"web/main", "web/extra"}>>,
           db   |-> <<{"db/main"}, {"db/main"}>>,
           DB   |-> <<{"DB/main"}, {"DB/main"}>>,
           host |-> <<{"host/payload"}, {"host/payload"}>>]
MCMain == [web |-> "web/main", db |-> "db/main", DB |-> "DB/main", host |-> "host/payload"]
MCLabel == [r \in K |-> IF r = "DB" THEN "db" ELSE r]
MCVerification == [r \in K |-> IF r = "web" THEN "full" ELSE "detect"]

\* Plugins: an upgrade, a risky and an incapable binary.
M(r, t, n, c) == [risk |-> r, tools |-> t, needs |-> n, capable |-> c]
MCDeclares == [v1 |-> M("", {"passive", "active"}, {}, TRUE),
               v2 |-> M("active", {"invasive"}, {"confirmation"}, TRUE),
               v3 |-> M("", {"passive", "unknown"}, {}, TRUE),
               v4 |-> M("passive", {}, {}, FALSE)]

\* Artifacts: one image whose build and summary agree, one that needs the summary
\* of the other commit; attestations of other builders, commits and keys arrive.
Id(n, v) == [name |-> n, version |-> v]
BuiltFrom(c) == Provenance("ci", Id("kiln", "v1"), <<"", c>>, FALSE)
Passed(c) == Summary("warden", Id("warden", "v2"), "", c, "PASSED", {"signed"})
MCAttached == [i1 |-> <<Signature("ci"), BuiltFrom("c1"), Passed("c1")>>,
               i2 |-> <<Signature("ci"), BuiltFrom("c2"), Passed("c1")>>]
MCAttachable == {Passed("c2"), Provenance("ci", Id("workshop", "v1"), <<"c2">>, TRUE),
                 Summary("dev", Id("warden", "v2"), "c1", "", "PASSED", {"signed"})}
Every == [cosign |-> TRUE, builders |-> {Id("kiln", "")}, reproved |-> FALSE, gates |-> {Id("warden", "")},
          gateKeys |-> {"warden"}, levels |-> {"signed"}]
MCSettings == {Every, [Every EXCEPT !.builders = {}, !.gates = {}], [Every EXCEPT !.cosign = FALSE, !.levels = {}],
               [Every EXCEPT !.reproved = TRUE, !.gateKeys = {}],
               [Every EXCEPT !.cosign = FALSE, !.builders = {}, !.gateKeys = {}]}

deliveryVars == <<subject, artifactVars, canaryVars, gatesVars, targetVars, pluginVars>>

\* What a component that is not the subject starts with.
AtRest ==
  /\ subject # "artifacts" => settings = Every /\ tag = "i1"
  /\ subject # "canary"  => plan = PlanFor(TwoBakes)
  /\ subject # "gates"   => gs = gatesFromConfig(CHOOSE c \in Configs : TRUE)
  /\ subject = "targets" <=> \E r \in Refs : retired[r] = "no"
  /\ subject # "plugins" => disk = Latest

DeliveryInit ==
  /\ subject \in {"artifacts", "canary", "gates", "targets", "plugins"}
  /\ ArtifactsInit /\ CanaryInit /\ GatesInit /\ TargetsInit /\ PluginsInit
  /\ AtRest

ArtifactsStep == subject = "artifacts" /\ ArtifactsNext /\ UNCHANGED <<subject, canaryVars, gatesVars, targetVars, pluginVars>>
CanaryStep  == subject = "canary" /\ CanaryNext /\ UNCHANGED <<subject, artifactVars, gatesVars, targetVars, pluginVars>>
GatesStep   == subject = "gates" /\ GatesNext /\ UNCHANGED <<subject, artifactVars, canaryVars, targetVars, pluginVars>>
TargetsStep == subject = "targets" /\ TargetsNext /\ UNCHANGED <<subject, artifactVars, canaryVars, gatesVars, pluginVars>>
PluginsStep == subject = "plugins" /\ PluginsNext /\ UNCHANGED <<subject, artifactVars, canaryVars, gatesVars, targetVars>>

DeliveryNext == ArtifactsStep \/ CanaryStep \/ GatesStep \/ TargetsStep \/ PluginsStep

\* The fairness of the components, each where it is the subject.
DeliveryFairness ==
  /\ WF_canaryVars(subject = "canary" /\ CanaryCall)
  /\ WF_canaryVars(subject = "canary" /\ RecoverInterrupted)
  /\ WF_canaryVars(subject = "canary" /\ TickDue)
  /\ WF_canaryVars(subject = "canary" /\ Elapse)
  /\ \A r \in Refs : /\ WF_targetVars(subject = "targets" /\ Plan(r))
                     /\ WF_targetVars(subject = "targets" /\ ApplyStep(r))
  /\ \A u \in Users : WF_pluginVars(subject = "plugins" /\ PluginCall(u))

DeliverySpec == DeliveryInit /\ [][DeliveryNext]_deliveryVars /\ DeliveryFairness
=============================================================================
