----------------------------- MODULE MCControl ------------------------------
(***************************************************************************)
(* What decides that something is deployed, checked side by side: the image  *)
(* automation that rewrites the repository, the credential caches and the    *)
(* admission of requests share no state, so each behaviour picks one         *)
(* (subject) and leaves the others at rest.                                  *)
(***************************************************************************)
EXTENDS Images, Credentials, Admission
VARIABLE subject

V(a, b, c) == [v |-> <<a, b, c>>, pre |-> FALSE]
Candidate  == [v |-> <<2, 1, 0>>, pre |-> TRUE]
MCTags     == {V(1, 2, 0), V(1, 3, 0), V(2, 0, 0), Candidate, Latest}
MCPages    == <<{V(1, 2, 0), V(2, 0, 0), Candidate}, {V(1, 3, 0), Latest}>>
MCPushable == {<<V(2, 0, 0), 2>>, <<Latest, 2>>}

P(m, w)    == [mode |-> m, writeback |-> w, pattern |-> MCTags]
Ref(t, d)  == [tag |-> t, digest |-> d]
At(d)      == [t \in MCTags |-> IF t = V(2, 0, 0) THEN NoDigest ELSE d]
Setup(p, r, s) == [policy |-> p, refs |-> r, tags |-> At(1), spare |-> s]
Spare(p, e, f) == [published |-> p, edits |-> e, faults |-> f]

\* Versions by push and by pull request, a pinned and an unpinned reference.
ByVersion(w, m, s) == Setup(<<P("major", w), P(m, w)>>, <<Ref(V(1, 2, 0), 1), Ref(V(1, 2, 0), NoDigest)>>, s)
\* A mutable tag followed by digest, and a pinned one that migrates to a version.
ByDigest   == Setup(<<P("digest", "push"), P("patch", "push")>>, <<Ref(Latest, 1), Ref(Latest, 1)>>, Spare(1, 1, 1))
\* Nothing to follow.
Unfollowed == Setup(<<P("none", "push"), P("any", "push")>>, <<Ref(V(1, 2, 0), 1), Ref(Latest, NoDigest)>>, Spare(1, 1, 1))
MCSetups   == {ByVersion("push", "minor", Spare(1, 1, 1)), ByVersion("pull-request", "minor", Spare(0, 0, 1)),
               ByVersion("pull-request", "minor", Spare(0, 1, 0)), ByVersion("pull-request", "patch", Spare(1, 1, 1)),
               ByDigest, Unfollowed}
\* One config proposes, the next one pushes.
MCMixedSetups == {Setup(<<P("major", "pull-request"), P("minor", "push")>>,
                        <<Ref(V(1, 2, 0), 1), Ref(V(1, 2, 0), NoDigest)>>, Spare(0, 0, 1))}

Who(k, n, g) == [kind |-> k, name |-> n, groups |-> g]
Admin == Who("human", "admin", {})
Alice == Who("human", "alice", {"ops"})
Bot   == Who("agent", "bot", {})
MCFederated == {Alice}
MCCallers == {Admin, Alice, Bot}
Service(e, c, t, w) == [env |-> e, criticality |-> c, migrates |-> FALSE, strategy |-> "rolling", threshold |-> t,
                        sensitive |-> FALSE, history |-> [weight |-> w, lookback |-> 1, max |-> 1]]
MCServices == [web |-> Service("prod", "low", 30, 15), db |-> Service("staging", "critical", 0, 0)]
G(p, e) == [perm |-> p, env |-> e, ref |-> ""]
File(perm, role) == [roles |-> <<[name |-> "deployer", grants |-> {G(perm, "")}],
                                 [name |-> "stager", grants |-> {G("apply", "staging")}]>>,
                     bindings |-> <<[subject |-> <<"agent", "bot">>, roles |-> {"agent_deploy"}],
                                    [subject |-> <<"group", "ops">>, roles |-> {role, "stager"}]>>]
\* One in force, one that revokes the agent's binding, one that names an unknown role.
InForce == File("approve", "deployer")
MCPolicyFiles == {InForce, [InForce EXCEPT !.bindings = Tail(@)], File("freeze", "deploier")}
MCGroupBinds == <<[subject |-> <<"group", "rollops-admins">>, roles |-> {"admin"}]>>
MCTokenFiles == {{"bot"}, {}, Malformed}
Ask(b, o, r) == [by |-> b, op |-> o, ref |-> r]
Scenario(n, w, o, i, s, a) == [rows |-> n, rewrites |-> w, outages |-> o, intervals |-> i, queue |-> s, asks |-> a]
Switch == {Ask(Admin, "freeze", ""), Ask(Admin, "lift", "")}
Resting == Scenario(1, 0, 1, 0, {}, {Ask(Admin, "freeze", ""), Ask(Bot, "apply", "web")})
MCScenarios == {
  \* a freeze against applies, with a crash; freezes and lifts against approvals
  Resting,
  Scenario(1, 0, 0, 0, {}, Switch \cup {Ask(Alice, "apply", "db"), Ask(Admin, "approve", "db")}),
  \* who approves what, with a crash
  Scenario(1, 0, 1, 0, {}, {Ask(Alice, "apply", "db"), Ask(Alice, "approve", "db"), Ask(Admin, "approve", "db"), Ask(Alice, "reject", "db")}),
  \* the policy and token files change, with a crash
  Scenario(1, 1, 1, 0, {}, {Ask(Bot, "apply", "web")}),
  \* failures in a row, and the agent's budget
  Scenario(2, 0, 0, 1, {}, {Ask(Admin, "apply", "web"), Ask(Bot, "apply", "web")}),
  \* a schedule against a freeze; one with a crash or a failed call
  Scenario(1, 0, 0, 0, {"nightly"}, {Ask(Admin, "freeze", "")}),
  Scenario(2, 0, 1, 0, {"nightly"}, {}) }
MCSchedules == [nightly |-> [ref |-> "web", by |-> Bot]]

\* Keys that are added, replaced and published in a form that cannot be read; an
\* identity provider with a key set, and one with a shared secret.
Key(i, t, ok) == [id |-> i, kty |-> t, sound |-> ok]
OldKey == [k1 |-> Key("a", "RS", TRUE)]
MCKeySets == {OldKey, [k2 |-> Key("b", "ES", TRUE)], [k2 |-> Key("b", "ES", FALSE)]}
Token(alg, kid, k, exp) == [alg |-> alg, kid |-> kid, key |-> k, iss |-> TRUE, aud |-> TRUE, exp |-> exp, name |-> "alice"]
Work(t, r, f) == [tokens |-> t, rotations |-> r, failures |-> f]
NoWork == Work({[alg |-> "opaque", name |-> "admin"]}, 0, 0)
MCWorkloads == {Work({App, Token("RS", "k1", "a", 9)}, 0, 1), Work({Token("RS", "k1", "a", 9), Token("ES", "k2", "b", 9)}, 1, 0),
                Work({Token("HS", "", "shared secret", 2), Token("RS", "k1", "b", 9)}, 0, 0), NoWork}
Env(d) == [issuer |-> TRUE, url |-> FALSE, discover |-> d, secret |-> TRUE]
MCEnvironments == {Env(TRUE), Env(FALSE)}

controlVars == <<subject, imageVars, credVars, admissionVars>>

ControlInit ==
  /\ subject \in {"images", "credentials", "admission"}
  /\ ImagesInit /\ CredInit /\ AdmissionInit
  /\ subject # "credentials" => left = NoWork /\ oidc = "jwks"
  /\ subject # "images" => policy = Unfollowed.policy
  /\ subject # "admission" => spare = Resting

ImagesStep    == subject = "images" /\ ImagesNext /\ UNCHANGED <<subject, credVars, admissionVars>>
CredStep      == subject = "credentials" /\ CredNext /\ UNCHANGED <<subject, imageVars, admissionVars>>
AdmissionStep == subject = "admission" /\ AdmissionNext /\ UNCHANGED <<subject, imageVars, credVars>>

ControlNext == ImagesStep \/ CredStep \/ AdmissionStep

\* The fairness of the components, each where it is the subject.
ControlFairness ==
  /\ \A c \in Calls : /\ WF_credVars(subject = "credentials" /\ CallStep(c))
                      /\ SF_credVars(subject = "credentials" /\ LockApp(c))
  /\ WF_imageVars(subject = "images" /\ TickStep)
  /\ \A c \in Configs : /\ WF_imageVars(subject = "images" /\ Checks(c))
                        /\ WF_imageVars(subject = "images" /\ Merge(c))

ControlSpec == ControlInit /\ [][ControlNext]_controlVars /\ ControlFairness
=============================================================================
