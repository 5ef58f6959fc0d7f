----------------------------- MODULE Admission -----------------------------
(***************************************************************************)
(* What stands between a request and a deploy.  A surface (REST, gRPC, MCP   *)
(* or the console) identifies the caller and asks the RBAC policy of its     *)
(* daemon; the engine asks the guardrails, the risk gate and the external    *)
(* governor, takes the target, and deploys or stores the rollout for         *)
(* somebody else to approve.  Daemons share one store, hold their own copies *)
(* of the policy, the MCP tokens, the freeze and the agent budget, reload    *)
(* the first two on SIGHUP, fire schedules, and crash.                       *)
(***************************************************************************)
EXTENDS Naturals, Sequences, FiniteSets, TLC
LOCAL INSTANCE SequencesExt

CONSTANTS Daemons, Requests,
          Callers,      \* identities: [kind, name, groups]
          Services,     \* ref -> [env, criticality, migrates, strategy, threshold, sensitive, history]
          InitialPolicy, InitialTokens,
          PolicyFiles,  \* contents ROLLOPS_POLICY_FILE may have
          TokenFiles,   \* contents ROLLOPS_MCP_TOKENS_FILE may have: agent names, or Malformed
          Schedules,    \* schedule -> [ref, by]
          GroupBinds,   \* bindings of the provider's groups to built-in roles
          Federated,    \* identities the identity provider vouches for
          UIPassword,   \* the console's password is set
          Governor,     \* an external governor is configured
          Burst,        \* rollouts an agent may start per interval
          Scenarios     \* bounds: [rows, rewrites, outages, intervals, queue, asks]:
                        \* asks are the requests that are made, [by, op, ref]

Malformed == {"not JSON"}
Operations == {"apply", "rollback", "approve", "reject", "promote", "verify", "pause", "resume", "abort", "freeze", "lift"}
Nobody    == [kind |-> "", name |-> "", groups |-> {}]

ASSUME AdmissionAssumption ==
  /\ Daemons \cap Requests = {} /\ Burst \in Nat \ {0} /\ InitialTokens # Malformed
  /\ \A f \in PolicyFiles : {"roles", "bindings"} \subseteq DOMAIN f
  /\ Nobody \notin Callers
  /\ "" \notin DOMAIN Schedules
  /\ \A r \in DOMAIN Services : LET h == Services[r].history
                               IN  h.weight \in Nat /\ h.lookback \in Nat /\ h.max \in Nat \ {0}
  /\ \A s \in DOMAIN Schedules : Schedules[s].ref \in DOMAIN Services /\ Schedules[s].by \in Callers
  /\ Scenarios \subseteq [rows : Nat, rewrites : Nat, outages : Nat, intervals : Nat, queue : SUBSET DOMAIN Schedules,
                          asks : SUBSET [by : Callers, op : Operations, ref : DOMAIN Services \cup {""}]]

VARIABLES policyFile, tokenFile,  \* on disk, edited by the operator
          daemon,    \* daemon -> [up, policy, tokens, frozen, budget]: its memory
          frozen,    \* the freeze row of the store
          rollouts,  \* sequence of rows
          records,   \* the history table: target -> phases of its rollouts, newest first
          busy,      \* ref -> the call that holds its lock
          call,      \* request or daemon (its schedule loop) -> the call it serves
          queue,     \* schedules in the store
          onDisk,    \* history: policy files that were installed
          spare      \* what is left of the bounds of the scenario

admissionVars == <<policyFile, tokenFile, daemon, frozen, rollouts, records, busy, call, queue, onDisk, spare>>

(***************************************************************************)
(* RBAC.  A subject is a pair <<kind, name>>; "*" is the fallback of a kind. *)
(***************************************************************************)
KnownPerms == {"status", "plan", "apply", "approve", "promote", "rollback", "schedule", "freeze"}
Grant(p)   == [perm |-> p, env |-> "", ref |-> ""]

DefineRole(p, r) == [p EXCEPT !.roles = (r.name :> r.grants) @@ @]
Bound(p, s)      == IF s \in DOMAIN p.binds THEN p.binds[s] ELSE {}
Bind(p, b)       == [p EXCEPT !.binds = (b.subject :> (Bound(p, b.subject) \cup b.roles)) @@ @]

DefaultRBACPolicy ==
  [roles |-> [admin        |-> {Grant(p) : p \in KnownPerms},
              agent        |-> {Grant("plan"), Grant("status")},
              agent_deploy |-> {Grant(p) : p \in {"plan", "apply", "rollback", "status", "promote"}}],
   binds |-> (<<"human", "admin">> :> {"admin"}) @@ (<<"agent", "*">> :> {"agent"})]

\* ApplyPolicyFile: the roles of the file override, its bindings add.
Layered(p, f) == FoldLeft(Bind, FoldLeft(DefineRole, p, f.roles), f.bindings)

ValidFile(p, f) ==
  /\ \A i \in DOMAIN f.roles : f.roles[i].name # "" /\ \A g \in f.roles[i].grants : g.perm \in KnownPerms
  /\ LET known == DOMAIN FoldLeft(DefineRole, p, f.roles).roles
     IN  \A i \in DOMAIN f.bindings : f.bindings[i].subject # <<>> /\ f.bindings[i].roles \subseteq known

buildPolicy(f) == FoldLeft(Bind, Layered(DefaultRBACPolicy, f), GroupBinds)
Loads(f)       == ValidFile(DefaultRBACPolicy, f)

\* A daemon does not start with a policy file that does not load.
ASSUME InitialPolicyLoads == Loads(InitialPolicy)

rolesFor(p, id) ==
  UNION {Bound(p, s) : s \in {<<id.kind, id.name>>, <<id.kind, "*">>}
                             \cup {<<"group", g>> : g \in id.groups}
                             \cup {<<"group", "*">> : g \in id.groups}}

\* A grant with an env covers no request whose scope names none: requests about
\* a stored rollout are scoped to its target alone.
Matches(g, scope) == g.env \in {"", scope.env} /\ g.ref \in {"", scope.ref}

Authorize(p, id, perm, scope) ==
  \E r \in rolesFor(p, id) \cap DOMAIN p.roles : \E g \in p.roles[r] : g.perm = perm /\ Matches(g, scope)

(***************************************************************************)
(* The surfaces.  Each has its own way to tell who calls and its own table  *)
(* of what an operation needs: a permission, asked for the environment and  *)
(* the target of a config, for the target of a stored rollout, or at large. *)
(***************************************************************************)
Need(perm, of) == [perm |-> perm, of |-> of]

rest ==
  [apply |-> Need("apply", "config"), rollback |-> Need("rollback", "target"),
   approve |-> Need("approve", "target"), reject |-> Need("approve", "target"),
   promote |-> Need("promote", "target"), verify |-> Need("promote", "target"),
   pause |-> Need("apply", "target"), resume |-> Need("apply", "target"), abort |-> Need("apply", "target"),
   freeze |-> Need("freeze", "all"), lift |-> Need("freeze", "all")]

grpc ==
  [apply |-> Need("apply", "config"), rollback |-> Need("rollback", "target"),
   approve |-> Need("approve", "target"), reject |-> Need("approve", "target"),
   promote |-> Need("promote", "target"), verify |-> Need("promote", "target"),
   pause |-> Need("apply", "target"), resume |-> Need("apply", "target"), abort |-> Need("apply", "target"),
   freeze |-> Need("freeze", "all"), lift |-> Need("freeze", "all")]

mcp ==
  [apply |-> Need("apply", "config"), rollback |-> Need("rollback", "target"),
   approve |-> Need("approve", "target"), reject |-> Need("approve", "target"),
   promote |-> Need("promote", "target"), verify |-> Need("promote", "target"),
   pause |-> Need("apply", "target"), resume |-> Need("apply", "target"), abort |-> Need("apply", "target"),
   freeze |-> Need("freeze", "all"), lift |-> Need("freeze", "all")]

\* The console applies nothing.
console ==
  [rollback |-> Need("rollback", "target"),
   approve |-> Need("approve", "target"), reject |-> Need("approve", "target"), promote |-> Need("promote", "target"),
   pause |-> Need("apply", "target"), resume |-> Need("apply", "target"), abort |-> Need("apply", "target"),
   freeze |-> Need("freeze", "all"), lift |-> Need("freeze", "all")]

Surface == [rest |-> rest, grpc |-> grpc, mcp |-> mcp, console |-> console]

\* What an operation needs does not depend on the way in.
ASSUME SurfacesAgree ==
  \A v, w \in DOMAIN Surface : \A op \in DOMAIN Surface[v] \cap DOMAIN Surface[w] : Surface[v][op] = Surface[w][op]

OnRow    == {"approve", "reject"}
OnFreeze == {"freeze", "lift"}

\* The bootstrap token, which gRPC takes alone and REST before a token of the
\* identity provider; the agents' tokens, which are reloadable; and the console's
\* session, unless the request carries a token of the identity provider.
Bootstrap == [kind |-> "human", name |-> "admin", groups |-> {}]

restIdentify(id)    == id = Bootstrap \/ id \in Federated
grpcIdentify(id)    == id = Bootstrap
mcpIdentify(d, id)  == id.kind = "agent" /\ id.name \in daemon[d].tokens
consoleIdentify(id) == id \in Federated \/ (UIPassword /\ id = Bootstrap)

Identify(d, via, id) ==
  CASE via = "rest" -> restIdentify(id)
    [] via = "grpc" -> grpcIdentify(id)
    [] via = "mcp"  -> mcpIdentify(d, id)
    [] OTHER        -> consoleIdentify(id)

ScopeOf(need, ref) == [env |-> IF need.of = "config" THEN Services[ref].env ELSE "",
                       ref |-> IF need.of = "all" THEN "" ELSE ref]

(***************************************************************************)
(* Guardrails and risk.  Scores are in hundredths of a percent, kept as a   *)
(* fraction: weighted >= threshold * total.                                  *)
(***************************************************************************)
\* The floor of DefaultPolicyFloor, which lists no target by name.
MustApprove(in) == in.criticality = "critical" \/ (in.env = "prod" /\ in.change \in {"schema", "migration"})

\* Mutant of FloorOfConfig: the floor sees the target's name only.
FloorOfName(ref) == [criticality |-> "", env |-> "", change |-> "config"]

FloorOfConfig(ref) == [criticality |-> Services[ref].criticality, env |-> Services[ref].env,
                       change |-> IF Services[ref].migrates THEN "schema" ELSE "config"]
FloorOfRef == [criticality |-> "", env |-> "", change |-> ""]

criticalityScore == [critical |-> 100, high |-> 66, medium |-> 33, low |-> 0]
environmentScore == [prod |-> 100, staging |-> 50, dev |-> 0]
changeTypeScore  == [schema |-> 100, code |-> 50, config |-> 0]
strategyScore    == [blue_green |-> 100, rolling |-> 50, canary |-> 0]

\* store.History: the records of a target, newest first.
History(ref) == records[ref]

\* Mutant of RecentFailures: the oldest records are counted.
RecentFailuresOldest(ref, h) ==
  Cardinality({i \in DOMAIN History(ref) : i > Len(History(ref)) - h.lookback /\ History(ref)[i] = "rolled_back"})

RecentFailures(ref, h) ==
  Cardinality({i \in DOMAIN History(ref) : i <= h.lookback /\ History(ref)[i] = "rolled_back"})

\* The weighted sum; a history weight of zero leaves history out.
Score(ref, failures) ==
  LET s == Services[ref]  h == s.history
  IN  25 * criticalityScore[s.criticality] + 20 * environmentScore[s.env]
      + 20 * changeTypeScore[FloorOfConfig(ref).change] + 15 * strategyScore[s.strategy]
      + h.weight * ((100 * (IF failures > h.max THEN h.max ELSE failures)) \div h.max)

\* Gate.Evaluate: a score at the threshold, or a sensitive change.
AtThreshold(ref, failures) ==
  LET s == Services[ref]
  IN  /\ s.threshold > 0 \/ s.sensitive
      /\ s.sensitive \/ Score(ref, failures) >= s.threshold * (100 + s.history.weight)

\* EvaluateRisk
NeedsApproval(ref) == AtThreshold(ref, RecentFailures(ref, Services[ref].history))

(***************************************************************************)
(* Rows and calls.  A row carries its initiator, whom no later save of it     *)
(* changes, and, as history, who approved it, the schedule it came from and   *)
(* whether its manifest was sent to the target.  A call carries two history flags: under, the freeze row was set  *)
(* when it arrived and was not lifted since; tired, the newest records of    *)
(* its target were failures up to the limit when it arrived and none was     *)
(* added before it deployed.                                                 *)
(***************************************************************************)
Row(ref, phase, by, sch) ==
  [ref |-> ref, phase |-> phase, by |-> by, approver |-> Nobody, ran |-> FALSE, sch |-> sch]

NoCall == [pc |-> "idle", d |-> "", by |-> Nobody, op |-> "", ref |-> "", row |-> 0,
           gated |-> FALSE, under |-> FALSE, tired |-> FALSE, left |-> {}, sch |-> ""]

Tired(ref) ==
  /\ ref \in DOMAIN Services /\ Services[ref].history.weight > 0
  /\ LET max == Services[ref].history.max
     IN  Len(History(ref)) >= max /\ \A i \in 1 .. max : History(ref)[i] = "rolled_back"

Full == [a \in {c.name : c \in {c \in Callers : c.kind = "agent"}} |-> Burst]

AdmissionInit ==
  /\ policyFile = InitialPolicy /\ tokenFile = InitialTokens
  /\ daemon = [d \in Daemons |-> [up |-> TRUE, policy |-> buildPolicy(policyFile), tokens |-> tokenFile,
                                  frozen |-> FALSE, budget |-> Full]]
  /\ frozen = FALSE /\ rollouts = <<>> /\ records = [r \in DOMAIN Services |-> <<>>]
  /\ busy = [r \in DOMAIN Services |-> ""]
  /\ call = [q \in Requests \cup Daemons |-> NoCall]
  /\ spare \in Scenarios /\ queue = spare.queue
  /\ onDisk = {policyFile}

Goto(q, pc)  == [call EXCEPT ![q].pc = pc]
Returned(q)  == [call EXCEPT ![q] = NoCall]
Answer(q)    == call' = Returned(q)

\* SaveRollout appends to the history of the target in the same transaction.
Saves(c, ref, phase) ==
  /\ records' = [records EXCEPT ![ref] = <<phase>> \o @]
  /\ call' = [x \in DOMAIN c |-> [c[x] EXCEPT !.tired = @ /\ (c[x].ref # ref \/ c[x].pc = "deploying")]]

\* An outage is a store call that fails.
Outage == spare.outages > 0 /\ spare' = [spare EXCEPT !.outages = @ - 1]

(***************************************************************************)
(* Guardrails.CheckApply reads the freeze row of the store each time, and   *)
(* takes a token from the caller's bucket if the caller is an agent.         *)
(***************************************************************************)
Affords(d, id) == id.kind = "agent" => daemon[d].budget[id.name] > 0

\* Mutant of Clears: this process's copy of the freeze is asked.
ClearsFromMemory(d, id) == ~daemon[d].frozen /\ Affords(d, id)

Clears(d, id)  == ~frozen /\ Affords(d, id)
Charged(d, id) == IF id.kind = "agent" THEN [daemon EXCEPT ![d].budget[id.name] = @ - 1] ELSE daemon

(***************************************************************************)
(* Requests                                                                  *)
(***************************************************************************)
\* What the surfaces of a daemon let through.
Permitted(d) ==
  {a \in spare.asks : \E via \in DOMAIN Surface :
      /\ a.op \in DOMAIN Surface[via] /\ Identify(d, via, a.by)
      /\ LET need == Surface[via][a.op] IN Authorize(daemon[d].policy, a.by, need.perm, ScopeOf(need, a.ref))}

Arrive(q) ==
  \E d \in Daemons : \E a \in Permitted(d), row \in 0 .. Len(rollouts) :
    /\ call[q].pc = "idle" /\ daemon[d].up
    /\ IF a.op \in OnRow THEN row > 0 /\ rollouts[row].ref = a.ref ELSE row = 0
    /\ call' = [call EXCEPT ![q] = [NoCall EXCEPT !.pc = "admitted", !.d = d, !.by = a.by, !.op = a.op, !.ref = a.ref,
                  !.row = row, !.under = frozen, !.tired = a.op = "apply" /\ Tired(a.ref)]]
    /\ UNCHANGED <<policyFile, tokenFile, daemon, frozen, rollouts, records, busy, queue, onDisk, spare>>

\* The hook's decision: the provider's, where one is configured; a provider that
\* cannot be reached, answers anything but 200 or cannot be read has not allowed.
HTTPEvaluate == {"allowed", "refused", "unavailable"}
Evaluate     == IF Governor THEN HTTPEvaluate ELSE {"allowed"}

\* Apply up to the lock: guardrails, risk, governance; the token is spent even
\* when the governor then refuses or does not answer.
ApplyCheck(q) ==
  LET c == call[q] IN
  /\ c.pc = "admitted" /\ c.op = "apply"
  /\ \/ /\ Clears(c.d, c.by)
        /\ daemon' = Charged(c.d, c.by)
        /\ \E decision \in Evaluate :
              IF decision = "allowed"
              THEN call' = [call EXCEPT ![q].pc = "cleared", ![q].gated = MustApprove(FloorOfConfig(c.ref)) \/ NeedsApproval(c.ref)]
              ELSE Answer(q)
        /\ UNCHANGED spare
     \/ ~Clears(c.d, c.by) /\ Answer(q) /\ UNCHANGED <<daemon, spare>>
     \/ Outage /\ Answer(q) /\ UNCHANGED daemon
  /\ UNCHANGED <<policyFile, tokenFile, frozen, rollouts, records, busy, queue, onDisk>>

\* Apply from the lock to the first save.  A held lock and an image the artifact
\* gate refuses end the call; a gated rollout is stored and waits.
ApplyStore(q) ==
  LET c == call[q] IN
  /\ c.pc = "cleared"
  /\ \/ Answer(q) /\ UNCHANGED <<rollouts, records, busy>>
     \/ /\ busy[c.ref] = "" /\ Len(rollouts) < spare.rows
        /\ rollouts' = Append(rollouts, Row(c.ref, IF c.gated THEN "awaiting" ELSE "deploying", c.by, ""))
        /\ busy' = IF c.gated THEN busy ELSE [busy EXCEPT ![c.ref] = q]
        /\ Saves(IF c.gated THEN Returned(q) ELSE [Goto(q, "deploying") EXCEPT ![q].row = Len(rollouts) + 1],
                 c.ref, rollouts'[Len(rollouts')].phase)
  /\ UNCHANGED <<policyFile, tokenFile, daemon, frozen, queue, onDisk, spare>>

realPrincipal(id)  == id.kind # "" /\ id.name \notin {"", "system"}
sameIdentity(a, b) == a.kind = b.kind /\ a.name = b.name
FourEyesHold(id, initiator) == ~(realPrincipal(initiator) /\ sameIdentity(id, initiator))

\* Approve and Reject load the row; Approve turns its initiator away.
LoadRow(q) ==
  LET c == call[q]  r == rollouts[c.row] IN
  /\ c.pc = "admitted" /\ c.op \in OnRow
  /\ IF c.op = "approve" /\ ~FourEyesHold(c.by, r.by) THEN Answer(q)
     ELSE call' = Goto(q, IF r.phase = "awaiting" THEN "loaded" ELSE "settled")
  /\ UNCHANGED <<policyFile, tokenFile, daemon, frozen, rollouts, records, busy, queue, onDisk, spare>>

\* Approve under the lock: the guardrails again, then the phase it loaded.
ApproveStart(q) ==
  LET c == call[q] IN
  /\ c.pc \in {"loaded", "settled"} /\ c.op = "approve"
  /\ \/ /\ busy[c.ref] # "" \/ ~Clears(c.d, c.by)
        /\ Answer(q) /\ UNCHANGED <<daemon, busy, spare>>
     \/ busy[c.ref] = "" /\ Outage /\ Answer(q) /\ UNCHANGED <<daemon, busy>>
     \/ /\ busy[c.ref] = "" /\ Clears(c.d, c.by)
        /\ daemon' = Charged(c.d, c.by)
        /\ IF c.pc = "settled" THEN Answer(q) /\ UNCHANGED busy
           ELSE call' = Goto(q, "deploying") /\ busy' = [busy EXCEPT ![c.ref] = q]
        /\ UNCHANGED spare
  /\ UNCHANGED <<policyFile, tokenFile, frozen, rollouts, records, queue, onDisk>>

\* Reject takes no lock.
Reject(q) ==
  LET c == call[q] IN
  /\ c.pc \in {"loaded", "settled"} /\ c.op = "reject"
  /\ IF c.pc = "settled" THEN Answer(q) /\ UNCHANGED <<rollouts, records>>
     ELSE /\ rollouts' = [rollouts EXCEPT ![c.row].phase = "rolled_back"]
          /\ Saves(Returned(q), c.ref, "rolled_back")
  /\ UNCHANGED <<policyFile, tokenFile, daemon, frozen, busy, queue, onDisk, spare>>

\* The target's Apply and the save of its outcome.
Deploy(q) ==
  \E ok \in BOOLEAN :
    LET c == call[q]
        phase == IF ok THEN "verifying" ELSE "rolled_back"
        after == IF c.op # "schedule" THEN Returned(q)
                 ELSE IF ok THEN Goto(q, "fired")
                 ELSE [Goto(q, "firing") EXCEPT ![q].left = @ \ {c.sch}, ![q].under = FALSE]
    IN  /\ c.pc = "deploying"
        /\ rollouts' = [rollouts EXCEPT ![c.row].phase = phase, ![c.row].ran = TRUE,
                          ![c.row].approver = IF c.op = "approve" THEN c.by ELSE @]
        /\ busy' = [busy EXCEPT ![c.ref] = ""]
        /\ Saves(after, c.ref, phase)
        /\ UNCHANGED <<policyFile, tokenFile, daemon, frozen, queue, onDisk, spare>>

\* Freeze persists, then engages the daemon's own copy.
FreezePersist(q) ==
  LET c == call[q] IN
  /\ c.pc = "admitted" /\ c.op \in OnFreeze
  /\ \/ /\ frozen' = (c.op = "freeze")
        /\ call' = [x \in DOMAIN call |-> [Goto(q, "persisted")[x] EXCEPT !.under = @ /\ c.op = "freeze"]]
        /\ UNCHANGED spare
     \/ Outage /\ Answer(q) /\ UNCHANGED frozen
  /\ UNCHANGED <<policyFile, tokenFile, daemon, rollouts, records, busy, queue, onDisk>>

FreezeEngage(q) ==
  LET c == call[q] IN
  /\ c.pc = "persisted"
  /\ daemon' = [daemon EXCEPT ![c.d].frozen = (c.op = "freeze")]
  /\ Answer(q)
  /\ UNCHANGED <<policyFile, tokenFile, frozen, rollouts, records, busy, queue, onDisk, spare>>

(***************************************************************************)
(* Schedules: every daemon reads what is due and fires it, one by one.       *)
(***************************************************************************)
\* Mutant of TickSchedules: what is due leaves the queue as it is read.
TickTakes(d) ==
  /\ daemon[d].up /\ call[d].pc = "idle" /\ queue # {}
  /\ call' = [call EXCEPT ![d] = [NoCall EXCEPT !.pc = "firing", !.d = d, !.op = "schedule", !.left = queue]]
  /\ queue' = {}
  /\ UNCHANGED <<policyFile, tokenFile, daemon, frozen, rollouts, records, busy, onDisk, spare>>

TickSchedules(d) ==
  /\ daemon[d].up /\ call[d].pc = "idle" /\ queue # {}
  /\ call' = [call EXCEPT ![d] = [NoCall EXCEPT !.pc = "firing", !.d = d, !.op = "schedule", !.left = queue]]
  /\ UNCHANGED <<policyFile, tokenFile, daemon, frozen, rollouts, records, busy, queue, onDisk, spare>>

\* applyScheduled: lock, guardrails at fire time with the target's name only,
\* first save.  What cannot fire now stays queued.
FireNext(d) ==
  \E s \in call[d].left :
    LET c == call[d]  sch == Schedules[s]
        skipped == [call EXCEPT ![d].left = @ \ {s}]
    IN
    /\ c.pc = "firing"
    /\ \/ /\ busy[sch.ref] # "" \/ ~Clears(d, sch.by) \/ MustApprove(FloorOfRef)
          /\ call' = skipped /\ UNCHANGED <<daemon, rollouts, records, busy, spare>>
       \/ Outage /\ call' = skipped /\ UNCHANGED <<daemon, rollouts, records, busy>>
       \/ /\ busy[sch.ref] = "" /\ Clears(d, sch.by) /\ ~MustApprove(FloorOfRef)
          /\ Len(rollouts) < spare.rows
          /\ daemon' = Charged(d, sch.by)
          /\ rollouts' = Append(rollouts, Row(sch.ref, "deploying", sch.by, s))
          /\ busy' = [busy EXCEPT ![sch.ref] = d]
          /\ Saves([call EXCEPT ![d].pc = "deploying", ![d].by = sch.by, ![d].ref = sch.ref, ![d].sch = s,
                                ![d].row = Len(rollouts) + 1], sch.ref, "deploying")
          /\ UNCHANGED spare
    /\ UNCHANGED <<policyFile, tokenFile, frozen, queue, onDisk>>

\* DeleteSchedule, outside the lock, may fail; the schedule then fires again.
DeleteSchedule(d) ==
  LET c == call[d]
      next == [Goto(d, "firing") EXCEPT ![d].left = @ \ {c.sch}] IN
  /\ c.pc = "fired"
  /\ call' = next
  /\ \/ queue' = queue \ {c.sch} /\ UNCHANGED spare
     \/ Outage /\ UNCHANGED queue
  /\ UNCHANGED <<policyFile, tokenFile, daemon, frozen, rollouts, records, busy, onDisk>>

TickEnds(d) ==
  /\ call[d].pc = "firing" /\ call[d].left = {} /\ Answer(d)
  /\ UNCHANGED <<policyFile, tokenFile, daemon, frozen, rollouts, records, busy, queue, onDisk, spare>>

(***************************************************************************)
(* The operator and the daemons                                              *)
(***************************************************************************)
Rewrite ==
  /\ spare.rewrites > 0
  /\ spare' = [spare EXCEPT !.rewrites = @ - 1]
  /\ policyFile' \in PolicyFiles /\ tokenFile' \in TokenFiles
  /\ onDisk' = onDisk \cup {policyFile'}
  /\ UNCHANGED <<daemon, frozen, rollouts, records, busy, call, queue>>

\* Mutant of Reload: the file is layered onto the live policy, up to the entry
\* that does not parse.
ReloadInPlace(d) ==
  /\ daemon[d].up
  /\ daemon' = [daemon EXCEPT ![d].policy = IF Loads(policyFile) THEN Layered(@, policyFile)
                                            ELSE FoldLeft(DefineRole, @, policyFile.roles),
                              ![d].tokens = IF tokenFile = Malformed THEN @ ELSE tokenFile]
  /\ UNCHANGED <<policyFile, tokenFile, frozen, rollouts, records, busy, call, queue, onDisk, spare>>

\* SIGHUP.  What does not load leaves the current value in place.
Reload(d) ==
  /\ daemon[d].up
  /\ daemon' = [daemon EXCEPT ![d].policy = IF Loads(policyFile) THEN buildPolicy(policyFile) ELSE @,
                              ![d].tokens = IF tokenFile = Malformed THEN @ ELSE tokenFile]
  /\ UNCHANGED <<policyFile, tokenFile, frozen, rollouts, records, busy, call, queue, onDisk, spare>>

\* The calls of a daemon that stops end where they are; its leases run out.
Stop(d) ==
  /\ daemon[d].up /\ Outage
  /\ daemon' = [daemon EXCEPT ![d].up = FALSE]
  /\ call' = [q \in DOMAIN call |-> IF call[q].d = d THEN NoCall ELSE call[q]]
  /\ busy' = [r \in DOMAIN busy |-> IF busy[r] # "" /\ call[busy[r]].d = d THEN "" ELSE busy[r]]
  /\ UNCHANGED <<policyFile, tokenFile, frozen, rollouts, records, queue, onDisk>>

\* A bad policy file is fatal at start, bad tokens leave nobody on MCP, and the
\* freeze is restored from the store.
Start(d) ==
  /\ ~daemon[d].up /\ Loads(policyFile)
  /\ daemon' = [daemon EXCEPT ![d] = [up |-> TRUE, policy |-> buildPolicy(policyFile),
                                      tokens |-> IF tokenFile = Malformed THEN {} ELSE tokenFile,
                                      frozen |-> frozen, budget |-> Full]]
  /\ UNCHANGED <<policyFile, tokenFile, frozen, rollouts, records, busy, call, queue, onDisk, spare>>

\* The rate limiter's bucket fills up again.
Interval(d) ==
  /\ daemon[d].budget # Full /\ spare.intervals > 0
  /\ daemon' = [daemon EXCEPT ![d].budget = Full]
  /\ spare' = [spare EXCEPT !.intervals = @ - 1]
  /\ UNCHANGED <<policyFile, tokenFile, frozen, rollouts, records, busy, call, queue, onDisk>>

AdmissionNext ==
  \/ \E q \in Requests :
        \/ Arrive(q) \/ ApplyCheck(q) \/ ApplyStore(q) \/ LoadRow(q) \/ ApproveStart(q) \/ Reject(q)
        \/ FreezePersist(q) \/ FreezeEngage(q)
  \/ \E q \in Requests \cup Daemons : Deploy(q)
  \/ \E d \in Daemons :
        \/ TickSchedules(d) \/ FireNext(d) \/ DeleteSchedule(d) \/ TickEnds(d)
        \/ Reload(d) \/ Stop(d) \/ Start(d) \/ Interval(d)
  \/ Rewrite

AdmissionSpec == AdmissionInit /\ [][AdmissionNext]_admissionVars

(***************************************************************************)
(* Properties                                                                *)
(***************************************************************************)
\* A request that arrived under an engaged freeze does not deploy as long as the
\* freeze is not lifted, whichever replica engaged it and whatever crashed since
\* (CheckApply's FreezeSource).
FreezeHolds == \A q \in DOMAIN call : call[q].pc = "deploying" => ~call[q].under

\* A critical target runs nothing that was applied without an approval (the
\* policy floor), unless a schedule brought it.
GatedWaits ==
  \A i \in DOMAIN rollouts :
    rollouts[i].ran /\ Services[rollouts[i].ref].criticality = "critical" /\ rollouts[i].sch = ""
      => rollouts[i].approver # Nobody

\* With risk.history configured, an apply that arrives after as many failures as
\* the limit waits for an approval (riskWeights reads the newest records).
FailuresEscalate == \A q \in DOMAIN call : call[q].pc = "deploying" => ~call[q].tired

\* The policy of a running daemon is the bootstrap policy with one whole policy
\* file that loaded, never a part of one nor of two (SIGHUP's ReplaceWith).
PolicyIsWhole ==
  \A d \in Daemons : daemon[d].up => daemon[d].policy \in {buildPolicy(f) : f \in {f \in onDisk : Loads(f)}}

\* A schedule leaves the queue only after its manifest was sent to its target
\* (FireDueSchedules deletes last).
ScheduleNotLost ==
  \A s \in spare.queue \ queue : \E i \in DOMAIN rollouts : rollouts[i].sch = s /\ rollouts[i].ran

\* What the code does not give, and no run checks: that a rejected rollout stays
\* rejected.  Approve decides on the row it loaded before it took the lock and
\* Reject takes none (engine.go:1373, 1460): what was rejected in between deploys.
RejectedStays ==
  [][\A i \in DOMAIN rollouts : rollouts[i].phase = "rolled_back" => rollouts'[i].phase = "rolled_back"]_rollouts
=============================================================================
