------------------------------ MODULE Targets ------------------------------
(***************************************************************************)
(* What a deploy does to a target: the Kubernetes target (kubectl apply,    *)
(* optional prune, then a separate stamp of the checksum), the file targets *)
(* (SSH and FTP: payload, then stamp), the retry envelope of internal/step  *)
(* around them, the drift verdict of engine.Plan that starts an apply, and  *)
(* the reap of a retired config.  The targets of one namespace share its    *)
(* resources.  A content is one rendering of a target's source; its         *)
(* documents carry its number.  kubectl, the hosts and the operator with    *)
(* kubectl access fail or interfere as the bounds allow.                    *)
(***************************************************************************)
EXTENDS Naturals, FiniteSets

CONSTANTS Refs,          \* targets
          Kind,          \* ref -> "kubernetes" or "file"
          Source,        \* ref -> "inline", "from" (manifestFrom) or "flat" (helm, kustomize, oci)
          Contents,      \* the renderings of a source
          Docs,          \* ref -> content -> its resources
          Main,          \* ref -> the resource that carries the stamp
          Label,         \* ref -> labelValue(ref): lower case, other characters
                         \* replaced, ends trimmed, cut to 63, so refs may share one
          Prunes,        \* the refs with prune: true
          ReapOptIn,     \* the refs with reapOnDelete: true
          Verification,  \* ref -> "shallow", "detect" or "full"
          Repos,         \* the sets of refs a repository may declare
          MaxAttempts,   \* step.Policy.MaxAttempts
          MaxCommits, MaxFaults, MaxEdits, MaxRollbacks

Own(r) == UNION {Docs[r][c] : c \in Contents}

Unlabelled == "none"       \* a resource without the target label

\* Targets whose refs come to the same label, and what they own together.
Alone(r) == \A s \in Refs \ {r} : Label[s] # Label[r]
Kin(r) == UNION {Own(s) : s \in {t \in Refs : Label[t] = Label[r]}}

\* Renderings are numbered from 1.
ASSUME TargetsAssumption ==
  /\ Contents \subseteq Nat \ {0} /\ 1 \in Contents
  /\ MaxAttempts \in Nat \ {0}
  /\ \A r \in Refs : Kind[r] \in {"kubernetes", "file"} /\ Source[r] \in {"inline", "from", "flat"}
  /\ \A r \in Refs, c \in Contents : Main[r] \in Docs[r][c]
  /\ \A r, s \in Refs : r # s => Own(r) \cap Own(s) = {}
  /\ \A r \in Refs : Label[r] # Unlabelled

VARIABLES declared,   \* ref -> what its source renders to at the tracked commit
          retired,    \* ref -> "no", "absent" (its config is gone) or "reaped"
          live,       \* resource -> the content it runs, 0: absent
          label,      \* resource -> the target label it carries
          stamp,      \* ref -> the checksum the target reports, 0: none
          rows,       \* ref -> [cur, prior]: the manifests of its newest rollouts
          job,        \* ref -> the Apply in progress
          whole,      \* history: ref -> checksums whose documents were once all sent
          targetCounts

targetVars == <<declared, retired, live, label, stamp, rows, job, whole, targetCounts>>

Resources == UNION {Own(r) : r \in Refs}
Absent == 0
Broken == 1000             \* a payload whose write was cut short

(***************************************************************************)
(* Manifests.  manifestFromConfig takes the checksum of the spec;           *)
(* stampReferencedChecksum replaces it by that of the rendered output and   *)
(* captures the output.  A flat source's spec never changes here.           *)
(***************************************************************************)
NoManifest == [sum |-> 0, cap |-> 0, ran |-> 0]

Manifest(r) ==
  CASE Source[r] = "inline" -> [sum |-> declared[r], cap |-> 0, ran |-> 0]
    [] Source[r] = "from"   -> [sum |-> declared[r], cap |-> declared[r], ran |-> 0]
    [] Source[r] = "flat"   -> [sum |-> 1, cap |-> 0, ran |-> 0]

\* Mutant of desiredManifest: what was captured is rendered anew.
RenderAgain(r, m) == IF Source[r] = "inline" THEN m.sum ELSE declared[r]

\* Captured output first, else render from the spec and the checkout of now.
desiredManifest(r, m) ==
  IF m.cap # 0 THEN m.cap ELSE IF Source[r] = "inline" THEN m.sum ELSE declared[r]

InPlace(r, c) == \A x \in Docs[r][c] : live[x] = c

NoJob == [pc |-> "idle", m |-> NoManifest, try |-> 0, undo |-> FALSE, goal |-> 0, clean |-> FALSE]

TargetsInit ==
  /\ declared = [r \in Refs |-> CHOOSE c \in Contents : \A d \in Contents : c <= d]
  /\ \E repo \in Repos : retired = [r \in Refs |-> IF r \in repo THEN "no" ELSE "reaped"]
  /\ live = [x \in Resources |-> Absent]
  /\ label = [x \in Resources |-> Unlabelled]
  /\ stamp = [r \in Refs |-> 0]
  /\ rows = [r \in Refs |-> [cur |-> NoManifest, prior |-> NoManifest]]
  /\ job = [r \in Refs |-> NoJob]
  /\ whole = [r \in Refs |-> {}]
  /\ targetCounts = [commits |-> 0, faults |-> 0, edits |-> 0, rollbacks |-> 0]

Spend(k, max) == /\ targetCounts[k] < max
                 /\ targetCounts' = [targetCounts EXCEPT ![k] = @ + 1]
TFault == Spend("faults", MaxFaults)
NoTFault == UNCHANGED targetCounts

(***************************************************************************)
(* The environment.                                                         *)
(***************************************************************************)
CommitSource(r) ==
  /\ retired[r] = "no" /\ Spend("commits", MaxCommits)
  /\ \E c \in Contents \ {declared[r]} : declared' = [declared EXCEPT ![r] = c]
  /\ job' = [job EXCEPT ![r].clean = @ /\ Source[r] # "flat"]
  /\ UNCHANGED <<retired, live, label, stamp, rows, whole>>

\* kubectl edit, kubectl delete: the stamp goes with the resource that carries it.
EditLive(r, x) ==
  /\ Kind[r] = "kubernetes" /\ x \in Own(r) /\ live[x] # Absent /\ Spend("edits", MaxEdits)
  /\ \E v \in {Absent, Broken} \ {live[x]} :
       /\ live' = [live EXCEPT ![x] = v]
       /\ stamp' = [stamp EXCEPT ![r] = IF x = Main[r] /\ v = Absent THEN 0 ELSE @]
       /\ label' = [label EXCEPT ![x] = IF v = Absent THEN Unlabelled ELSE @]
  /\ job' = [job EXCEPT ![r].clean = FALSE]
  /\ UNCHANGED <<declared, retired, rows, whole>>

RetireConfig(r) ==
  /\ retired[r] = "no" /\ job[r] = NoJob
  /\ retired' = [retired EXCEPT ![r] = "absent"]
  /\ UNCHANGED <<declared, live, label, stamp, rows, job, whole, targetCounts>>

(***************************************************************************)
(* engine.Plan: the stamp decides; when it matches, full verification       *)
(* diffs the live state, and a diff that fails counts as drift.  Detect     *)
(* only alerts.  A failed Observe ends the tick.  Apply then stores its row. *)
(***************************************************************************)
Drifted(r, c) == ~ InPlace(r, c)

Begin(r, m, undo, goal) ==
  job' = [job EXCEPT ![r] = [pc |-> "read", m |-> m, try |-> 1, undo |-> undo, goal |-> goal, clean |-> TRUE]]

Adopt(r, m) ==
  rows' = [rows EXCEPT ![r] =
    IF @.cur.sum = m.sum THEN [@ EXCEPT !.cur.cap = m.cap] ELSE [cur |-> m, prior |-> @.cur]]

\* Mutant of Plan: only the stamp is compared.
PlanStampOnly(r) ==
  /\ job[r] = NoJob /\ retired[r] = "no"
  /\ stamp[r] # Manifest(r).sum /\ NoTFault
  /\ Begin(r, Manifest(r), FALSE, desiredManifest(r, Manifest(r))) /\ Adopt(r, Manifest(r))
  /\ UNCHANGED <<declared, retired, live, label, stamp, whole>>

Plan(r) ==
  /\ job[r] = NoJob /\ retired[r] = "no"
  /\ LET m == Manifest(r)
         c == desiredManifest(r, m)
     IN  /\ \/ stamp[r] # m.sum /\ NoTFault
            \/ /\ stamp[r] = m.sum /\ Verification[r] = "full" /\ Kind[r] = "kubernetes"
               /\ (Drifted(r, c) /\ NoTFault) \/ TFault
         /\ Begin(r, m, FALSE, c) /\ Adopt(r, m)
  /\ UNCHANGED <<declared, retired, live, label, stamp, whole>>

\* Rollback: the newest manifest of another checksum is applied again.
RollbackTarget(r) ==
  /\ job[r] = NoJob /\ retired[r] = "no" /\ Spend("rollbacks", MaxRollbacks)
  /\ rows[r].prior.ran # 0
  /\ Begin(r, rows[r].prior, TRUE, rows[r].prior.ran)
  /\ rows' = [rows EXCEPT ![r] = [cur |-> @.prior, prior |-> NoManifest]]
  /\ UNCHANGED <<declared, retired, live, label, stamp, whole>>

(***************************************************************************)
(* Apply.  An unreadable stamp counts as another checksum.  A matching      *)
(* stamp is believed by a file target and confirmed by a diff on a cluster. *)
(***************************************************************************)
Goto(r, pc) == job' = [job EXCEPT ![r].pc = pc]

ReadStamp(r) ==
  /\ job[r].pc = "read"
  /\ \/ stamp[r] = job[r].m.sum /\ Goto(r, IF Kind[r] = "file" THEN "done" ELSE "diff") /\ NoTFault
     \/ stamp[r] # job[r].m.sum /\ Goto(r, "send") /\ NoTFault
     \/ stamp[r] = job[r].m.sum /\ Goto(r, "send") /\ TFault
  /\ UNCHANGED <<declared, retired, live, label, stamp, rows, whole>>

Diff(r) ==
  /\ job[r].pc = "diff"
  /\ LET drift == Drifted(r, desiredManifest(r, job[r].m))
     IN  \/ Goto(r, IF drift THEN "send" ELSE "done") /\ NoTFault
         \/ ~ drift /\ Goto(r, "send") /\ TFault
  /\ UNCHANGED <<declared, retired, live, label, stamp, rows, whole>>

\* The documents of c reach the cluster in xs, labelled; gone are deleted.
Write(r, c, xs, gone) ==
  /\ live' = [x \in Resources |-> IF x \in xs THEN c ELSE IF x \in gone THEN Absent ELSE live[x]]
  /\ label' = [x \in Resources |-> IF x \in xs THEN Label[r] ELSE IF x \in gone THEN Unlabelled ELSE label[x]]
  /\ stamp' = [s \in Refs |-> IF Main[s] \in gone THEN 0 ELSE stamp[s]]

\* Mutant of Prunable: the label of any target will do.
PrunableAnyLabel(r, c) ==
  IF r \in Prunes THEN {x \in Resources \ Docs[r][c] : label[x] # Unlabelled} ELSE {}

\* pruneArgs: what carries this target's label and is not in the apply set.
Prunable(r, c) ==
  IF r \in Prunes THEN {x \in Resources \ Docs[r][c] : label[x] = Label[r]} ELSE {}

\* Mutant of Send: the stamp follows whatever kubectl says.
SendIgnoringErrors(r) ==
  /\ job[r].pc = "send" /\ Kind[r] = "kubernetes"
  /\ LET c == desiredManifest(r, job[r].m)
     IN  \/ Write(r, c, Docs[r][c], Prunable(r, c)) /\ whole' = [whole EXCEPT ![r] = @ \cup {job[r].m.sum}] /\ NoTFault
         \/ TFault /\ (\E xs \in SUBSET Docs[r][c] : Write(r, c, xs, {})) /\ UNCHANGED whole
  /\ Goto(r, "stamp")
  /\ UNCHANGED <<declared, retired, rows>>

\* kubectl apply: all of it and the prune, or some of the documents and an
\* error, or all of them and an error while pruning.
Send(r) ==
  /\ job[r].pc = "send" /\ Kind[r] = "kubernetes"
  /\ LET c == desiredManifest(r, job[r].m)
     IN  \/ /\ Write(r, c, Docs[r][c], Prunable(r, c))
            /\ whole' = [whole EXCEPT ![r] = @ \cup {job[r].m.sum}]
            /\ rows' = [rows EXCEPT ![r].cur.ran = c]
            /\ Goto(r, "stamp") /\ NoTFault
         \/ /\ TFault
            /\ \/ \E xs \in SUBSET Docs[r][c] : Write(r, c, xs, {})
               \/ \E gone \in SUBSET Prunable(r, c) : Write(r, c, Docs[r][c], gone)
            /\ Goto(r, "failed") /\ UNCHANGED <<rows, whole>>
  /\ UNCHANGED <<declared, retired>>

\* The file is rewritten in place: cut short it is neither old nor new.
WriteFile(r) ==
  /\ job[r].pc = "send" /\ Kind[r] = "file"
  /\ LET c == desiredManifest(r, job[r].m)
     IN  \/ /\ live' = [live EXCEPT ![Main[r]] = c]
            /\ whole' = [whole EXCEPT ![r] = @ \cup {job[r].m.sum}]
            /\ rows' = [rows EXCEPT ![r].cur.ran = c]
            /\ Goto(r, "stamp") /\ NoTFault
         \/ /\ TFault
            /\ \E v \in {live[Main[r]], c, Broken} : live' = [live EXCEPT ![Main[r]] = v]
            /\ Goto(r, "failed") /\ UNCHANGED <<rows, whole>>
  /\ UNCHANGED <<declared, retired, label, stamp>>

\* The stamp is a second command; on a cluster it needs the resource.
Stamp(r) ==
  /\ job[r].pc = "stamp"
  /\ \/ /\ live[Main[r]] # Absent
        /\ stamp' = [stamp EXCEPT ![r] = job[r].m.sum]
        /\ Goto(r, "done") /\ NoTFault
     \/ /\ TFault
        /\ stamp' \in {stamp} \cup {[stamp EXCEPT ![r] = s] : s \in {job[r].m.sum} \cup IF Kind[r] = "file" THEN {0} ELSE {}}
        /\ live[Main[r]] = Absent => stamp' = stamp
        /\ Goto(r, "failed")
     \/ live[Main[r]] = Absent /\ Goto(r, "failed") /\ UNCHANGED stamp /\ NoTFault
  /\ UNCHANGED <<declared, retired, live, label, rows, whole>>

\* step.Guarded.Apply: the whole of Apply again, up to MaxAttempts.  (Every
\* call of the engine wraps its target anew, so the circuit breaker around the
\* retries never lives to see its threshold.)
Retry(r) ==
  /\ job[r].pc = "failed" /\ job[r].try < MaxAttempts
  /\ job' = [job EXCEPT ![r].pc = "read", ![r].try = @ + 1]
  /\ UNCHANGED <<declared, retired, live, label, stamp, rows, whole, targetCounts>>

GiveUp(r) ==
  /\ \/ job[r].pc = "failed" /\ job[r].try = MaxAttempts
     \/ job[r].pc = "done"
  /\ job' = [job EXCEPT ![r] = NoJob]
  /\ UNCHANGED <<declared, retired, live, label, stamp, rows, whole, targetCounts>>

CrashJob(r) ==
  /\ job[r].pc \notin {"idle", "done"} /\ TFault
  /\ job' = [job EXCEPT ![r] = NoJob]
  /\ UNCHANGED <<declared, retired, live, label, stamp, rows, whole>>

(***************************************************************************)
(* The reaper of the watcher: kubectl delete by label, opted in.            *)
(***************************************************************************)
ReapTarget(r) ==
  /\ retired[r] = "absent" /\ r \in ReapOptIn
  /\ LET gone == {x \in Resources : label[x] = Label[r]}
     IN  Write(r, 0, {}, gone)
  /\ retired' = [retired EXCEPT ![r] = "reaped"]
  /\ UNCHANGED <<declared, rows, job, whole, targetCounts>>

ApplyStep(r) == ReadStamp(r) \/ Diff(r) \/ Send(r) \/ WriteFile(r) \/ Stamp(r) \/ Retry(r) \/ GiveUp(r)

TargetsNext == \E r \in Refs :
  \/ Plan(r) \/ RollbackTarget(r) \/ ApplyStep(r) \/ CrashJob(r)
  \/ CommitSource(r) \/ RetireConfig(r) \/ ReapTarget(r)
  \/ \E x \in Resources : EditLive(r, x)

\* The watcher ticks on and a call it began runs to its end.
TargetsFairness == \A r \in Refs : WF_targetVars(Plan(r)) /\ WF_targetVars(ApplyStep(r))

TargetsSpec == TargetsInit /\ [][TargetsNext]_targetVars /\ TargetsFairness

-----------------------------------------------------------------------------
\* An Apply that reports success, a rollback in particular, leaves a cluster
\* running what it was asked for and, on a rollback, exactly what ran when that
\* manifest was deployed, unless somebody edited the cluster meanwhile or another
\* target shares its label: neither a stale stamp, nor a diff that failed, nor a
\* source that moved on since passes for success (kubernetes.go:100, 150).
SuccessIsInPlace ==
  \A r \in Refs :
    job[r].pc = "done" /\ job[r].clean /\ Alone(r) /\ Kind[r] = "kubernetes" /\ Source[r] # "flat" =>
      InPlace(r, job[r].goal)

\* The same of the file targets, which believe their stamp (ssh.go:70).
FileSuccessIsInPlace ==
  \A r \in Refs : job[r].pc = "done" /\ job[r].clean /\ Kind[r] = "file" => InPlace(r, job[r].goal)

\* No target ever reports a checksum whose documents were not once all sent:
\* neither a failed apply nor a crash between apply and stamp makes the drift
\* signal run ahead of the target (cluster_kubectl.go:189).
StampNeverLeads == \A r \in Refs : stamp[r] \in {0} \cup whole[r]

\* A prune or a reap deletes nothing that belongs to a target of the namespace
\* with another label (prune.go:73, 99).
DeletesOnlyOwn ==
  [][\A r \in Refs : job'[r] # job[r] \/ retired'[r] # retired[r] =>
       \A x \in Resources \ Kin(r) : live[x] # Absent => live'[x] # Absent]_targetVars

\* What the code does not give, and no run checks: nothing of any other target is
\* deleted.  Two refs that come to one label prune and reap each other
\* (prune.go:20-30).
DeletesNothingForeign ==
  [][\A r \in Refs : job'[r] # job[r] \/ retired'[r] # retired[r] =>
       \A x \in Resources \ Own(r) : live[x] # Absent => live'[x] # Absent]_targetVars

\* Once faults, commits and edits are over, every declared target comes to
\* report its checksum and, under full verification, to run its documents, from
\* whatever half-applied state they left it in (engine.go:465), unless it shares
\* its label: two targets that prune each other never come to rest.
SelfHeals ==
  <>[](\A r \in Refs :
         \/ retired[r] # "no" \/ ~ Alone(r)
         \/ /\ stamp[r] = Manifest(r).sum
            /\ Verification[r] = "full" /\ Kind[r] = "kubernetes" =>
                 InPlace(r, desiredManifest(r, Manifest(r))))
=============================================================================
