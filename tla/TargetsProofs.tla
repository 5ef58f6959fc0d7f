--------------------------- MODULE TargetsProofs ---------------------------
(***************************************************************************)
(* Proofs about what deploys do to targets, for any number of targets,      *)
(* renderings, faults, edits and rollbacks.                                 *)
(***************************************************************************)
EXTENDS Targets, TLAPS

Sums == Contents \cup {0}
ManifestRecord == [sum : Sums, cap : Sums, ran : Sums]
JobPCs == {"idle", "read", "diff", "send", "stamp", "failed", "done"}
JobRecord ==
  [pc : JobPCs, m : ManifestRecord, try : Nat, undo : BOOLEAN, goal : Sums, clean : BOOLEAN]

TargetTypes ==
  /\ declared \in [Refs -> Contents]
  /\ retired \in [Refs -> {"no", "absent", "reaped"}]
  /\ live \in [Resources -> Nat]
  /\ label \in [Resources -> {Label[r] : r \in Refs} \cup {Unlabelled}]
  /\ stamp \in [Refs -> Sums]
  /\ rows \in [Refs -> [cur : ManifestRecord, prior : ManifestRecord]]
  /\ job \in [Refs -> JobRecord]
  /\ whole \in [Refs -> SUBSET Contents]

\* A label is found on the resources of the targets that have it, and no others.
LabelsOwn == \A r \in Refs, x \in Resources : label[x] = Label[r] => x \in Kin(r)

\* What a manifest says of its rendering: only a flat source leaves it open.
Known(r, m) ==
  /\ m \in ManifestRecord
  /\ Source[r] = "from" => m.cap = m.sum
  /\ Source[r] # "from" => m.cap = 0
  /\ m.ran # 0 => m.sum # 0
  /\ Source[r] # "flat" => m.ran \in {0, m.sum}

\* An apply in progress works on the manifest of the newest row, of a target
\* that is still declared.
Working(r) ==
  job[r].pc # "idle" =>
    /\ Known(r, job[r].m) /\ job[r].m.sum # 0
    /\ Source[r] # "flat" => job[r].goal = job[r].m.sum
    /\ rows[r].cur.sum = job[r].m.sum /\ rows[r].cur.cap = job[r].m.cap
    /\ retired[r] = "no"

\* Past the send, the documents are out and, of a target that has its label for
\* itself, stay out.
Sent(r) ==
  /\ job[r].pc = "stamp" => job[r].m.sum \in whole[r]
  /\ job[r].pc \in {"stamp", "done"} /\ job[r].clean /\ Alone(r) /\ Kind[r] = "kubernetes" /\ Source[r] # "flat" =>
       InPlace(r, job[r].goal)

RefInv(r) ==
  /\ Known(r, rows[r].cur) /\ Known(r, rows[r].prior)
  /\ Working(r) /\ Sent(r)
  /\ stamp[r] \in {0} \cup whole[r]

TargetInv == TargetTypes /\ LabelsOwn /\ \A r \in Refs : RefInv(r)

-----------------------------------------------------------------------------
\* What is sent: always a rendering, and outside the flat sources the one the
\* manifest's checksum names.
LEMMA Desired ==
  ASSUME NEW r \in Refs, NEW m, Known(r, m), m.sum # 0, declared[r] \in Contents
  PROVE  desiredManifest(r, m) \in Contents /\ (Source[r] # "flat" => desiredManifest(r, m) = m.sum)
  BY TargetsAssumption DEF Known, ManifestRecord, Sums, desiredManifest

\* manifestFromConfig and stampReferencedChecksum give such a manifest.
LEMMA ManifestKnown ==
  ASSUME NEW r \in Refs, declared[r] \in Contents
  PROVE  Known(r, Manifest(r)) /\ Manifest(r).sum # 0
<1>1. CASE Source[r] = "inline" BY <1>1, TargetsAssumption DEF Manifest, Known, ManifestRecord, Sums
<1>2. CASE Source[r] = "from" BY <1>2, TargetsAssumption DEF Manifest, Known, ManifestRecord, Sums
<1>3. CASE Source[r] = "flat" BY <1>3, TargetsAssumption DEF Manifest, Known, ManifestRecord, Sums
<1> QED BY <1>1, <1>2, <1>3, TargetsAssumption

\* A target's documents are its own and no other's.
LEMMA DocsOwn ==
  ASSUME NEW r \in Refs
  PROVE  /\ Own(r) \subseteq Resources
         /\ \A c \in Contents : Docs[r][c] \subseteq Own(r)
         /\ Main[r] \in Own(r)
         /\ \A s \in Refs \ {r} : Own(r) \cap Own(s) = {}
  BY TargetsAssumption DEF Own, Resources

\* A target is one of those with its label; one alone with its label has nothing in
\* common with the others.
LEMMA KinOwn ==
  ASSUME NEW r \in Refs
  PROVE  /\ Own(r) \subseteq Kin(r)
         /\ \A s \in Refs : Label[s] = Label[r] => Kin(s) = Kin(r)
         /\ \A s \in Refs \ {r} : Alone(s) => Own(s) \cap Kin(r) = {}
<1>1. \A x : x \in Kin(r) <=> \E t \in Refs : Label[t] = Label[r] /\ x \in Own(t) BY DEF Kin
<1>2. \A s \in Refs : Label[s] = Label[r] => Kin(s) = Kin(r) BY DEF Kin
<1>3. ASSUME NEW s \in Refs \ {r}, Alone(s), NEW x \in Own(s), x \in Kin(r) PROVE FALSE
  <2>1. PICK t \in Refs : Label[t] = Label[r] /\ x \in Own(t) BY <1>1, <1>3
  <2>2. t # s BY <1>3, <2>1 DEF Alone
  <2> QED BY <1>3, <2>1, <2>2, DocsOwn
<1> QED BY <1>1, <1>2, <1>3

\* A step that leaves a target's row, job and retirement alone and writes none
\* of its resources keeps what holds of it; its stamp may go with its carrier.
LEMMA Undisturbed ==
  ASSUME TargetInv, NEW r \in Refs,
         rows'[r] = rows[r], job'[r] = job[r], retired'[r] = retired[r], whole'[r] = whole[r],
         stamp'[r] \in {0, stamp[r]}, Alone(r) => \A x \in Own(r) : live'[x] = live[x]
  PROVE  RefInv(r)'
<1>1. RefInv(r) /\ job[r].goal \in Sums BY DEF TargetInv, TargetTypes, JobRecord
<1>2. Working(r)' BY <1>1 DEF RefInv, Working
<1>3. Sent(r)'
  <2>1. ASSUME job[r].pc \in {"stamp", "done"}, job[r].clean, Alone(r), Kind[r] = "kubernetes", Source[r] # "flat"
        PROVE  InPlace(r, job[r].goal)'
    <3>1. InPlace(r, job[r].goal) /\ job[r].goal \in Contents
      BY <1>1, <2>1 DEF RefInv, Sent, Working, Sums
    <3> QED BY <2>1, <3>1, DocsOwn DEF InPlace
  <2> QED BY <1>1, <2>1 DEF RefInv, Sent, Alone
<1> QED BY <1>1, <1>2, <1>3 DEF RefInv

\* The stores of a write: only resources of targets with its label, its documents
\* at the content sent, its label on nothing else.
LEMMA WriteFacts ==
  ASSUME TargetInv, NEW r \in Refs, NEW c \in Nat, NEW xs \in SUBSET Own(r), NEW gone,
         gone \subseteq {x \in Resources : label[x] = Label[r]}, Write(r, c, xs, gone)
  PROVE  /\ live' \in [Resources -> Nat]
         /\ label' \in [Resources -> {Label[s] : s \in Refs} \cup {Unlabelled}]
         /\ stamp' \in [Refs -> Sums] /\ \A s \in Refs : stamp'[s] \in {0, stamp[s]}
         /\ LabelsOwn'
         /\ \A x \in Resources \ Kin(r) : live'[x] = live[x]
         /\ \A s \in Refs \ {r} : Alone(s) => \A x \in Own(s) : live'[x] = live[x]
         /\ \A x \in xs : live'[x] = c
<1>0. TargetTypes /\ LabelsOwn BY DEF TargetInv
<1>1. gone \subseteq Kin(r) /\ xs \subseteq Kin(r) BY <1>0, KinOwn DEF LabelsOwn
<1>2. live' \in [Resources -> Nat] /\ stamp' \in [Refs -> Sums]
  BY <1>0 DEF Write, TargetTypes, Absent, Sums
<1>3. label' \in [Resources -> {Label[s] : s \in Refs} \cup {Unlabelled}]
  BY <1>0 DEF Write, TargetTypes
<1>4. \A s \in Refs : stamp'[s] \in {0, stamp[s]} BY DEF Write
<1>5. \A x \in Resources \ Kin(r) : live'[x] = live[x] BY <1>1 DEF Write
<1>6. \A x \in xs : live'[x] = c BY DocsOwn DEF Write
<1>7. ASSUME NEW s \in Refs \ {r}, Alone(s), NEW x \in Own(s) PROVE live'[x] = live[x]
  <2>1. x \in Resources /\ x \notin Kin(r) BY <1>7, DocsOwn, KinOwn
  <2> QED BY <1>5, <2>1
<1>8. LabelsOwn'
  <2> SUFFICES ASSUME NEW s \in Refs, NEW x \in Resources, label'[x] = Label[s] PROVE x \in Kin(s)
    BY DEF LabelsOwn, Kin, Own, Resources
  <2>1. label'[x] \in {Label[r], Unlabelled, label[x]} BY DEF Write
  <2>2. CASE x \in xs
    <3>1. label'[x] = Label[r] BY <2>2 DEF Write
    <3>2. x \in Kin(r) /\ Kin(s) = Kin(r) BY <1>1, <2>2, <3>1, KinOwn
    <3> QED BY <3>2
  <2>3. CASE x \notin xs
    <3>1. label'[x] \in {Unlabelled, label[x]} BY <2>3 DEF Write
    <3> QED BY <3>1, <1>0, TargetsAssumption DEF LabelsOwn
  <2> QED BY <2>2, <2>3
<1> QED BY <1>2, <1>3, <1>4, <1>5, <1>6, <1>7, <1>8

\* A step of one target: the others are undisturbed.
LEMMA OneTarget ==
  ASSUME TargetInv, NEW r \in Refs, TargetTypes', LabelsOwn', RefInv(r)',
         \A s \in Refs \ {r} :
            /\ rows'[s] = rows[s] /\ job'[s] = job[s] /\ retired'[s] = retired[s] /\ whole'[s] = whole[s]
            /\ stamp'[s] \in {0, stamp[s]} /\ (Alone(s) => \A x \in Own(s) : live'[x] = live[x])
  PROVE  TargetInv'
<1>1. \A s \in Refs \ {r} : RefInv(s)' BY Undisturbed
<1> QED BY <1>1 DEF TargetInv

\* A step of one target that touches neither the cluster nor the hosts.
LEMMA OneJob ==
  ASSUME TargetInv, NEW r \in Refs, RefInv(r)', UNCHANGED <<live, label, stamp, whole>>,
         NEW c \in Contents, declared' \in {declared, [declared EXCEPT ![r] = c]},
         NEW j \in JobRecord, job' = [job EXCEPT ![r] = j],
         NEW w \in [cur : ManifestRecord, prior : ManifestRecord], rows' = [rows EXCEPT ![r] = w],
         NEW q \in {"no", "absent", "reaped"}, retired' = [retired EXCEPT ![r] = q]
  PROVE  TargetInv'
<1>1. TargetTypes /\ LabelsOwn BY DEF TargetInv
<1>2. TargetTypes'
  <2>1. declared' \in [Refs -> Contents] BY <1>1 DEF TargetTypes
  <2>2. job' \in [Refs -> JobRecord] BY <1>1 DEF TargetTypes
  <2>3. rows' \in [Refs -> [cur : ManifestRecord, prior : ManifestRecord]] BY <1>1 DEF TargetTypes
  <2>4. retired' \in [Refs -> {"no", "absent", "reaped"}] BY <1>1 DEF TargetTypes
  <2> QED BY <1>1, <2>1, <2>2, <2>3, <2>4 DEF TargetTypes, Resources, Own
<1>3. LabelsOwn' BY <1>1 DEF LabelsOwn
<1>4. \A s \in Refs \ {r} : rows'[s] = rows[s] /\ job'[s] = job[s] /\ retired'[s] = retired[s]
  BY <1>1 DEF TargetTypes
<1> QED BY <1>2, <1>3, <1>4, OneTarget

\* The first tick of a fresh daemon.
LEMMA TargetInvInit == TargetsInit => TargetInv
<1> SUFFICES ASSUME TargetsInit PROVE TargetInv OBVIOUS
<1>1. declared \in [Refs -> Contents]
  <2>1. (CHOOSE c \in Contents : \A d \in Contents : c <= d) \in Contents
    <3>1. \A d \in Contents : 1 <= d BY TargetsAssumption
    <3> QED BY <3>1, TargetsAssumption
  <2> QED BY <2>1 DEF TargetsInit
<1>2. NoJob \in JobRecord /\ NoManifest \in ManifestRecord
  BY DEF NoJob, NoManifest, JobRecord, ManifestRecord, JobPCs, Sums
<1>3. TargetTypes
  BY <1>1, <1>2 DEF TargetsInit, TargetTypes, Sums, Absent
<1>4. LabelsOwn BY TargetsAssumption DEF LabelsOwn, TargetsInit
<1>5. ASSUME NEW r \in Refs PROVE RefInv(r)
  <2>1. rows[r].cur = NoManifest /\ rows[r].prior = NoManifest /\ job[r] = NoJob /\ stamp[r] = 0
    BY DEF TargetsInit
  <2>2. Known(r, NoManifest) BY DEF Known, NoManifest, ManifestRecord, Sums
  <2> QED BY <2>1, <2>2 DEF RefInv, Working, Sent, NoJob
<1> QED BY <1>3, <1>4, <1>5 DEF TargetInv

\* An apply that begins with a manifest its row adopts.
LEMMA BeginKeeps ==
  ASSUME TargetInv, NEW r \in Refs, NEW m, Known(r, m), m.sum # 0, NEW undo \in BOOLEAN, NEW goal \in Sums,
         Source[r] # "flat" => goal = m.sum, Begin(r, m, undo, goal), retired[r] = "no",
         NEW w, Known(r, w.cur), Known(r, w.prior), w \in [cur : ManifestRecord, prior : ManifestRecord],
         w.cur.sum = m.sum, w.cur.cap = m.cap, rows' = [rows EXCEPT ![r] = w],
         UNCHANGED <<declared, retired, live, label, stamp, whole>>
  PROVE  TargetInv'
<1> DEFINE j == [pc |-> "read", m |-> m, try |-> 1, undo |-> undo, goal |-> goal, clean |-> TRUE]
<1>1. j \in JobRecord BY DEF JobRecord, JobPCs, Known
<1>2. TargetTypes /\ RefInv(r) BY DEF TargetInv
<1>3. job' = [job EXCEPT ![r] = j] /\ job'[r] = j /\ rows'[r] = w BY <1>2 DEF Begin, TargetTypes
<1>4. Working(r)' BY <1>3 DEF Working, Known
<1>5. Sent(r)' BY <1>3 DEF Sent
<1>6. RefInv(r)' BY <1>2, <1>3, <1>4, <1>5 DEF RefInv, Known
<1>7. retired' = [retired EXCEPT ![r] = "no"] BY <1>2 DEF TargetTypes
<1>8. 1 \in Contents BY TargetsAssumption
<1> HIDE DEF j
<1> QED BY <1>1, <1>3, <1>6, <1>7, <1>8, OneJob

\* engine.Plan with drift, and the row of its Apply.
LEMMA PlanKeeps == ASSUME TargetInv, NEW r \in Refs, Plan(r) PROVE TargetInv'
<1> DEFINE m == Manifest(r)
           c == desiredManifest(r, m)
           w == IF rows[r].cur.sum = m.sum THEN [rows[r] EXCEPT !.cur.cap = m.cap] ELSE [cur |-> m, prior |-> rows[r].cur]
<1>1. TargetTypes /\ RefInv(r) /\ declared[r] \in Contents BY DEF TargetInv, TargetTypes
<1>2. Known(r, m) /\ m.sum # 0 BY <1>1, ManifestKnown
<1>3. c \in Contents /\ (Source[r] # "flat" => c = m.sum) BY <1>1, <1>2, Desired
<1>4. Begin(r, m, FALSE, c) /\ Adopt(r, m) /\ retired[r] = "no"
      /\ UNCHANGED <<declared, retired, live, label, stamp, whole>>
  BY DEF Plan
<1> HIDE DEF c
<1>5. rows' = [rows EXCEPT ![r] = w] BY <1>4 DEF Adopt
<1>6. rows[r] \in [cur : ManifestRecord, prior : ManifestRecord] /\ Known(r, rows[r].cur) /\ Known(r, rows[r].prior)
  BY <1>1 DEF TargetTypes, RefInv
<1>7. /\ w \in [cur : ManifestRecord, prior : ManifestRecord]
      /\ w.cur.sum = m.sum /\ w.cur.cap = m.cap /\ Known(r, w.cur) /\ Known(r, w.prior)
  <2>1. CASE rows[r].cur.sum = m.sum
    <3>1. w = [cur |-> [rows[r].cur EXCEPT !.cap = m.cap], prior |-> rows[r].prior]
      BY <2>1, <1>6 DEF ManifestRecord
    <3>2. Known(r, [rows[r].cur EXCEPT !.cap = m.cap]) BY <2>1, <1>2, <1>6 DEF Known, ManifestRecord
    <3> QED BY <3>1, <3>2, <2>1, <1>6 DEF ManifestRecord, Known
  <2>2. CASE rows[r].cur.sum # m.sum BY <2>2, <1>2, <1>6 DEF Known
  <2> QED BY <2>1, <2>2
<1> HIDE DEF m, w
<1> QED BY <1>2, <1>3, <1>4, <1>5, <1>7, BeginKeeps DEF Sums

\* A rollback applies the prior row's manifest, whose rendering is what ran.
LEMMA RollbackKeeps == ASSUME TargetInv, NEW r \in Refs, RollbackTarget(r) PROVE TargetInv'
<1> DEFINE m == rows[r].prior
           w == [cur |-> m, prior |-> NoManifest]
<1>1. /\ rows[r] \in [cur : ManifestRecord, prior : ManifestRecord]
      /\ Known(r, m) /\ m.ran # 0 /\ m.sum # 0 /\ m.ran \in Sums /\ (Source[r] # "flat" => m.ran = m.sum)
  BY DEF TargetInv, TargetTypes, RefInv, Known, RollbackTarget, ManifestRecord
<1>2. Known(r, NoManifest) BY DEF Known, NoManifest, ManifestRecord, Sums
<1>3. /\ w \in [cur : ManifestRecord, prior : ManifestRecord]
      /\ w.cur.sum = m.sum /\ w.cur.cap = m.cap /\ Known(r, w.cur) /\ Known(r, w.prior)
  BY <1>1, <1>2 DEF Known
<1>4. /\ Begin(r, m, TRUE, m.ran) /\ rows' = [rows EXCEPT ![r] = w] /\ retired[r] = "no"
      /\ UNCHANGED <<declared, retired, live, label, stamp, whole>>
  BY DEF RollbackTarget
<1> HIDE DEF m, w
<1> QED BY <1>1, <1>3, <1>4, BeginKeeps

\* A step of an apply that only moves its job on, towards what it may assume.
LEMMA MoveOn ==
  ASSUME TargetInv, NEW r \in Refs, NEW j \in JobRecord, job' = [job EXCEPT ![r] = j],
         UNCHANGED <<declared, retired, live, label, stamp, rows, whole>>,
         j.m = job[r].m, j.goal = job[r].goal, job[r].pc # "idle",
         j.pc = "stamp" => job[r].m.sum \in whole[r],
         j.pc \in {"stamp", "done"} /\ j.clean /\ Kind[r] = "kubernetes" /\ Source[r] # "flat" =>
           InPlace(r, job[r].goal)
  PROVE  TargetInv'
<1>1. TargetTypes /\ RefInv(r) BY DEF TargetInv
<1>2. job'[r] = j BY <1>1 DEF TargetTypes
<1>3. Working(r)' BY <1>1, <1>2 DEF RefInv, Working, Known
<1>4. Sent(r)' BY <1>1, <1>2 DEF RefInv, Sent, InPlace
<1>5. RefInv(r)' BY <1>1, <1>3, <1>4 DEF RefInv
<1>6. /\ rows[r] \in [cur : ManifestRecord, prior : ManifestRecord] /\ rows' = [rows EXCEPT ![r] = rows[r]]
      /\ retired[r] \in {"no", "absent", "reaped"} /\ retired' = [retired EXCEPT ![r] = retired[r]]
      /\ 1 \in Contents
  BY <1>1, TargetsAssumption DEF TargetTypes
<1> QED BY <1>5, <1>6, OneJob

\* Reading the stamp: a file target may be done, a cluster is diffed first.
LEMMA ReadStampKeeps == ASSUME TargetInv, NEW r \in Refs, ReadStamp(r) PROVE TargetInv'
<1>1. PICK pc \in {"done", "diff", "send"} :
        Goto(r, pc) /\ (pc = "done" => Kind[r] = "file") /\ UNCHANGED <<declared, retired, live, label, stamp, rows, whole>>
  BY DEF ReadStamp
<1> DEFINE j == [job[r] EXCEPT !.pc = pc]
<1>2. job[r] \in JobRecord /\ job[r].pc # "idle" BY DEF TargetInv, TargetTypes, ReadStamp
<1>3. j \in JobRecord /\ j.m = job[r].m /\ j.goal = job[r].goal /\ j.pc = pc BY <1>2 DEF JobRecord, JobPCs
<1>4. job' = [job EXCEPT ![r] = j] BY <1>1 DEF Goto
<1> HIDE DEF j
<1> QED BY <1>1, <1>2, <1>3, <1>4, MoveOn

\* The diff: done only when what was asked for is in place.
LEMMA DiffKeeps == ASSUME TargetInv, NEW r \in Refs, Diff(r) PROVE TargetInv'
<1>1. PICK pc \in {"done", "send"} :
        /\ Goto(r, pc) /\ (pc = "done" => InPlace(r, desiredManifest(r, job[r].m)))
        /\ UNCHANGED <<declared, retired, live, label, stamp, rows, whole>>
  BY DEF Diff, Drifted
<1> DEFINE j == [job[r] EXCEPT !.pc = pc]
<1>2. job[r] \in JobRecord /\ job[r].pc # "idle" /\ RefInv(r) /\ declared[r] \in Contents
  BY DEF TargetInv, TargetTypes, Diff
<1>3. Source[r] # "flat" => desiredManifest(r, job[r].m) = job[r].goal
  BY <1>2, Desired DEF RefInv, Working
<1>4. j \in JobRecord /\ j.m = job[r].m /\ j.goal = job[r].goal /\ j.pc = pc BY <1>2 DEF JobRecord, JobPCs
<1>5. job' = [job EXCEPT ![r] = j] BY <1>1 DEF Goto
<1> HIDE DEF j
<1> QED BY <1>1, <1>2, <1>3, <1>4, <1>5, MoveOn

\* step.Guarded.Apply tries again from the start.
LEMMA RetryKeeps == ASSUME TargetInv, NEW r \in Refs, Retry(r) PROVE TargetInv'
<1> DEFINE j == [job[r] EXCEPT !.pc = "read", !.try = job[r].try + 1]
<1>1. job[r] \in JobRecord /\ job[r].pc # "idle" BY DEF TargetInv, TargetTypes, Retry
<1>2. j \in JobRecord /\ j.m = job[r].m /\ j.goal = job[r].goal /\ j.pc = "read"
  <2>1. job[r].try + 1 \in Nat BY <1>1 DEF JobRecord
  <2> QED BY <1>1, <2>1 DEF JobRecord, JobPCs
<1>3. job' = [job EXCEPT ![r] = j] /\ UNCHANGED <<declared, retired, live, label, stamp, rows, whole>>
  BY <1>1 DEF Retry, TargetInv, TargetTypes
<1> HIDE DEF j
<1> QED BY <1>1, <1>2, <1>3, MoveOn

\* The end of an apply, by result or by crash, and a config that goes away.
LEMMA EndKeeps ==
  ASSUME TargetInv, NEW r \in Refs, GiveUp(r) \/ CrashJob(r) \/ RetireConfig(r)
  PROVE  TargetInv'
<1>1. TargetTypes /\ RefInv(r) BY DEF TargetInv
<1>2. PICK q \in {"no", "absent", "reaped"} :
        /\ retired' = [retired EXCEPT ![r] = q] /\ job' = [job EXCEPT ![r] = NoJob]
        /\ UNCHANGED <<declared, live, label, stamp, rows, whole>>
  <2>1. CASE GiveUp(r) \/ CrashJob(r)
    <3>1. retired' = [retired EXCEPT ![r] = retired[r]] /\ retired[r] \in {"no", "absent", "reaped"}
      BY <1>1, <2>1 DEF GiveUp, CrashJob, TargetTypes
    <3>2. job' = [job EXCEPT ![r] = NoJob] /\ UNCHANGED <<declared, live, label, stamp, rows, whole>>
      BY <2>1 DEF GiveUp, CrashJob
    <3> QED BY <3>1, <3>2
  <2>2. CASE RetireConfig(r)
    <3>1. job' = [job EXCEPT ![r] = NoJob] BY <1>1, <2>2 DEF RetireConfig, TargetTypes
    <3> QED BY <3>1, <2>2 DEF RetireConfig
  <2> QED BY <2>1, <2>2
<1>3. NoJob \in JobRecord BY DEF NoJob, NoManifest, JobRecord, ManifestRecord, JobPCs, Sums
<1>4. job'[r].pc = "idle" BY <1>1, <1>2 DEF TargetTypes, NoJob
<1>5. RefInv(r)' BY <1>1, <1>2, <1>4 DEF RefInv, Working, Sent, Known
<1>6. /\ rows[r] \in [cur : ManifestRecord, prior : ManifestRecord] /\ rows' = [rows EXCEPT ![r] = rows[r]]
      /\ 1 \in Contents
  BY <1>1, <1>2, TargetsAssumption DEF TargetTypes
<1> QED BY <1>2, <1>3, <1>5, <1>6, OneJob

\* A commit moves the source on; an apply in progress keeps what it captured.
LEMMA CommitKeeps == ASSUME TargetInv, NEW r \in Refs, CommitSource(r) PROVE TargetInv'
<1>1. TargetTypes /\ RefInv(r) /\ job[r] \in JobRecord BY DEF TargetInv, TargetTypes
<1>2. PICK c \in Contents : declared' = [declared EXCEPT ![r] = c] BY DEF CommitSource
<1>3. PICK b \in BOOLEAN : job' = [job EXCEPT ![r] = [job[r] EXCEPT !.clean = b]] /\ (b => job[r].clean)
  <2>1. job' = [job EXCEPT ![r] = [job[r] EXCEPT !.clean = job[r].clean /\ Source[r] # "flat"]]
    BY DEF CommitSource
  <2> QED BY <2>1
<1> DEFINE j == [job[r] EXCEPT !.clean = b]
<1>4. j \in JobRecord /\ j.m = job[r].m /\ j.goal = job[r].goal /\ j.pc = job[r].pc /\ j.clean = b
  BY <1>1 DEF JobRecord
<1>5. job'[r] = j BY <1>1, <1>3 DEF TargetTypes
<1> HIDE DEF j
<1>6. UNCHANGED <<retired, live, label, stamp, rows, whole>> BY DEF CommitSource
<1>7. RefInv(r)'
  <2>1. Working(r)' BY <1>1, <1>4, <1>5, <1>6 DEF RefInv, Working, Known
  <2>2. Sent(r)' BY <1>1, <1>3, <1>4, <1>5, <1>6 DEF RefInv, Sent, InPlace
  <2> QED BY <1>1, <1>6, <2>1, <2>2 DEF RefInv, Known
<1>8. /\ rows[r] \in [cur : ManifestRecord, prior : ManifestRecord] /\ rows' = [rows EXCEPT ![r] = rows[r]]
      /\ retired[r] \in {"no", "absent", "reaped"} /\ retired' = [retired EXCEPT ![r] = retired[r]]
  BY <1>1, <1>6 DEF TargetTypes
<1> QED BY <1>2, <1>3, <1>4, <1>6, <1>7, <1>8, OneJob DEF j

\* What an apply may rely on when it sends.
LEMMA Sending ==
  ASSUME TargetInv, NEW r \in Refs, job[r].pc # "idle"
  PROVE  LET c == desiredManifest(r, job[r].m)
         IN  /\ c \in Contents /\ Docs[r][c] \subseteq Own(r)
             /\ Source[r] # "flat" => c = job[r].goal /\ c = job[r].m.sum
             /\ job[r].m.sum \in Contents
             /\ rows[r].cur \in ManifestRecord /\ Known(r, [rows[r].cur EXCEPT !.ran = c])
<1>1. /\ RefInv(r) /\ job[r] \in JobRecord /\ declared[r] \in Contents
      /\ rows[r] \in [cur : ManifestRecord, prior : ManifestRecord]
  BY DEF TargetInv, TargetTypes
<1>2. Known(r, job[r].m) /\ job[r].m.sum # 0 /\ rows[r].cur.sum = job[r].m.sum
  BY <1>1 DEF RefInv, Working
<1> DEFINE c == desiredManifest(r, job[r].m)
<1>3. c \in Contents /\ (Source[r] # "flat" => c = job[r].m.sum) BY <1>1, <1>2, Desired
<1> HIDE DEF c
<1>4. Docs[r][c] \subseteq Own(r) BY <1>3, DocsOwn
<1>5. Source[r] # "flat" => c = job[r].goal BY <1>1, <1>3 DEF RefInv, Working
<1>6. job[r].m.sum \in Contents BY <1>1, <1>2 DEF JobRecord, ManifestRecord, Sums
<1>7. rows[r].cur \in ManifestRecord BY <1>1
<1>8. Known(r, [rows[r].cur EXCEPT !.ran = c])
  BY <1>1, <1>2, <1>3, <1>7 DEF RefInv, Known, ManifestRecord, Sums
<1> QED BY <1>3, <1>4, <1>5, <1>6, <1>7, <1>8 DEF c

\* A send that failed: something was written, nothing is claimed.
LEMMA FailedKeeps ==
  ASSUME TargetInv, NEW r \in Refs, job[r].pc # "idle", Goto(r, "failed"),
         UNCHANGED <<declared, retired, rows, whole>>,
         live' \in [Resources -> Nat], stamp' \in [Refs -> Sums],
         label' \in [Resources -> {Label[s] : s \in Refs} \cup {Unlabelled}], LabelsOwn',
         \A s \in Refs : stamp'[s] \in {0, stamp[s]} \/ (s = r /\ stamp'[s] \in whole[s]),
         \A s \in Refs \ {r} : Alone(s) => \A x \in Own(s) : live'[x] = live[x]
  PROVE  TargetInv'
<1>1. TargetTypes /\ RefInv(r) /\ job[r] \in JobRecord BY DEF TargetInv, TargetTypes
<1>2. job' = [job EXCEPT ![r] = [job[r] EXCEPT !.pc = "failed"]] BY DEF Goto
<1> DEFINE j == [job[r] EXCEPT !.pc = "failed"]
<1>3. j \in JobRecord /\ j.m = job[r].m /\ j.goal = job[r].goal /\ j.pc = "failed" BY <1>1 DEF JobRecord, JobPCs
<1>4. job'[r] = j BY <1>1, <1>2 DEF TargetTypes
<1>5. job' \in [Refs -> JobRecord] /\ \A s \in Refs \ {r} : job'[s] = job[s] BY <1>1, <1>2, <1>3 DEF TargetTypes
<1> HIDE DEF j
<1>6. TargetTypes' BY <1>1, <1>5 DEF TargetTypes, Resources, Own
<1>7. RefInv(r)'
  <2>1. Working(r)' BY <1>1, <1>3, <1>4 DEF RefInv, Working, Known
  <2>2. Sent(r)' BY <1>3, <1>4 DEF Sent
  <2>3. stamp'[r] \in {0} \cup whole[r] BY <1>1 DEF RefInv
  <2> QED BY <1>1, <2>1, <2>2, <2>3 DEF RefInv, Known
<1> QED BY <1>5, <1>6, <1>7, OneTarget

\* A send that succeeded: the documents are out and the row says so.
LEMMA SentKeeps ==
  ASSUME TargetInv, NEW r \in Refs, job[r].pc = "send", Goto(r, "stamp"),
         NEW c, c = desiredManifest(r, job[r].m),
         whole' = [whole EXCEPT ![r] = @ \cup {job[r].m.sum}], rows' = [rows EXCEPT ![r].cur.ran = c],
         UNCHANGED <<declared, retired>>,
         live' \in [Resources -> Nat], stamp' \in [Refs -> Sums],
         label' \in [Resources -> {Label[s] : s \in Refs} \cup {Unlabelled}], LabelsOwn',
         \A s \in Refs : stamp'[s] \in {0, stamp[s]},
         \A s \in Refs \ {r} : Alone(s) => \A x \in Own(s) : live'[x] = live[x],
         Kind[r] = "kubernetes" => InPlace(r, c)'
  PROVE  TargetInv'
<1>1. /\ TargetTypes /\ RefInv(r) /\ job[r] \in JobRecord
      /\ rows[r] \in [cur : ManifestRecord, prior : ManifestRecord]
  BY DEF TargetInv, TargetTypes
<1>2. /\ c \in Contents /\ (Source[r] # "flat" => c = job[r].goal /\ c = job[r].m.sum)
      /\ job[r].m.sum \in Contents /\ rows[r].cur \in ManifestRecord
      /\ Known(r, [rows[r].cur EXCEPT !.ran = c])
  BY Sending
<1> DEFINE j == [job[r] EXCEPT !.pc = "stamp"]
           k == [rows[r].cur EXCEPT !.ran = c]
           w == [cur |-> k, prior |-> rows[r].prior]
<1>3. job' = [job EXCEPT ![r] = j] BY DEF Goto
<1>4. j \in JobRecord /\ j.m = job[r].m /\ j.goal = job[r].goal /\ j.pc = "stamp" /\ j.clean = job[r].clean
  BY <1>1 DEF JobRecord, JobPCs
<1>5. k \in ManifestRecord /\ k.sum = rows[r].cur.sum /\ k.cap = rows[r].cur.cap BY <1>2 DEF ManifestRecord, Sums
<1>6. rows' = [rows EXCEPT ![r] = w]
  <2>1. [rows[r] EXCEPT !.cur.ran = c] = w BY <1>1 DEF ManifestRecord
  <2> QED BY <2>1
<1>7. w \in [cur : ManifestRecord, prior : ManifestRecord] /\ w.cur = k /\ w.prior = rows[r].prior
  BY <1>1, <1>5
<1> HIDE DEF j, k, w
<1>8. job'[r] = j /\ rows'[r] = w /\ whole'[r] = whole[r] \cup {job[r].m.sum}
  BY <1>1, <1>3, <1>6 DEF TargetTypes
<1>9. job' \in [Refs -> JobRecord] /\ \A s \in Refs \ {r} : job'[s] = job[s]
  BY <1>1, <1>3, <1>4 DEF TargetTypes
<1>10. rows' \in [Refs -> [cur : ManifestRecord, prior : ManifestRecord]] /\ \A s \in Refs \ {r} : rows'[s] = rows[s]
  <2> DEFINE Row == [cur : ManifestRecord, prior : ManifestRecord]
  <2>1. rows \in [Refs -> Row] /\ w \in Row BY <1>1, <1>7 DEF TargetTypes
  <2> HIDE DEF Row
  <2>2. rows' \in [Refs -> Row] /\ \A s \in Refs \ {r} : rows'[s] = rows[s] BY <1>6, <2>1
  <2> QED BY <2>2 DEF Row
<1>11. whole' \in [Refs -> SUBSET Contents] /\ \A s \in Refs \ {r} : whole'[s] = whole[s]
  BY <1>1, <1>2 DEF TargetTypes
<1>12. TargetTypes' BY <1>1, <1>9, <1>10, <1>11 DEF TargetTypes, Resources, Own
<1>13. Working(r)'
  <2>1. /\ Known(r, job[r].m) /\ job[r].m.sum # 0 /\ (Source[r] # "flat" => job[r].goal = job[r].m.sum)
        /\ rows[r].cur.sum = job[r].m.sum /\ rows[r].cur.cap = job[r].m.cap /\ retired[r] = "no"
    BY <1>1 DEF RefInv, Working
  <2> QED BY <2>1, <1>4, <1>5, <1>7, <1>8 DEF Working
<1>14. Sent(r)'
  <2>1. job'[r].m.sum \in whole'[r] BY <1>4, <1>8
  <2>2. ASSUME Kind[r] = "kubernetes", Source[r] # "flat"
        PROVE  \A x \in Docs[r][job'[r].goal] : live'[x] = job'[r].goal
    BY <2>2, <1>2, <1>4, <1>8 DEF InPlace
  <2> QED BY <2>1, <2>2 DEF Sent, InPlace
<1>15. RefInv(r)'
  <2>1. stamp'[r] \in {0} \cup whole'[r] BY <1>1, <1>8 DEF RefInv
  <2>2. Known(r, w.cur) /\ Known(r, w.prior) BY <1>1, <1>2, <1>7 DEF k, RefInv
  <2> QED BY <1>8, <1>13, <1>14, <2>1, <2>2 DEF RefInv
<1> QED BY <1>9, <1>10, <1>11, <1>12, <1>15, OneTarget

\* kubectl apply, with its prune and its errors.
LEMMA SendKeeps == ASSUME TargetInv, NEW r \in Refs, Send(r) PROVE TargetInv'
<1> DEFINE c == desiredManifest(r, job[r].m)
           marked == {x \in Resources : label[x] = Label[r]}
<1>0. job[r].pc = "send" /\ Kind[r] = "kubernetes" BY DEF Send
<1>1. c \in Contents /\ c \in Nat /\ Docs[r][c] \subseteq Own(r) BY <1>0, Sending, TargetsAssumption
<1>2. Prunable(r, c) \subseteq marked BY DEF Prunable
<1>3. CASE /\ Write(r, c, Docs[r][c], Prunable(r, c))
           /\ whole' = [whole EXCEPT ![r] = @ \cup {job[r].m.sum}]
           /\ rows' = [rows EXCEPT ![r].cur.ran = c]
           /\ Goto(r, "stamp") /\ UNCHANGED <<declared, retired>>
  <2>1. PICK d \in Nat, xs \in SUBSET Own(r), gone \in SUBSET marked :
          d = c /\ xs = Docs[r][c] /\ gone = Prunable(r, c)
    BY <1>1, <1>2
  <2>2. Write(r, d, xs, gone) BY <2>1, <1>3
  <2>3. /\ live' \in [Resources -> Nat] /\ stamp' \in [Refs -> Sums] /\ LabelsOwn'
        /\ label' \in [Resources -> {Label[s] : s \in Refs} \cup {Unlabelled}]
        /\ \A s \in Refs : stamp'[s] \in {0, stamp[s]}
        /\ \A s \in Refs \ {r} : Alone(s) => \A x \in Own(s) : live'[x] = live[x]
    BY <2>2, WriteFacts
  <2>4. d = desiredManifest(r, job[r].m) /\ xs = Docs[r][d] BY <2>1
  <2>5. InPlace(r, d)' BY <2>2, <2>4, DocsOwn DEF Write, InPlace
  <2>6. /\ whole' = [whole EXCEPT ![r] = @ \cup {job[r].m.sum}] /\ rows' = [rows EXCEPT ![r].cur.ran = d]
        /\ Goto(r, "stamp") /\ UNCHANGED <<declared, retired>>
    BY <2>1, <1>3
  <2> QED BY <2>3, <2>4, <2>5, <2>6, <1>0, SentKeeps
<1>4. ASSUME NEW xs \in SUBSET Docs[r][c], NEW gone \in SUBSET Prunable(r, c), Write(r, c, xs, gone),
             Goto(r, "failed"), UNCHANGED <<declared, retired, rows, whole>>
      PROVE  TargetInv'
  <2> HIDE DEF c
  <2>1. xs \in SUBSET Own(r) /\ gone \subseteq marked BY <1>1, <1>2
  <2>2. /\ live' \in [Resources -> Nat] /\ stamp' \in [Refs -> Sums] /\ LabelsOwn'
        /\ label' \in [Resources -> {Label[s] : s \in Refs} \cup {Unlabelled}]
        /\ \A s \in Refs : stamp'[s] \in {0, stamp[s]}
        /\ \A s \in Refs \ {r} : Alone(s) => \A x \in Own(s) : live'[x] = live[x]
    BY <2>1, <1>1, <1>4, WriteFacts
  <2> QED BY <2>2, <1>0, <1>4, FailedKeeps
<1> QED BY <1>3, <1>4 DEF Send

\* The payload of a file target, whole or cut short.
LEMMA WriteFileKeeps == ASSUME TargetInv, NEW r \in Refs, WriteFile(r) PROVE TargetInv'
<1> DEFINE c == desiredManifest(r, job[r].m)
<1>0. job[r].pc = "send" /\ Kind[r] = "file" /\ UNCHANGED <<declared, retired, label, stamp>> BY DEF WriteFile
<1>1. TargetTypes /\ LabelsOwn /\ c \in Nat /\ Broken \in Nat /\ Main[r] \in Resources /\ Main[r] \in Own(r)
  <2>1. c \in Contents BY <1>0, Sending
  <2>2. c \in Nat BY <2>1, TargetsAssumption
  <2> QED BY <2>2, DocsOwn DEF TargetInv, Broken
<1>2. PICK v \in Nat : live' = [live EXCEPT ![Main[r]] = v]
  <2>1. live[Main[r]] \in Nat BY <1>1 DEF TargetTypes
  <2>2. \E v \in {live[Main[r]], c, Broken} : live' = [live EXCEPT ![Main[r]] = v] BY DEF WriteFile
  <2> HIDE DEF c
  <2> QED BY <2>1, <2>2, <1>1
<1>3. live' \in [Resources -> Nat] /\ \A x \in Resources \ {Main[r]} : live'[x] = live[x]
  BY <1>1, <1>2 DEF TargetTypes
<1>4. \A s \in Refs \ {r} : \A x \in Own(s) : live'[x] = live[x] BY <1>1, <1>3, DocsOwn
<1>5. LabelsOwn' BY <1>0, <1>1 DEF LabelsOwn
<1>6. /\ stamp' \in [Refs -> Sums] /\ \A s \in Refs : stamp'[s] \in {0, stamp[s]}
      /\ label' \in [Resources -> {Label[s] : s \in Refs} \cup {Unlabelled}]
  BY <1>0, <1>1 DEF TargetTypes
<1>7. CASE /\ whole' = [whole EXCEPT ![r] = @ \cup {job[r].m.sum}]
           /\ rows' = [rows EXCEPT ![r].cur.ran = c] /\ Goto(r, "stamp")
  <2> HIDE DEF c
  <2>1. c = desiredManifest(r, job[r].m) BY DEF c
  <2> QED BY <2>1, <1>0, <1>3, <1>4, <1>5, <1>6, <1>7, SentKeeps
<1>8. CASE Goto(r, "failed") /\ UNCHANGED <<rows, whole>>
  BY <1>0, <1>3, <1>4, <1>5, <1>6, <1>8, FailedKeeps
<1> QED BY <1>7, <1>8 DEF WriteFile

\* The stamp, written, half-written or refused.
LEMMA StampKeeps == ASSUME TargetInv, NEW r \in Refs, Stamp(r) PROVE TargetInv'
<1>0. job[r].pc = "stamp" /\ UNCHANGED <<declared, retired, live, label, rows, whole>> BY DEF Stamp
<1>1. TargetTypes /\ LabelsOwn /\ RefInv(r) /\ job[r] \in JobRecord BY DEF TargetInv, TargetTypes
<1>2. job[r].m.sum \in Contents /\ job[r].m.sum \in whole[r]
  BY <1>0, <1>1, Sending DEF RefInv, Sent
<1>3. PICK v \in Sums : (stamp' = stamp \/ stamp' = [stamp EXCEPT ![r] = v]) /\ v \in {0, job[r].m.sum}
  <2>1. stamp' = stamp \/ \E v \in {0, job[r].m.sum} : stamp' = [stamp EXCEPT ![r] = v]
    BY DEF Stamp
  <2>2. 0 \in Sums /\ job[r].m.sum \in Sums BY <1>2 DEF Sums
  <2> QED BY <2>1, <2>2
<1>4. /\ stamp' \in [Refs -> Sums] /\ \A s \in Refs \ {r} : stamp'[s] = stamp[s]
      /\ stamp'[r] \in {0, stamp[r]} \/ stamp'[r] \in whole[r]
  BY <1>1, <1>2, <1>3 DEF TargetTypes
<1>5. LabelsOwn' BY <1>0, <1>1 DEF LabelsOwn
<1>6. CASE Goto(r, "failed")
  BY <1>0, <1>1, <1>4, <1>5, <1>6, FailedKeeps DEF TargetTypes
<1>7. CASE Goto(r, "done")
  <2> DEFINE j == [job[r] EXCEPT !.pc = "done"]
  <2>1. j \in JobRecord /\ j.m = job[r].m /\ j.goal = job[r].goal /\ j.pc = "done" /\ j.clean = job[r].clean
    BY <1>1 DEF JobRecord, JobPCs
  <2>2. job' = [job EXCEPT ![r] = j] BY <1>7 DEF Goto
  <2> HIDE DEF j
  <2>3. job'[r] = j /\ job' \in [Refs -> JobRecord] /\ \A s \in Refs \ {r} : job'[s] = job[s]
    BY <1>1, <2>1, <2>2 DEF TargetTypes
  <2>4. TargetTypes' BY <1>0, <1>1, <1>4, <2>3 DEF TargetTypes, Resources, Own
  <2>5. Working(r)' BY <1>0, <1>1, <2>1, <2>3 DEF RefInv, Working
  <2>6. Sent(r)' BY <1>0, <1>1, <2>1, <2>3 DEF RefInv, Sent, InPlace
  <2>7. RefInv(r)' BY <1>0, <1>1, <1>4, <2>5, <2>6 DEF RefInv
  <2> QED BY <1>0, <1>4, <1>5, <2>3, <2>4, <2>7, OneTarget
<1> QED BY <1>6, <1>7 DEF Stamp

\* Somebody edits or deletes a resource by hand.
LEMMA EditKeeps == ASSUME TargetInv, NEW r \in Refs, NEW x \in Resources, EditLive(r, x) PROVE TargetInv'
<1>0. x \in Own(r) /\ UNCHANGED <<declared, retired, rows, whole>> BY DEF EditLive
<1>1. TargetTypes /\ LabelsOwn /\ RefInv(r) /\ job[r] \in JobRecord BY DEF TargetInv, TargetTypes
<1>2. PICK v \in {Absent, Broken} :
        /\ live' = [live EXCEPT ![x] = v]
        /\ stamp' = [stamp EXCEPT ![r] = IF x = Main[r] /\ v = Absent THEN 0 ELSE @]
        /\ label' = [label EXCEPT ![x] = IF v = Absent THEN Unlabelled ELSE @]
  BY DEF EditLive
<1>3. v \in Nat BY DEF Absent, Broken
<1>4. live' \in [Resources -> Nat] /\ \A y \in Resources \ {x} : live'[y] = live[y] BY <1>1, <1>2, <1>3 DEF TargetTypes
<1>5. stamp' \in [Refs -> Sums] /\ \A s \in Refs : stamp'[s] \in {0, stamp[s]} BY <1>1, <1>2 DEF TargetTypes, Sums
<1>6. label' \in [Resources -> {Label[s] : s \in Refs} \cup {Unlabelled}] BY <1>1, <1>2 DEF TargetTypes
<1>7. LabelsOwn'
  <2>1. \A y \in Resources : label'[y] \in {label[y], Unlabelled} BY <1>1, <1>2 DEF TargetTypes
  <2> QED BY <2>1, <1>1, TargetsAssumption DEF LabelsOwn
<1> DEFINE j == [job[r] EXCEPT !.clean = FALSE]
<1>8. j \in JobRecord /\ j.m = job[r].m /\ j.goal = job[r].goal /\ j.pc = job[r].pc /\ j.clean = FALSE
  BY <1>1 DEF JobRecord
<1>9. job' = [job EXCEPT ![r] = j] BY DEF EditLive
<1> HIDE DEF j
<1>10. job'[r] = j /\ job' \in [Refs -> JobRecord] /\ \A s \in Refs \ {r} : job'[s] = job[s]
  BY <1>1, <1>8, <1>9 DEF TargetTypes
<1>11. TargetTypes' BY <1>0, <1>1, <1>4, <1>5, <1>6, <1>10 DEF TargetTypes, Resources, Own
<1>12. Working(r)' BY <1>0, <1>1, <1>8, <1>10 DEF RefInv, Working
<1>13. Sent(r)' BY <1>0, <1>1, <1>8, <1>10 DEF RefInv, Sent
<1>14. RefInv(r)' BY <1>0, <1>1, <1>5, <1>12, <1>13 DEF RefInv
<1>15. \A s \in Refs \ {r} : \A y \in Own(s) : live'[y] = live[y] BY <1>0, <1>4, DocsOwn
<1> QED BY <1>0, <1>5, <1>7, <1>10, <1>11, <1>14, <1>15, OneTarget

\* kubectl delete by label, of a target without an apply in progress.
LEMMA ReapKeeps == ASSUME TargetInv, NEW r \in Refs, ReapTarget(r) PROVE TargetInv'
<1>0. UNCHANGED <<declared, rows, job, whole>> /\ retired[r] = "absent" BY DEF ReapTarget
<1>1. TargetTypes /\ LabelsOwn /\ RefInv(r) BY DEF TargetInv
<1>2. job[r].pc = "idle" BY <1>0, <1>1 DEF RefInv, Working
<1>3. /\ live' \in [Resources -> Nat]
      /\ label' \in [Resources -> {Label[s] : s \in Refs} \cup {Unlabelled}]
      /\ stamp' \in [Refs -> Sums] /\ \A s \in Refs : stamp'[s] \in {0, stamp[s]}
      /\ LabelsOwn'
      /\ \A s \in Refs \ {r} : Alone(s) => \A x \in Own(s) : live'[x] = live[x]
  <2> DEFINE gone == {x \in Resources : label[x] = Label[r]}
  <2>1. Write(r, 0, {}, gone) BY DEF ReapTarget
  <2> HIDE DEF gone
  <2>2. gone \subseteq {x \in Resources : label[x] = Label[r]} BY DEF gone
  <2> QED BY <2>1, <2>2, WriteFacts
<1>4. retired' \in [Refs -> {"no", "absent", "reaped"}] /\ \A s \in Refs \ {r} : retired'[s] = retired[s]
  BY <1>1 DEF ReapTarget, TargetTypes
<1>5. TargetTypes' BY <1>0, <1>1, <1>3, <1>4 DEF TargetTypes, Resources, Own
<1>6. RefInv(r)' BY <1>0, <1>1, <1>2, <1>3 DEF RefInv, Working, Sent
<1> QED BY <1>0, <1>3, <1>4, <1>5, <1>6, OneTarget

\* Every step of the targets keeps the invariant.
LEMMA TargetInvNext == TargetInv /\ [TargetsNext]_targetVars => TargetInv'
<1> SUFFICES ASSUME TargetInv, [TargetsNext]_targetVars PROVE TargetInv' OBVIOUS
<1>1. CASE UNCHANGED targetVars
  <2>1. TargetTypes' /\ LabelsOwn' BY <1>1 DEF TargetInv, TargetTypes, LabelsOwn, targetVars, Own, Resources
  <2>2. \A r \in Refs : RefInv(r)' BY <1>1, Undisturbed DEF targetVars
  <2> QED BY <2>1, <2>2 DEF TargetInv
<1>2. CASE TargetsNext
  BY <1>2, PlanKeeps, RollbackKeeps, ReadStampKeeps, DiffKeeps, SendKeeps, WriteFileKeeps, StampKeeps, RetryKeeps,
     EndKeeps, CommitKeeps, ReapKeeps, EditKeeps
  DEF TargetsNext, ApplyStep
<1> QED BY <1>1, <1>2

\* For any number of targets, faults and edits, a target reports no checksum
\* whose documents were not once all sent (cluster_kubectl.go:189).
THEOREM StampFollows == TargetsSpec => []StampNeverLeads
<1>1. TargetInv => StampNeverLeads BY DEF TargetInv, RefInv, StampNeverLeads
<1> QED BY <1>1, TargetInvInit, TargetInvNext, PTL DEF TargetsSpec

\* For any number of targets, commits, faults, retries and rollbacks, an apply to a
\* target alone with its label that reports success left its cluster with what was
\* asked for
\* (kubernetes.go:100, 150).
THEOREM SuccessHolds == TargetsSpec => []SuccessIsInPlace
<1>1. TargetInv => SuccessIsInPlace BY DEF TargetInv, RefInv, Sent, SuccessIsInPlace
<1> QED BY <1>1, TargetInvInit, TargetInvNext, PTL DEF TargetsSpec

\* A step that moves a target's job or retirement is that target's own, and
\* changes no resource of a target with another label.
LEMMA OwnResourcesOnly ==
  ASSUME TargetInv, TargetsNext, NEW r \in Refs, job'[r] # job[r] \/ retired'[r] # retired[r],
         NEW x \in Resources \ Kin(r)
  PROVE  live'[x] = live[x]
<1>0. TargetTypes /\ x \notin Own(r) BY KinOwn DEF TargetInv
<1>1. PICK s \in Refs :
        \/ Plan(s) \/ RollbackTarget(s) \/ ApplyStep(s) \/ CrashJob(s)
        \/ CommitSource(s) \/ RetireConfig(s) \/ ReapTarget(s)
        \/ \E y \in Resources : EditLive(s, y)
  BY DEF TargetsNext
<1>2. s = r
  <2>1. \A t \in Refs \ {s} : job'[t] = job[t]
    BY <1>0, <1>1 DEF TargetTypes, Plan, RollbackTarget, ApplyStep, ReadStamp, Diff, Send, WriteFile, Stamp, Retry,
       GiveUp, CrashJob, CommitSource, RetireConfig, ReapTarget, EditLive, Begin, Goto
  <2>2. \A t \in Refs \ {s} : retired'[t] = retired[t]
    BY <1>0, <1>1 DEF TargetTypes, Plan, RollbackTarget, ApplyStep, ReadStamp, Diff, Send, WriteFile, Stamp, Retry,
       GiveUp, CrashJob, CommitSource, RetireConfig, ReapTarget, EditLive
  <2> QED BY <2>1, <2>2
<1>3. CASE Send(r)
  <2> DEFINE c == desiredManifest(r, job[r].m)
  <2>1. c \in Nat /\ Docs[r][c] \subseteq Own(r) BY <1>3, Sending, TargetsAssumption DEF Send
  <2>2. Prunable(r, c) \subseteq {y \in Resources : label[y] = Label[r]} BY DEF Prunable
  <2>3. \E xs \in SUBSET Docs[r][c], gone \in SUBSET Prunable(r, c) : Write(r, c, xs, gone) BY <1>3 DEF Send
  <2> HIDE DEF c
  <2>4. \E xs \in SUBSET Own(r), gone \in SUBSET {y \in Resources : label[y] = Label[r]} : Write(r, c, xs, gone)
    BY <2>1, <2>2, <2>3
  <2> QED BY <2>1, <2>4, WriteFacts
<1>4. CASE ReapTarget(r)
  <2> DEFINE gone == {y \in Resources : label[y] = Label[r]}
  <2>1. Write(r, 0, {}, gone) BY <1>4 DEF ReapTarget
  <2> HIDE DEF gone
  <2>2. gone \subseteq {y \in Resources : label[y] = Label[r]} BY DEF gone
  <2> QED BY <2>1, <2>2, WriteFacts
<1>5. CASE WriteFile(r)
  BY <1>0, <1>5, DocsOwn DEF WriteFile, TargetTypes
<1>6. CASE \E y \in Resources : EditLive(r, y)
  BY <1>0, <1>6 DEF EditLive, TargetTypes
<1>7. CASE \/ Plan(r) \/ RollbackTarget(r) \/ ReadStamp(r) \/ Diff(r) \/ Stamp(r) \/ Retry(r) \/ GiveUp(r)
           \/ CrashJob(r) \/ CommitSource(r) \/ RetireConfig(r)
  BY <1>7 DEF Plan, RollbackTarget, ReadStamp, Diff, Stamp, Retry, GiveUp, CrashJob, CommitSource, RetireConfig
<1> QED BY <1>1, <1>2, <1>3, <1>4, <1>5, <1>6, <1>7 DEF ApplyStep

\* For any number of targets that share a namespace, and whatever their labels come
\* to, neither a prune nor a reap, nor any other step of a target, deletes a resource
\* of a target with another label (prune.go:20, 73, 99).
THEOREM NoForeignDelete == TargetsSpec => DeletesOnlyOwn
<1>1. TargetInv /\ [TargetsNext]_targetVars =>
        [\A r \in Refs : job'[r] # job[r] \/ retired'[r] # retired[r] =>
           \A x \in Resources \ Kin(r) : live[x] # Absent => live'[x] # Absent]_targetVars
  BY OwnResourcesOnly
<1> QED BY <1>1, TargetInvInit, TargetInvNext, PTL DEF TargetsSpec, DeletesOnlyOwn
=============================================================================
