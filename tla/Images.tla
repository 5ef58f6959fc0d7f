-------------------------------- MODULE Images --------------------------------
(***************************************************************************)
(* Image automation: the phase of a tick in which internal/reconcile/       *)
(* imageauto.go scans the registry for every config and writes newer images *)
(* back to Git, by a push to the tracked branch or by a pull request.       *)
(*                                                                          *)
(* Between two steps of a tick the registry publishes, people edit the      *)
(* tracked branch, CI checks proposals, and proposals are merged or closed. *)
(* A Git, registry or GitHub call may fail and the process may restart.     *)
(***************************************************************************)
EXTENDS Naturals, FiniteSets

CONSTANTS
    Configs,       \* the config files, 1..n, in the order they are processed
    Setups,        \* what the repo may start from: [policy, refs, tags, spare]: each config's
                   \* [mode, writeback, pattern] and ref, the registry's tag -> digest, and
                   \* bounds on pushes of images, acts of people and failures
    Tags,          \* tags of the repository: [v |-> <<major, minor, patch>>, pre]
    Pages,         \* how the registry pages its tag list: a sequence of sets of tags
    Pushable,      \* what may be pushed to the registry: pairs of a tag and a digest
    PageCap        \* pageCap

NoDigest == 0
Latest   == [v |-> <<>>, pre |-> FALSE]   \* a tag that is no version
NoTag    == [v |-> <<0>>, pre |-> FALSE]
NoRef    == [tag |-> NoTag, digest |-> NoDigest]
NoChange == [ref |-> NoRef, rev |-> 0, base |-> NoRef]

ASSUME ImagesAssumption ==
    /\ Configs = 1..Cardinality(Configs)
    /\ IsFiniteSet(Tags) /\ NoTag \notin Tags
    /\ \A t \in Tags : t.v # <<>> => \A i \in 1..3 : t.v[i] \in Nat
    /\ \A p \in Pushable : p[1] \in Tags /\ p[2] \in Nat \ {NoDigest}
    /\ PageCap \in Nat /\ DOMAIN Pages \subseteq Nat
    /\ \A s \in Setups : /\ DOMAIN s.policy = Configs
                          /\ s.refs \in [Configs -> [tag : Tags, digest : Nat]]
                          /\ s.tags \in [Tags -> Nat]
                          /\ {s.spare[k] : k \in DOMAIN s.spare} \subseteq Nat

VARIABLES
    policy,      \* each config's policy
    published,   \* the registry: tag -> digest, NoDigest if not published
    tracked,     \* the tracked branch at the remote: config -> [ref, rev]
    proposal,    \* the proposal branches: config -> config -> change or NoChange
    pr,          \* config -> does its pull request stand open
    checked,     \* config -> have its checks passed on the branch as it is
    clone,       \* the checkout: [tree, branch, on, synced, unpushed]
    bump,        \* the tick in progress
    decided,     \* the outcome of each config in the tick in progress
    deployed,    \* what the latest tick gave Reconcile to deploy
    carried,     \* history: refs the tracked branch has carried
    offered,     \* history: tags published when this config's scan began
    spareActs    \* what is left of the bounds

imageVars == <<policy, published, tracked, proposal, pr, checked, clone, bump,
               decided, deployed, carried, offered, spareActs>>
remote == <<tracked, proposal, pr, checked>>
verdicts == <<decided, deployed>>

(***************************************************************************)
(* Choosing a tag.                                                          *)
(***************************************************************************)
Version(t) == t.v # <<>>
IsSemver(t) == Version(t) /\ ~t.pre

greater(a, b) == \/ a[1] > b[1]
                 \/ a[1] = b[1] /\ a[2] > b[2]
                 \/ a[1] = b[1] /\ a[2] = b[2] /\ a[3] > b[3]

\* The line of versions a mode stays on.
OnLine(mode, v, cur) == /\ mode \in {"minor", "patch"} => v[1] = cur[1]
                        /\ mode = "patch" => v[2] = cur[2]

Highest(S) == CHOOSE t \in S : \A u \in S : ~greater(u.v, t.v)

SelectTag(cur, available, pol) ==
    LET newer == {t \in available \cap pol.pattern :
                     IsSemver(t) /\ OnLine(pol.mode, t.v, cur.v) /\ greater(t.v, cur.v)}
    IN  IF newer = {} THEN NoTag ELSE Highest(newer)

\* The highest version whose digest is the pinned one, among those the registry
\* would answer for.
semverForDigest(pinned, available, pol, unresolved) ==
    LET same == {t \in (available \cap pol.pattern) \ unresolved :
                    IsSemver(t) /\ published[t] = pinned}
    IN  IF same = {} THEN NoTag ELSE Highest(same)

(***************************************************************************)
(* A tick.  c is the config it is at, `loaded' the configs as they were     *)
(* read; the other fields belong to Process of config c.                    *)
(***************************************************************************)
NoScan == [page |-> 1, listed |-> {}, ref |-> NoRef, resolved |-> NoRef, pinned |-> NoRef]
Idle   == [pc |-> "idle", c |-> 0, loaded |-> <<>>, scan |-> NoScan]

Cur == bump.loaded[bump.c].ref
Pol == policy[bump.c]
Published == {t \in Tags : published[t] # NoDigest}

\* Process returns and the watcher goes on with the next config.
Decide(o, ref) ==
    /\ decided' = [decided EXCEPT ![bump.c] = o]
    /\ deployed' = [deployed EXCEPT ![bump.c] = ref]
    /\ bump' = [bump EXCEPT !.pc = "next", !.scan = NoScan]

Step(pc, s) == bump' = [bump EXCEPT !.pc = pc, !.scan = s] /\ UNCHANGED verdicts

Fault == /\ spareActs.faults > 0
         /\ spareActs' = [spareActs EXCEPT !.faults = @ - 1]

\* A step that fails makes the verdict an error and deploys what was loaded.
Fails == Fault /\ Decide("error", Cur)

ImagesInit ==
    /\ \E s \in Setups : /\ policy = s.policy /\ published = s.tags /\ spareActs = s.spare
                         /\ tracked = [c \in Configs |-> [ref |-> s.refs[c], rev |-> 0]]
    /\ proposal = [c \in Configs |-> [d \in Configs |-> NoChange]]
    /\ pr = [c \in Configs |-> FALSE] /\ checked = [c \in Configs |-> FALSE]
    /\ clone = [tree |-> tracked, branch |-> tracked, on |-> 0, synced |-> TRUE, unpushed |-> {}]
    /\ bump = Idle
    /\ decided = [c \in Configs |-> "none"]
    /\ deployed = [c \in Configs |-> tracked[c].ref]
    /\ carried = [c \in Configs |-> {tracked[c].ref}]
    /\ offered = {}

(***************************************************************************)
(* Pull: fetch and reset --hard, which moves whatever branch HEAD is on.    *)
(***************************************************************************)
Pulled == IF clone.on = 0
          THEN [tree |-> tracked, branch |-> tracked, on |-> 0, synced |-> TRUE, unpushed |-> {}]
          ELSE [clone EXCEPT !.tree = tracked]

Pull ==
    /\ bump.pc = "idle"
    /\ clone' = Pulled
    /\ bump' = [pc |-> "next", c |-> 0, loaded |-> tracked, scan |-> NoScan]
    /\ UNCHANGED <<policy, published, remote, verdicts, carried, offered, spareActs>>

NextConfig ==
    /\ bump.pc = "next"
    /\ IF bump.c + 1 \in Configs
       THEN bump' = [bump EXCEPT !.c = @ + 1, !.pc = "resolve"] /\ UNCHANGED decided
       ELSE bump' = Idle /\ decided' = [c \in Configs |-> "none"]
    /\ offered' = {}
    /\ UNCHANGED <<policy, published, remote, clone, deployed, carried, spareActs>>

\* The head of Process and of resolve.  An unpinned tag that is no version is
\* reported current.
Resolve ==
    /\ bump.pc = "resolve"
    /\ \/ Pol.mode = "none" /\ Decide("disabled", Cur)
       \/ Pol.mode = "digest" /\ Step("digest", [NoScan EXCEPT !.pinned = [Cur EXCEPT !.tag = NoTag]])
       \/ /\ Pol.mode \notin {"none", "digest"}
          /\ IF IsSemver(Cur.tag)
             THEN Step("list", [NoScan EXCEPT !.pinned = [Cur EXCEPT !.digest = NoDigest]])
             ELSE IF Cur.digest # NoDigest
             THEN Step("list", [NoScan EXCEPT !.pinned = [Cur EXCEPT !.tag = NoTag]])
             ELSE Decide("current", Cur)
    /\ offered' = Published
    /\ UNCHANGED <<policy, published, remote, clone, carried, spareActs>>

requireCurrentIdentities(s) ==
    s.resolved = NoRef \/ s.pinned = NoRef \/ s.resolved = s.pinned

\* Scanner.Digest of the mutable tag.
DigestMode ==
    /\ bump.pc = "digest"
    /\ LET d == published[Cur.tag]
           s == [bump.scan EXCEPT !.resolved = [tag |-> NoTag, digest |-> d]]
       IN  \/ d = NoDigest /\ Decide("error", Cur) /\ UNCHANGED spareActs
           \/ d # NoDigest /\ d = Cur.digest /\ Decide("current", Cur) /\ UNCHANGED spareActs
           \/ d # NoDigest /\ d # Cur.digest /\ UNCHANGED spareActs
              /\ Step("patch", [s EXCEPT !.ref = [tag |-> Cur.tag, digest |-> d]])
           \/ Fails
    /\ UNCHANGED <<policy, published, remote, clone, carried, offered>>

\* Mutant of MorePages: the first page is all there is.
FirstPageOnly(page) == FALSE

MorePages(page) == page + 1 \in DOMAIN Pages /\ page < PageCap

\* Scanner.Tags, a page at a time.
ListTags ==
    /\ bump.pc = "list"
    /\ LET s == [bump.scan EXCEPT !.listed = @ \cup (Published \cap Pages[bump.scan.page])]
       IN  \/ /\ IF MorePages(s.page) THEN Step("list", [s EXCEPT !.page = @ + 1]) ELSE Step("select", s)
              /\ UNCHANGED spareActs
           \/ Fails
    /\ UNCHANGED <<policy, published, remote, clone, carried, offered>>

\* selectSemver up to the digest of the tag it selects.
SelectSemver ==
    /\ bump.pc = "select" /\ IsSemver(Cur.tag)
    /\ LET t == SelectTag(Cur.tag, bump.scan.listed, Pol)
           s == [bump.scan EXCEPT !.resolved = [tag |-> IF t = NoTag THEN Cur.tag ELSE t, digest |-> NoDigest]]
       IN  IF t = NoTag THEN Decide("current", Cur) ELSE Step("pin", s)
    /\ UNCHANGED <<policy, published, remote, clone, carried, offered, spareActs>>

\* Mutant of Unpinnable: a pin may be dropped when the digest cannot be resolved.
UnpinsFreely == TRUE

\* pinnedRef falls back to the plain tag unless the current ref has a pin.
Unpinnable == Cur.digest = NoDigest

PinnedRef ==
    /\ bump.pc = "pin"
    /\ LET t == bump.scan.resolved.tag
       IN  \/ /\ Step("patch", [bump.scan EXCEPT !.ref = [tag |-> t, digest |-> published[t]]])
              /\ UNCHANGED spareActs
           \/ /\ Fault
              /\ IF Unpinnable
                 THEN Step("patch", [bump.scan EXCEPT !.ref = [tag |-> t, digest |-> NoDigest]])
                 ELSE Decide("error", Cur)
    /\ UNCHANGED <<policy, published, remote, clone, carried, offered>>

\* migrate: a pinned ref whose tag is no version adopts the version that has its digest.
Migrate ==
    /\ bump.pc = "select" /\ ~IsSemver(Cur.tag)
    /\ \E unresolved \in SUBSET bump.scan.listed :
         /\ IF unresolved = {} THEN UNCHANGED spareActs ELSE Fault
         /\ LET t == semverForDigest(Cur.digest, bump.scan.listed, Pol, unresolved)
            IN  IF t = NoTag THEN Decide("error", Cur)
                ELSE Step("patch", [bump.scan EXCEPT !.resolved = [tag |-> t, digest |-> NoDigest],
                                                     !.ref = [tag |-> t, digest |-> Cur.digest]])
    /\ UNCHANGED <<policy, published, remote, clone, carried, offered>>

(***************************************************************************)
(* Writing the bump back.  The file is read again from the checkout.        *)
(***************************************************************************)
Patched == [clone.tree[bump.c] EXCEPT !.ref = bump.scan.ref]

Patch ==
    /\ bump.pc = "patch"
    /\ IF Patched = clone.tree[bump.c]
       THEN Decide(IF requireCurrentIdentities(bump.scan) THEN "pinned" ELSE "error", Cur)
       ELSE Step(IF Pol.writeback = "push" THEN "commit" ELSE "match", bump.scan)
    /\ UNCHANGED <<policy, published, remote, clone, carried, offered, spareActs>>

Written == [clone.tree EXCEPT ![bump.c] = Patched]

\* CommitFile on the branch HEAD is on; a failure may leave the file written and
\* staged, and the next commit takes all that is staged.
CommitFile ==
    /\ bump.pc = "commit"
    /\ \/ /\ clone' = [clone EXCEPT !.tree = Written,
                                    !.branch = IF clone.on = 0 THEN Written ELSE @,
                                    !.unpushed = IF clone.on = 0
                                                 THEN {d \in Configs : d \in @ \/ Written[d] # clone.branch[d]} ELSE @]
          /\ Step("push", bump.scan) /\ UNCHANGED spareActs
       \/ clone' \in {clone, [clone EXCEPT !.tree = Written]} /\ Fails
    /\ UNCHANGED <<policy, published, remote, carried, offered>>

Carry(t) == [c \in Configs |-> carried[c] \cup {t[c].ref}]

\* Mutant of PushFailed: the error of push is dropped.
PushFailedQuietly == Decide("bumped", bump.scan.ref)

PushFailed == Decide("error", Cur)

\* Push sends the local tracked branch, whatever HEAD is on.
Push ==
    /\ bump.pc = "push"
    /\ \/ /\ clone.synced
          /\ tracked' = clone.branch /\ carried' = Carry(clone.branch)
          /\ clone' = [clone EXCEPT !.unpushed = {}]
          /\ Decide("bumped", bump.scan.ref) /\ UNCHANGED spareActs
       \/ ~clone.synced /\ PushFailed /\ UNCHANGED <<tracked, carried, clone, spareActs>>
       \/ Fault /\ PushFailed /\ UNCHANGED <<tracked, carried, clone>>
    /\ UNCHANGED <<policy, published, proposal, pr, checked, offered>>

RemoteFileMatches(c) == proposal[c][c] # NoChange /\ Patched = [ref |-> proposal[c][c].ref, rev |-> proposal[c][c].rev]

\* A fetch that fails reads as no match.
Match ==
    /\ bump.pc = "match"
    /\ \/ Step(IF RemoteFileMatches(bump.c) THEN "ensure" ELSE "branch", bump.scan) /\ UNCHANGED spareActs
       \/ Fault /\ Step("branch", bump.scan)
    /\ UNCHANGED <<policy, published, remote, clone, carried, offered>>

\* CommitFileOnBranch: checkout -B from the local tracked branch, commit, and back.
\* It may fail at the checkout, in the commit, or on the way back to the branch.
CommitFileOnBranch ==
    /\ bump.pc = "branch"
    /\ LET back == [clone EXCEPT !.tree = clone.branch, !.on = 0]
           left == [clone EXCEPT !.tree = [clone.branch EXCEPT ![bump.c] = Patched], !.on = bump.c]
       IN  \/ /\ clone' = back /\ UNCHANGED spareActs
              /\ Step(IF Patched = clone.branch[bump.c] THEN "ensure" ELSE "pushBranch",
                      [bump.scan EXCEPT !.ref = Patched.ref])
           \/ clone' \in {clone, back, left} /\ Fails
    /\ UNCHANGED <<policy, published, remote, carried, offered>>

\* What the branch changes against the tracked branch: its config, and whatever
\* the local tracked branch has and could not push.
Change(file, base) == [ref |-> file.ref, rev |-> file.rev, base |-> base.ref]
Proposed(c) == [d \in Configs |->
                  IF d = c THEN Change([clone.branch[c] EXCEPT !.ref = bump.scan.ref], clone.branch[c])
                  ELSE IF d \in clone.unpushed THEN Change(clone.branch[d], tracked[d]) ELSE NoChange]

PushBranch ==
    /\ bump.pc = "pushBranch"
    /\ \/ /\ proposal' = [proposal EXCEPT ![bump.c] = Proposed(bump.c)]
          /\ checked' = [checked EXCEPT ![bump.c] = FALSE]
          /\ Step("open", bump.scan) /\ UNCHANGED spareActs
       \/ Fails /\ UNCHANGED <<proposal, checked>>
    /\ UNCHANGED <<policy, published, tracked, pr, clone, carried, offered>>

OpenPullRequest(o) ==
    \/ /\ pr' = [pr EXCEPT ![bump.c] = TRUE]
       /\ checked' = [checked EXCEPT ![bump.c] = pr[bump.c] /\ @]
       /\ Decide(o, Cur) /\ UNCHANGED spareActs
    \/ Fails /\ UNCHANGED <<pr, checked>>

Propose ==
    /\ bump.pc = "open" /\ OpenPullRequest("proposed")
    /\ UNCHANGED <<policy, published, tracked, proposal, clone, carried, offered>>

\* Mutant of EnsureProposal: a branch that carries the bump is taken for a proposal.
EnsureNothing ==
    /\ bump.pc = "ensure" /\ Decide("pending", Cur)
    /\ UNCHANGED <<policy, published, remote, clone, carried, offered, spareActs>>

EnsureProposal ==
    /\ bump.pc = "ensure" /\ OpenPullRequest("pending")
    /\ UNCHANGED <<policy, published, tracked, proposal, clone, carried, offered>>

(***************************************************************************)
(* Everyone else.                                                           *)
(***************************************************************************)
Publish(t, d) ==
    /\ spareActs.published > 0 /\ published[t] # d
    /\ published' = [published EXCEPT ![t] = d]
    /\ spareActs' = [spareActs EXCEPT !.published = @ - 1]
    /\ UNCHANGED <<policy, remote, clone, bump, verdicts, carried, offered>>

Edited == /\ spareActs.edits > 0
          /\ spareActs' = [spareActs EXCEPT !.edits = @ - 1]

\* Someone changes another line of a config.
Edit(c) ==
    /\ Edited
    /\ tracked' = [tracked EXCEPT ![c].rev = @ + 1]
    /\ clone' = [clone EXCEPT !.synced = FALSE]
    /\ UNCHANGED <<policy, published, proposal, pr, checked, bump, verdicts, carried, offered>>

Close(c) ==
    /\ Edited /\ pr[c] /\ pr' = [pr EXCEPT ![c] = FALSE]
    /\ UNCHANGED <<policy, published, tracked, proposal, checked, clone, bump, verdicts, carried, offered>>

Checks(c) ==
    /\ pr[c] /\ ~checked[c] /\ checked' = [checked EXCEPT ![c] = TRUE]
    /\ UNCHANGED <<policy, published, tracked, proposal, pr, clone, bump, verdicts, carried, offered, spareActs>>

\* A three-way merge: what the branch changes, where the tracked branch still has
\* what the branch started from.
Merge(c) ==
    LET p == proposal[c]
        merged == [d \in Configs |-> IF p[d] = NoChange THEN tracked[d] ELSE [tracked[d] EXCEPT !.ref = p[d].ref]]
    IN  /\ pr[c] /\ checked[c]
        /\ \A d \in Configs : p[d] = NoChange \/ tracked[d].ref \in {p[d].base, p[d].ref}
        /\ tracked' = merged /\ carried' = Carry(merged)
        /\ pr' = [pr EXCEPT ![c] = FALSE]
        /\ clone' = [clone EXCEPT !.synced = FALSE]
        /\ UNCHANGED <<policy, published, proposal, checked, bump, verdicts, offered, spareActs>>

\* A restart clones afresh and forgets the tick.
RestartWatcher ==
    /\ Fault
    /\ clone' = [tree |-> tracked, branch |-> tracked, on |-> 0, synced |-> TRUE, unpushed |-> {}]
    /\ bump' = Idle /\ decided' = [c \in Configs |-> "none"]
    /\ UNCHANGED <<policy, published, remote, deployed, carried, offered>>

TickStep == \/ Pull \/ NextConfig \/ Resolve \/ DigestMode \/ ListTags \/ SelectSemver
            \/ PinnedRef \/ Migrate \/ Patch \/ CommitFile \/ Push \/ Match
            \/ CommitFileOnBranch \/ PushBranch \/ Propose \/ EnsureProposal

ImagesNext == \/ TickStep \/ RestartWatcher
              \/ \E p \in Pushable : Publish(p[1], p[2])
              \/ \E c \in Configs : Edit(c) \/ Close(c) \/ Checks(c) \/ Merge(c)

\* The loop ticks for ever; checks finish and a proposal whose checks have passed
\* is merged, by auto-merge or by a reviewer, if it is left alone long enough.
ImagesFairness == /\ WF_imageVars(TickStep)
                  /\ \A c \in Configs : WF_imageVars(Checks(c)) /\ WF_imageVars(Merge(c))

ImagesSpec == ImagesInit /\ [][ImagesNext]_imageVars /\ ImagesFairness

(***************************************************************************)
(* Properties.                                                              *)
(***************************************************************************)

\* "current" is a checked verdict: no tag that was published when the config's
\* scan began is one its policy would move to (imageauto.go, Process; scan.go, Tags).
CurrentIsNewest ==
    \A c \in Configs :
        (bump.pc = "next" /\ bump.c = c /\ decided[c] = "current"
           /\ policy[c].mode # "digest" /\ IsSemver(bump.loaded[c].ref.tag))
        => SelectTag(bump.loaded[c].ref.tag, offered, policy[c]) = NoTag

\* The cluster never leads Git: what a tick deploys, the tracked branch has carried
\* (imageauto.go, proposeViaPR and the push path of Process).
ClusterFollowsGit == \A c \in Configs : deployed[c] \in carried[c]

\* Automation never moves a config to a lower version and never turns a pinned
\* reference into a mutable one, however registry, people and ticks interleave.
OnlyForward ==
    [][\A c \in Configs :
         LET old == tracked[c].ref
             new == tracked'[c].ref
         IN  /\ old.digest # NoDigest => new.digest # NoDigest
             /\ IsSemver(old.tag) => IsSemver(new.tag) /\ ~greater(old.tag.v, new.tag.v)]_imageVars

\* The tracked branch pins the newest image the policy allows.
Newest(c) == LET r == tracked[c].ref
             IN  CASE policy[c].mode = "none" -> TRUE
                   [] policy[c].mode = "digest" -> r.digest = published[r.tag]
                   [] OTHER -> IsSemver(r.tag) => SelectTag(r.tag, Published, policy[c]) = NoTag

\* An open proposal carries an image, and the tracked branch has since changed the
\* line it changes: a person has to resolve the conflict.
Conflicted(c) == /\ pr[c] /\ proposal[c][c] # NoChange
                 /\ tracked[c].ref \notin {proposal[c][c].base, proposal[c][c].ref}

\* Nothing the registry offers is left behind: once publishing, edits and failures
\* stop, every config comes to pin the newest image its policy allows or has a
\* proposal in conflict that stands open, also when a proposal was closed or never
\* opened before (imageauto.go, ensureProposal).
AdoptsOrConflicts == <>[](\A c \in Configs : Newest(c) \/ Conflicted(c))

\* What repo.go says of the proposal branch, that it is refreshed to the current
\* base: a proposal left behind by the tracked branch does not stay in conflict.
ProposalIsRefreshed == <>[](\A c \in Configs : ~Conflicted(c))

\* What docs/image-automation.md:131-132 says of a semver policy on a pinned reference,
\* that the migration to a version leaves "repo:v1.2.3" without its digest.  It does
\* not hold, and no run checks it: resolve keeps the pin and selectSemver renews it
\* (imageauto.go:331-343, 405-427), which is what OnlyForward relies on.
MigrationUnpins ==
    <>[](\A c \in Configs : policy[c].mode \notin {"none", "digest"} => tracked[c].ref.digest = NoDigest)
================================================================================
