----------------------------- MODULE ImagesProofs -----------------------------
(***************************************************************************)
(* Proofs about image automation, for any number of configs, any registry   *)
(* and any bounds on pushes, edits and failures.                            *)
(*                                                                          *)
(* ScanInv says where a scan has got to: what it is about to write is ahead *)
(* of what was loaded.  GitInv says how the checkout stands to the remote,  *)
(* one way where configs are pushed and another where they are proposed: it *)
(* is inductive only if all configs of a repository write back the same way *)
(* (Uniform), because a checkout left on a proposal branch breaks it for a  *)
(* config that is pushed.  Listing says that the pages read so far are all  *)
(* in the list, which makes "current" a checked verdict.                    *)
(***************************************************************************)
EXTENDS Images, FiniteSetTheorems, WellFoundedInduction, TLAPS

(***************************************************************************)
(* Versions.                                                                *)
(***************************************************************************)

\* Forward: a version is not lowered and a pin is not dropped.
Fwd(a, b) ==
    /\ a.digest # NoDigest => b.digest # NoDigest
    /\ IsSemver(a.tag) => IsSemver(b.tag) /\ ~greater(a.tag.v, b.tag.v)

ImageRef == [tag : Tags, digest : Nat]

\* The parts of a version are numbers.
LEMMA VersionType ==
    ASSUME NEW t \in Tags, IsSemver(t) PROVE t.v[1] \in Nat /\ t.v[2] \in Nat /\ t.v[3] \in Nat
<1>1. \A i \in 1..3 : t.v[i] \in Nat
  BY ImagesAssumption DEF IsSemver, Version
<1> QED
  BY <1>1

\* Versions are in a total order.
LEMMA VersionOrder ==
    ASSUME NEW t \in Tags, NEW u \in Tags, NEW w \in Tags, IsSemver(t), IsSemver(u), IsSemver(w)
    PROVE  /\ ~greater(t.v, t.v)
           /\ greater(t.v, u.v) => ~greater(u.v, t.v)
           /\ ~greater(t.v, u.v) /\ ~greater(u.v, w.v) => ~greater(t.v, w.v)
BY VersionType DEF greater

\* Forward is reflexive and transitive.
LEMMA FwdOrder ==
    ASSUME NEW a \in ImageRef, NEW b \in ImageRef, NEW c \in ImageRef
    PROVE  Fwd(a, a) /\ (Fwd(a, b) /\ Fwd(b, c) => Fwd(a, c))
<1>1. a.tag \in Tags /\ b.tag \in Tags /\ c.tag \in Tags
  BY DEF ImageRef
<1> QED
  BY <1>1, VersionOrder DEF Fwd

\* A non-empty set of natural numbers has a least member.
LEMMA LeastNatural ==
    ASSUME NEW T, T \subseteq Nat, T # {}
    PROVE  \E x \in T : \A y \in T : x <= y
<1> DEFINE R == {ss \in Nat \X Nat : ss[1] < ss[2]}
<1>1. IsWellFoundedOn(R, Nat)
  <2>1. OpToRel(<, Nat) = R
    BY DEF OpToRel
  <2> QED
    BY <2>1, NatLessThanWellFounded
<1>2. \E x \in T : \A y \in T : ~(<<y, x>> \in R)
  <2> HIDE DEF R
  <2> QED
    BY <1>1, WFMin
<1>3. PICK x \in T : \A y \in T : ~(<<y, x>> \in R)
  BY <1>2
<1>4. ASSUME NEW y \in T PROVE x <= y
  <2>1. x \in Nat /\ y \in Nat
    OBVIOUS
  <2>2. ~(y < x)
    BY <1>3, <2>1
  <2> QED
    BY <2>1, <2>2
<1> QED
  BY <1>4

\* The versions that can be compared.
Versions == {t \in Tags : IsSemver(t)}
Topped(S) == \E t \in S : \A u \in S : ~greater(u.v, t.v)

\* A non-empty set of versions has a highest one: there is no smallest set without.
LEMMA HighestExists == \A S \in SUBSET Versions : S # {} => Topped(S)
<1> SUFFICES ASSUME NEW S0 \in SUBSET Versions, S0 # {}, ~Topped(S0) PROVE FALSE
  OBVIOUS
<1> DEFINE Bad == {S \in SUBSET Versions : S # {} /\ ~Topped(S)}
           Sizes == {Cardinality(S) : S \in Bad}
<1>1. \A S \in SUBSET Versions : IsFiniteSet(S) /\ Cardinality(S) \in Nat
  BY ImagesAssumption, FS_Subset, FS_CardinalityType DEF Versions
<1>2. Sizes \subseteq Nat /\ Sizes # {}
  BY <1>1
<1>3. PICK n \in Sizes : \A k \in Sizes : n <= k
  <2> HIDE DEF Sizes
  <2> QED
    BY <1>2, LeastNatural
<1>4. PICK S \in Bad : Cardinality(S) = n
  OBVIOUS
<1>5. PICK x : x \in S
  OBVIOUS
<1>6. Cardinality(S \ {x}) = Cardinality(S) - 1
  BY <1>1, <1>5, FS_RemoveElement
<1>7. S \ {x} \in SUBSET Versions /\ S \ {x} \notin Bad
  BY <1>1, <1>3, <1>4, <1>6
<1>8. x \in Versions /\ \A t, u, w \in Versions :
        /\ ~greater(t.v, t.v) /\ (greater(t.v, u.v) => ~greater(u.v, t.v))
        /\ ~greater(t.v, u.v) /\ ~greater(u.v, w.v) => ~greater(t.v, w.v)
  BY <1>5, VersionOrder DEF Versions
<1>9. CASE S \ {x} = {}
  BY <1>5, <1>8, <1>9 DEF Topped
<1>10. CASE S \ {x} # {}
  <2>1. PICK t \in S \ {x} : \A u \in S \ {x} : ~greater(u.v, t.v)
    BY <1>7, <1>10 DEF Topped
  <2>2. t \in Versions /\ S \subseteq Versions
    OBVIOUS
  <2>3. CASE greater(x.v, t.v)
    <3>1. \A u \in S : ~greater(u.v, x.v)
      BY <1>8, <2>1, <2>2, <2>3
    <3> QED
      BY <1>5, <3>1 DEF Topped
  <2>4. CASE ~greater(x.v, t.v)
    BY <2>1, <2>4 DEF Topped
  <2> QED
    BY <2>3, <2>4
<1> QED
  BY <1>9, <1>10

\* Highest picks one of the versions it is given.
LEMMA HighestType ==
    ASSUME NEW S \in SUBSET Versions, S # {} PROVE Highest(S) \in S
BY HighestExists DEF Highest, Topped

Newer(cur, available, pol) ==
    {t \in available \cap pol.pattern : IsSemver(t) /\ OnLine(pol.mode, t.v, cur.v) /\ greater(t.v, cur.v)}

\* SelectTag finds a newer version among those available, or there is none.
LEMMA Selected ==
    ASSUME NEW cur, NEW available \in SUBSET Tags, NEW pol
    PROVE  IF Newer(cur, available, pol) = {} THEN SelectTag(cur, available, pol) = NoTag
           ELSE SelectTag(cur, available, pol) \in Newer(cur, available, pol)
<1>1. Newer(cur, available, pol) \in SUBSET Versions
  BY DEF Newer, Versions
<1>2. SelectTag(cur, available, pol) = IF Newer(cur, available, pol) = {} THEN NoTag ELSE Highest(Newer(cur, available, pol))
  BY DEF SelectTag, Newer
<1> QED
  BY <1>1, <1>2, HighestType

(***************************************************************************)
(* What holds of the state.                                                 *)
(***************************************************************************)
File == [ref : ImageRef, rev : Nat]
Files == [Configs -> File]
LooseRef == [tag : Tags \cup {NoTag}, digest : Nat]
Scan == [page : Nat, listed : SUBSET Tags, ref : LooseRef, resolved : LooseRef, pinned : LooseRef]
Proposal == [ref : ImageRef, rev : Nat, base : ImageRef] \cup {NoChange}
TickPCs == {"idle", "next", "resolve", "digest", "list", "select", "pin", "patch", "commit", "push", "match",
            "branch", "pushBranch", "open", "ensure"}

GitTypes ==
    /\ tracked \in Files
    /\ proposal \in [Configs -> [Configs -> Proposal]]
    /\ pr \in [Configs -> BOOLEAN] /\ checked \in [Configs -> BOOLEAN]
    /\ clone \in [tree : Files, branch : Files, on : Nat, synced : BOOLEAN, unpushed : SUBSET Configs]
    /\ deployed \in [Configs -> ImageRef] /\ carried \in [Configs -> SUBSET ImageRef]

TickTypes ==
    /\ published \in [Tags -> Nat] /\ offered \in SUBSET Tags
    /\ bump \in [pc : TickPCs, c : Nat, loaded : Files \cup {<<>>}, scan : Scan]
    /\ DOMAIN decided = Configs
    /\ bump.pc # "idle" => bump.loaded \in Files
    /\ bump.pc \notin {"idle", "next"} => bump.c \in Configs

\* Where a scan has got to: what it lists is published, the tag it is about to pin
\* is a newer version, and what it is about to write is ahead of what was loaded.
Scanned ==
    /\ bump.scan.listed \subseteq Published
    /\ bump.pc = "digest" => Pol.mode = "digest"
    /\ bump.pc \in {"list", "select", "pin"} => Pol.mode # "digest"
    /\ bump.pc = "pin" =>
         /\ bump.scan.resolved.tag \in Published
         /\ IsSemver(bump.scan.resolved.tag) /\ greater(bump.scan.resolved.tag.v, Cur.tag.v)
    /\ bump.pc \in {"patch", "commit", "push", "match", "branch", "pushBranch"} =>
         bump.scan.ref \in ImageRef /\ Fwd(Cur, bump.scan.ref)

ScanInv == GitTypes /\ TickTypes /\ Scanned

\* A tick goes on with another scan record.
LEMMA StepEffect ==
    ASSUME TickTypes, NEW pc \in TickPCs, NEW s \in Scan, Step(pc, s)
    PROVE  /\ bump'.pc = pc /\ bump'.c = bump.c /\ bump'.loaded = bump.loaded /\ bump'.scan = s
           /\ bump' \in [pc : TickPCs, c : Nat, loaded : Files \cup {<<>>}, scan : Scan]
           /\ decided' = decided /\ deployed' = deployed
BY DEF TickTypes, Step, verdicts

\* The scan record at rest.
LEMMA NoScanType == NoScan \in Scan
<1>1. NoRef \in LooseRef
  BY DEF NoRef, LooseRef, NoDigest
<1> QED
  BY <1>1 DEF NoScan, Scan

\* Process returns.
LEMMA DecideEffect ==
    ASSUME TickTypes, NEW o, NEW ref, Decide(o, ref)
    PROVE  /\ bump'.pc = "next" /\ bump'.c = bump.c /\ bump'.loaded = bump.loaded /\ bump'.scan = NoScan
           /\ bump' \in [pc : TickPCs, c : Nat, loaded : Files \cup {<<>>}, scan : Scan]
           /\ decided' = [decided EXCEPT ![bump.c] = o] /\ DOMAIN decided' = Configs
           /\ deployed' = [deployed EXCEPT ![bump.c] = ref]
<1>1. bump' = [bump EXCEPT !.pc = "next", !.scan = NoScan]
  BY DEF Decide
<1>2. /\ bump'.pc = "next" /\ bump'.c = bump.c /\ bump'.loaded = bump.loaded /\ bump'.scan = NoScan
      /\ bump' \in [pc : TickPCs, c : Nat, loaded : Files \cup {<<>>}, scan : Scan]
  BY <1>1, NoScanType DEF TickTypes, TickPCs
<1> QED
  BY <1>2 DEF Decide, TickTypes

\* What is loaded and what is deployed are references.
LEMMA CurType ==
    ASSUME TickTypes, bump.pc \notin {"idle", "next"}
    PROVE  /\ bump.c \in Configs /\ bump.loaded \in Files /\ Cur \in ImageRef /\ bump.scan \in Scan
           /\ Cur.tag \in Tags /\ Cur.digest \in Nat
<1>1. bump.c \in Configs /\ bump.loaded \in Files /\ bump.scan \in Scan
  BY DEF TickTypes
<1>2. Cur \in ImageRef
  BY <1>1 DEF Cur, Files, File
<1> QED
  BY <1>1, <1>2 DEF ImageRef

\* The types and the scan of a tick that goes on.
LEMMA StepKeeps ==
    ASSUME ScanInv, bump.pc \notin {"idle", "next"}, NEW pc \in TickPCs \ {"idle", "next"}, NEW s \in Scan,
           Step(pc, s), policy' = policy, published' = published, offered' \in SUBSET Tags,
           s.listed \subseteq Published,
           pc = "digest" => Pol.mode = "digest",
           pc \in {"list", "select", "pin"} => Pol.mode # "digest",
           pc = "pin" => /\ s.resolved.tag \in Published
                         /\ IsSemver(s.resolved.tag) /\ greater(s.resolved.tag.v, Cur.tag.v),
           pc \in {"patch", "commit", "push", "match", "branch", "pushBranch"} => s.ref \in ImageRef /\ Fwd(Cur, s.ref)
    PROVE  TickTypes' /\ Scanned' /\ deployed' = deployed /\ Cur' = Cur /\ Pol' = Pol
<1>1. /\ bump'.pc = pc /\ bump'.c = bump.c /\ bump'.loaded = bump.loaded /\ bump'.scan = s
      /\ bump' \in [pc : TickPCs, c : Nat, loaded : Files \cup {<<>>}, scan : Scan]
      /\ decided' = decided /\ deployed' = deployed
  BY StepEffect DEF ScanInv
<1>2. Cur' = Cur /\ Pol' = Pol /\ Published' = Published
  BY <1>1 DEF Cur, Pol, Published
<1>3. TickTypes'
  BY <1>1, CurType DEF TickTypes, ScanInv
<1>4. Scanned'
  BY <1>1, <1>2 DEF Scanned
<1> QED
  BY <1>1, <1>2, <1>3, <1>4

\* The types and the scan after Process returned.
LEMMA DecideKeeps ==
    ASSUME ScanInv, bump.pc \notin {"idle", "next"}, NEW o, NEW ref \in ImageRef, Decide(o, ref),
           published' = published, offered' \in SUBSET Tags
    PROVE  TickTypes' /\ Scanned' /\ deployed' \in [Configs -> ImageRef]
<1>1. /\ bump'.pc = "next" /\ bump'.c = bump.c /\ bump'.loaded = bump.loaded /\ bump'.scan = NoScan
      /\ bump' \in [pc : TickPCs, c : Nat, loaded : Files \cup {<<>>}, scan : Scan]
      /\ DOMAIN decided' = Configs /\ deployed' = [deployed EXCEPT ![bump.c] = ref]
  BY DecideEffect DEF ScanInv
<1>2. TickTypes'
  BY <1>1, CurType DEF TickTypes, ScanInv
<1>3. Scanned'
  BY <1>1 DEF Scanned, NoScan
<1>4. deployed' \in [Configs -> ImageRef]
  BY <1>1 DEF ScanInv, GitTypes
<1> QED
  BY <1>2, <1>3, <1>4

(***************************************************************************)
(* The steps of a scan.                                                     *)
(***************************************************************************)

\* Process goes on, or returns with what was loaded as what to deploy.
Goes ==
    /\ bump'.c = bump.c /\ bump'.loaded = bump.loaded
    /\ deployed' = deployed \/ deployed' = [deployed EXCEPT ![bump.c] = Cur]

\* A step of a scan: Git is left alone.
ScanMoves ==
    /\ TickTypes' /\ Scanned' /\ deployed' \in [Configs -> ImageRef] /\ Goes

\* Process returns without an update, or fails.
LEMMA ReturnMoves ==
    ASSUME ScanInv, bump.pc \notin {"idle", "next"}, NEW o, Decide(o, Cur),
           published' = published, offered' \in SUBSET Tags
    PROVE  ScanMoves /\ bump'.pc = "next"
<1>1. Cur \in ImageRef
  BY CurType DEF ScanInv
<1>2. TickTypes' /\ Scanned' /\ deployed' \in [Configs -> ImageRef]
  BY <1>1, DecideKeeps
<1>3. Goes /\ bump'.pc = "next"
  BY DecideEffect DEF ScanInv, Goes
<1> QED
  BY <1>2, <1>3 DEF ScanMoves

\* Process goes on.
LEMMA StepMoves ==
    ASSUME ScanInv, bump.pc \notin {"idle", "next"}, NEW pc \in TickPCs \ {"idle", "next"}, NEW s \in Scan,
           Step(pc, s), policy' = policy, published' = published, offered' \in SUBSET Tags,
           s.listed \subseteq Published,
           pc = "digest" => Pol.mode = "digest",
           pc \in {"list", "select", "pin"} => Pol.mode # "digest",
           pc = "pin" => /\ s.resolved.tag \in Published
                         /\ IsSemver(s.resolved.tag) /\ greater(s.resolved.tag.v, Cur.tag.v),
           pc \in {"patch", "commit", "push", "match", "branch", "pushBranch"} => s.ref \in ImageRef /\ Fwd(Cur, s.ref)
    PROVE  ScanMoves /\ bump'.pc = pc /\ bump'.scan = s
<1>1. TickTypes' /\ Scanned' /\ deployed' = deployed
  BY StepKeeps
<1>2. Goes /\ bump'.pc = pc /\ bump'.scan = s
  BY <1>1, StepEffect DEF ScanInv, Goes
<1> QED
  BY <1>1, <1>2 DEF ScanMoves, ScanInv, GitTypes

\* The head of Process.
LEMMA ResolveMoves ==
    ASSUME ScanInv, Resolve PROVE ScanMoves /\ bump'.pc \in {"next", "digest", "list"}
<1>1. bump.pc = "resolve" /\ policy' = policy /\ published' = published /\ offered' \in SUBSET Tags
  BY DEF Resolve, Published
<1>2. Cur \in ImageRef /\ Cur.tag \in Tags /\ Cur.digest \in Nat
  BY <1>1, CurType DEF ScanInv
<1>3. [Cur EXCEPT !.tag = NoTag] \in LooseRef /\ [Cur EXCEPT !.digest = NoDigest] \in LooseRef
  BY <1>2 DEF ImageRef, LooseRef, NoDigest
<1>4. ASSUME NEW x \in LooseRef PROVE [NoScan EXCEPT !.pinned = x] \in Scan /\ [NoScan EXCEPT !.pinned = x].listed = {}
  BY NoScanType DEF NoScan, Scan
<1>5. CASE Pol.mode = "none" /\ Decide("disabled", Cur)
  BY <1>1, <1>5, ReturnMoves
<1>6. CASE Pol.mode = "digest" /\ Step("digest", [NoScan EXCEPT !.pinned = [Cur EXCEPT !.tag = NoTag]])
  <2>1. PICK s \in Scan : s.listed = {} /\ Step("digest", s)
    BY <1>3, <1>4, <1>6
  <2> QED
    BY <1>1, <1>6, <2>1, StepMoves DEF TickPCs
<1>7. CASE Pol.mode # "digest" /\ \E x \in LooseRef : Step("list", [NoScan EXCEPT !.pinned = x])
  <2>1. PICK s \in Scan : s.listed = {} /\ Step("list", s)
    BY <1>4, <1>7
  <2> QED
    BY <1>1, <1>7, <2>1, StepMoves DEF TickPCs
<1>8. CASE Decide("current", Cur)
  BY <1>1, <1>8, ReturnMoves
<1> QED
  BY <1>3, <1>5, <1>6, <1>7, <1>8 DEF Resolve

\* The digest of a mutable tag: the tag stays and the result is pinned.
LEMMA DigestMoves ==
    ASSUME ScanInv, DigestMode PROVE ScanMoves /\ bump'.pc \in {"next", "patch"}
<1>1. bump.pc = "digest" /\ policy' = policy /\ published' = published /\ offered' \in SUBSET Tags
  BY DEF DigestMode, ScanInv, TickTypes
<1>2. Cur \in ImageRef /\ Cur.tag \in Tags /\ Cur.digest \in Nat /\ bump.scan \in Scan
  BY <1>1, CurType DEF ScanInv
<1>3. CASE \E o : Decide(o, Cur)
  BY <1>1, <1>3, ReturnMoves
<1>4. CASE ~\E o : Decide(o, Cur)
  <2> DEFINE d == published[Cur.tag]
             s == [[bump.scan EXCEPT !.resolved = [tag |-> NoTag, digest |-> d]] EXCEPT !.ref = [tag |-> Cur.tag, digest |-> d]]
  <2>1. d # NoDigest /\ Step("patch", s)
    BY <1>4 DEF DigestMode, Fails
  <2>2. d \in Nat
    BY <1>2 DEF ScanInv, TickTypes
  <2>3. s \in Scan /\ s.listed = bump.scan.listed /\ s.ref = [tag |-> Cur.tag, digest |-> d]
    BY <1>2, <2>2 DEF Scan, LooseRef
  <2>4. s.ref \in ImageRef /\ Fwd(Cur, s.ref)
    <3>1. s.ref \in ImageRef /\ s.ref.tag = Cur.tag /\ s.ref.digest # NoDigest
      BY <1>2, <2>1, <2>2, <2>3 DEF ImageRef
    <3>2. IsSemver(Cur.tag) => ~greater(Cur.tag.v, Cur.tag.v)
      BY <1>2, VersionOrder
    <3> QED
      BY <3>1, <3>2 DEF Fwd
  <2> HIDE DEF s
  <2> QED
    BY <1>1, <2>1, <2>3, <2>4, StepMoves DEF TickPCs, ScanInv, Scanned
<1> QED
  BY <1>3, <1>4

\* A page of tags is read.
LEMMA ListMoves ==
    ASSUME ScanInv, ListTags
    PROVE  /\ ScanMoves /\ bump'.pc \in {"next", "list", "select"} /\ offered' = offered
           /\ bump'.pc # "next" =>
                /\ bump'.scan.listed = bump.scan.listed \cup (Published \cap Pages[bump.scan.page])
                /\ bump'.pc = IF MorePages(bump.scan.page) THEN "list" ELSE "select"
                /\ bump'.pc = "list" => bump'.scan.page = bump.scan.page + 1
<1>1. bump.pc = "list" /\ policy' = policy /\ published' = published /\ offered' = offered /\ offered' \in SUBSET Tags
  BY DEF ListTags, ScanInv, TickTypes
<1>2. bump.scan \in Scan /\ bump.scan.listed \subseteq Published /\ Published \subseteq Tags
  BY <1>1, CurType DEF ScanInv, Scanned, Published
<1>3. CASE Fails
  BY <1>1, <1>3, ReturnMoves DEF Fails
<1>4. CASE ~Fails
  <2> DEFINE s == [bump.scan EXCEPT !.listed = bump.scan.listed \cup (Published \cap Pages[bump.scan.page])]
             t == [s EXCEPT !.page = s.page + 1]
  <2>1. IF MorePages(s.page) THEN Step("list", t) ELSE Step("select", s)
    BY <1>4 DEF ListTags
  <2>2. /\ s \in Scan /\ s.page = bump.scan.page /\ s.listed \subseteq Published
        /\ s.listed = bump.scan.listed \cup (Published \cap Pages[bump.scan.page])
    BY <1>2 DEF Scan
  <2> HIDE DEF s
  <2>3. t \in Scan /\ t.page = s.page + 1 /\ t.listed = s.listed
    BY <2>2 DEF Scan
  <2> HIDE DEF t
  <2>4. Pol.mode # "digest"
    BY <1>1 DEF ScanInv, Scanned
  <2>5. CASE MorePages(s.page)
    BY <1>1, <2>1, <2>2, <2>3, <2>4, <2>5, StepMoves DEF TickPCs
  <2>6. CASE ~MorePages(s.page)
    BY <1>1, <2>1, <2>2, <2>4, <2>6, StepMoves DEF TickPCs
  <2> QED
    BY <2>5, <2>6
<1> QED
  BY <1>3, <1>4

\* selectSemver picks a newer version that is published, or reports the ref current.
LEMMA SelectMoves ==
    ASSUME ScanInv, SelectSemver
    PROVE  /\ ScanMoves /\ bump'.pc \in {"next", "pin"} /\ offered' = offered
           /\ bump'.pc = "next" => Newer(Cur.tag, bump.scan.listed, Pol) = {}
<1>1. /\ bump.pc = "select" /\ IsSemver(Cur.tag) /\ policy' = policy /\ published' = published
      /\ offered' = offered /\ offered' \in SUBSET Tags
  BY DEF SelectSemver, ScanInv, TickTypes
<1>2. /\ Cur.tag \in Tags /\ bump.scan \in Scan /\ bump.scan.listed \in SUBSET Tags
      /\ bump.scan.listed \subseteq Published /\ Pol.mode # "digest"
  BY <1>1, CurType DEF ScanInv, Scanned, Scan
<1> DEFINE t == SelectTag(Cur.tag, bump.scan.listed, Pol)
           s == [bump.scan EXCEPT !.resolved = [tag |-> IF t = NoTag THEN Cur.tag ELSE t, digest |-> NoDigest]]
<1>3. IF t = NoTag THEN Decide("current", Cur) ELSE Step("pin", s)
  BY DEF SelectSemver
<1>4. IF Newer(Cur.tag, bump.scan.listed, Pol) = {} THEN t = NoTag ELSE t \in Newer(Cur.tag, bump.scan.listed, Pol)
  BY <1>2, Selected
<1>5. t # NoTag => t \in Published /\ t \in Tags /\ IsSemver(t) /\ greater(t.v, Cur.tag.v)
  BY <1>2, <1>4 DEF Newer
<1>6. t = NoTag => Newer(Cur.tag, bump.scan.listed, Pol) = {}
  BY <1>2, <1>4, ImagesAssumption DEF Newer
<1> HIDE DEF t
<1>7. CASE t = NoTag
  BY <1>1, <1>3, <1>6, <1>7, ReturnMoves
<1>8. CASE t # NoTag
  <2>1. s \in Scan /\ s.listed = bump.scan.listed /\ s.resolved.tag = t
    BY <1>2, <1>5, <1>8 DEF Scan, LooseRef, NoDigest
  <2> HIDE DEF s
  <2> QED
    BY <1>1, <1>2, <1>3, <1>5, <1>8, <2>1, StepMoves DEF TickPCs
<1> QED
  BY <1>7, <1>8

\* pinnedRef: the digest of a published tag, or no pin where there was none.
LEMMA PinMoves ==
    ASSUME ScanInv, PinnedRef PROVE ScanMoves /\ bump'.pc \in {"next", "patch"}
<1>1. bump.pc = "pin" /\ policy' = policy /\ published' = published /\ offered' \in SUBSET Tags
  BY DEF PinnedRef, ScanInv, TickTypes
<1>2. /\ Cur.tag \in Tags /\ bump.scan \in Scan /\ bump.scan.listed \subseteq Published
      /\ bump.scan.resolved.tag \in Published /\ bump.scan.resolved.tag \in Tags
      /\ IsSemver(bump.scan.resolved.tag) /\ greater(bump.scan.resolved.tag.v, Cur.tag.v)
  BY <1>1, CurType DEF ScanInv, Scanned, Published
<1>3. ASSUME NEW d \in Nat, d # NoDigest \/ Cur.digest = NoDigest,
             Step("patch", [bump.scan EXCEPT !.ref = [tag |-> bump.scan.resolved.tag, digest |-> d]])
      PROVE  ScanMoves /\ bump'.pc = "patch"
  <2> DEFINE s == [bump.scan EXCEPT !.ref = [tag |-> bump.scan.resolved.tag, digest |-> d]]
  <2>1. s \in Scan /\ s.listed = bump.scan.listed /\ s.ref = [tag |-> bump.scan.resolved.tag, digest |-> d]
    BY <1>2, <1>3 DEF Scan, LooseRef
  <2>2. s.ref \in ImageRef
    BY <1>2, <1>3, <2>1 DEF ImageRef
  <2>3. IsSemver(Cur.tag) => ~greater(Cur.tag.v, bump.scan.resolved.tag.v)
    BY <1>2, VersionOrder
  <2>4. Fwd(Cur, s.ref)
    BY <1>2, <1>3, <2>1, <2>3 DEF Fwd
  <2>5. Step("patch", s)
    BY <1>3
  <2> HIDE DEF s
  <2> QED
    BY <1>1, <1>2, <2>1, <2>2, <2>4, <2>5, StepMoves DEF TickPCs
<1>4. published[bump.scan.resolved.tag] \in Nat /\ published[bump.scan.resolved.tag] # NoDigest
  BY <1>2 DEF ScanInv, TickTypes, Published
<1>5. CASE Decide("error", Cur)
  BY <1>1, <1>5, ReturnMoves
<1>6. CASE ~Decide("error", Cur)
  <2>1. \/ Step("patch", [bump.scan EXCEPT !.ref = [tag |-> bump.scan.resolved.tag, digest |-> published[bump.scan.resolved.tag]]])
        \/ Unpinnable /\ Step("patch", [bump.scan EXCEPT !.ref = [tag |-> bump.scan.resolved.tag, digest |-> NoDigest]])
    BY <1>6 DEF PinnedRef
  <2> QED
    BY <1>3, <1>4, <2>1 DEF Unpinnable, NoDigest
<1> QED
  BY <1>5, <1>6

\* migrate: a version for a tag that is none, with the pin it had.
LEMMA MigrateMoves ==
    ASSUME ScanInv, Migrate PROVE ScanMoves /\ bump'.pc \in {"next", "patch"} /\ ~IsSemver(Cur.tag)
<1>1. bump.pc = "select" /\ ~IsSemver(Cur.tag) /\ policy' = policy /\ published' = published /\ offered' \in SUBSET Tags
  BY DEF Migrate, ScanInv, TickTypes
<1>2. /\ Cur \in ImageRef /\ Cur.digest \in Nat /\ bump.scan \in Scan /\ bump.scan.listed \in SUBSET Tags
      /\ bump.scan.listed \subseteq Published
  BY <1>1, CurType DEF ScanInv, Scanned, Scan
<1>3. PICK unresolved \in SUBSET bump.scan.listed :
        LET t == semverForDigest(Cur.digest, bump.scan.listed, Pol, unresolved)
        IN  IF t = NoTag THEN Decide("error", Cur)
            ELSE Step("patch", [bump.scan EXCEPT !.resolved = [tag |-> t, digest |-> NoDigest],
                                                 !.ref = [tag |-> t, digest |-> Cur.digest]])
  BY DEF Migrate
<1> DEFINE t == semverForDigest(Cur.digest, bump.scan.listed, Pol, unresolved)
           s == [bump.scan EXCEPT !.resolved = [tag |-> t, digest |-> NoDigest], !.ref = [tag |-> t, digest |-> Cur.digest]]
<1>4. t = NoTag \/ t \in Tags
  <2> DEFINE same == {u \in (bump.scan.listed \cap Pol.pattern) \ unresolved : IsSemver(u) /\ published[u] = Cur.digest}
  <2>1. same \in SUBSET Versions
    BY <1>2 DEF Versions
  <2>2. t = IF same = {} THEN NoTag ELSE Highest(same)
    BY DEF semverForDigest
  <2> HIDE DEF same, t
  <2> QED
    BY <2>1, <2>2, HighestType DEF Versions
<1>5. IF t = NoTag THEN Decide("error", Cur) ELSE Step("patch", s)
  BY <1>3
<1> HIDE DEF t
<1>6. CASE t = NoTag
  BY <1>1, <1>5, <1>6, ReturnMoves
<1>7. CASE t # NoTag
  <2>1. s \in Scan /\ s.listed = bump.scan.listed /\ s.ref = [tag |-> t, digest |-> Cur.digest]
    BY <1>2, <1>4, <1>7 DEF Scan, LooseRef, NoDigest
  <2>2. s.ref \in ImageRef /\ Fwd(Cur, s.ref)
    BY <1>1, <1>2, <1>4, <1>7, <2>1 DEF ImageRef, Fwd
  <2> HIDE DEF s
  <2> QED
    BY <1>1, <1>2, <1>5, <1>7, <2>1, <2>2, StepMoves DEF TickPCs
<1> QED
  BY <1>1, <1>6, <1>7

\* The bump is compared with the file.
LEMMA PatchMoves ==
    ASSUME ScanInv, Patch
    PROVE  /\ ScanMoves /\ bump'.pc \in {"next", "commit", "match"}
           /\ bump'.pc = "commit" => Pol.writeback = "push"
           /\ bump'.pc = "match" => Pol.writeback # "push"
<1>1. bump.pc = "patch" /\ policy' = policy /\ published' = published /\ offered' \in SUBSET Tags
  BY DEF Patch, ScanInv, TickTypes
<1>2. /\ bump.scan \in Scan /\ bump.scan.listed \subseteq Published
      /\ bump.scan.ref \in ImageRef /\ Fwd(Cur, bump.scan.ref)
  BY <1>1, CurType DEF ScanInv, Scanned
<1>3. CASE \E o : Decide(o, Cur)
  BY <1>1, <1>3, ReturnMoves
<1>4. CASE ~\E o : Decide(o, Cur)
  <2>1. PICK pc \in {"commit", "match"} :
          Step(pc, bump.scan) /\ (pc = "commit" => Pol.writeback = "push") /\ (pc = "match" => Pol.writeback # "push")
    BY <1>4 DEF Patch
  <2> QED
    BY <1>1, <1>2, <2>1, StepMoves DEF TickPCs
<1> QED
  BY <1>3, <1>4

(***************************************************************************)
(* The steps that write back.                                               *)
(***************************************************************************)

\* The parts of the checkout.
LEMMA CloneType ==
    ASSUME GitTypes
    PROVE  /\ clone.tree \in Files /\ clone.branch \in Files /\ clone.on \in Nat /\ clone.synced \in BOOLEAN
           /\ clone.unpushed \in SUBSET Configs
BY DEF GitTypes

\* The file with the bump in it.
LEMMA WrittenType ==
    ASSUME ScanInv, bump.pc \in {"patch", "commit", "push", "match", "branch", "pushBranch"}
    PROVE  /\ bump.c \in Configs /\ bump.scan \in Scan /\ bump.scan.ref \in ImageRef /\ Fwd(Cur, bump.scan.ref)
           /\ bump.scan.listed \subseteq Published
           /\ Patched \in File /\ Patched.ref = bump.scan.ref
           /\ Written \in Files /\ \A d \in Configs : Written[d] = IF d = bump.c THEN Patched ELSE clone.tree[d]
<1>1. /\ bump.c \in Configs /\ bump.scan \in Scan /\ bump.scan.ref \in ImageRef /\ Fwd(Cur, bump.scan.ref)
      /\ bump.scan.listed \subseteq Published
  BY CurType DEF ScanInv, Scanned
<1>2. clone.tree \in Files
  BY CloneType DEF ScanInv
<1>3. Patched \in File /\ Patched.ref = bump.scan.ref
  BY <1>1, <1>2 DEF Patched, Files, File
<1>4. Written \in Files /\ \A d \in Configs : Written[d] = IF d = bump.c THEN Patched ELSE clone.tree[d]
  BY <1>1, <1>2, <1>3 DEF Written, Files
<1> QED
  BY <1>1, <1>3, <1>4

\* A tick step of the write-back, as far as the scan can see: it goes on with the
\* reference it has, or returns.
LEMMA OnwardMoves ==
    ASSUME ScanInv, bump.pc \in {"patch", "commit", "push", "match", "branch", "pushBranch"},
           NEW pc \in {"push", "ensure", "branch", "pushBranch", "open"}, Step(pc, bump.scan),
           policy' = policy, published' = published, offered' = offered
    PROVE  ScanMoves /\ bump'.pc = pc /\ bump'.scan = bump.scan
<1>1. offered' \in SUBSET Tags
  BY DEF ScanInv, TickTypes
<1> QED
  BY <1>1, WrittenType, StepMoves DEF TickPCs

\* CommitFile.
LEMMA CommitMoves ==
    ASSUME ScanInv, CommitFile
    PROVE  /\ ScanMoves /\ GitTypes' /\ bump'.pc \in {"push", "next"}
           /\ clone'.on = clone.on /\ clone'.synced = clone.synced
           /\ clone'.tree \in {clone.tree, Written}
           /\ clone'.branch = IF bump'.pc = "push" /\ clone.on = 0 THEN Written ELSE clone.branch
           /\ bump'.pc = "push" => bump'.scan = bump.scan /\ clone'.tree = Written
           /\ clone.on # 0 => clone'.unpushed = clone.unpushed
<1>1. /\ bump.pc = "commit" /\ policy' = policy /\ published' = published /\ offered' = offered /\ offered' \in SUBSET Tags
      /\ UNCHANGED <<tracked, proposal, pr, checked, carried>>
  BY DEF CommitFile, remote, ScanInv, TickTypes
<1>2. Written \in Files
  BY <1>1, WrittenType
<1>3. /\ clone.tree \in Files /\ clone.branch \in Files /\ clone.on \in Nat /\ clone.synced \in BOOLEAN
      /\ clone.unpushed \in SUBSET Configs
  BY CloneType DEF ScanInv
<1>4. clone \in [tree : Files, branch : Files, on : Nat, synced : BOOLEAN, unpushed : SUBSET Configs]
  BY DEF ScanInv, GitTypes
<1>5. ASSUME ScanMoves, clone' \in [tree : Files, branch : Files, on : Nat, synced : BOOLEAN, unpushed : SUBSET Configs]
      PROVE  GitTypes'
  BY <1>1, <1>5 DEF GitTypes, ScanInv, ScanMoves
<1>6. CASE clone' \in {clone, [clone EXCEPT !.tree = Written]} /\ Fails
  <2>1. ScanMoves /\ bump'.pc = "next"
    BY <1>1, <1>6, ReturnMoves DEF Fails
  <2>2. /\ clone' \in [tree : Files, branch : Files, on : Nat, synced : BOOLEAN, unpushed : SUBSET Configs]
        /\ clone'.on = clone.on /\ clone'.synced = clone.synced /\ clone'.tree \in {clone.tree, Written}
        /\ clone'.branch = clone.branch /\ clone'.unpushed = clone.unpushed
    BY <1>2, <1>4, <1>6
  <2> QED
    BY <1>5, <2>1, <2>2
<1>7. CASE ~(clone' \in {clone, [clone EXCEPT !.tree = Written]} /\ Fails)
  <2> DEFINE U == IF clone.on = 0 THEN {d \in Configs : d \in clone.unpushed \/ Written[d] # clone.branch[d]} ELSE clone.unpushed
             B == IF clone.on = 0 THEN Written ELSE clone.branch
  <2>1. Step("push", bump.scan) /\ clone' = [clone EXCEPT !.tree = Written, !.branch = B, !.unpushed = U]
    BY <1>7 DEF CommitFile
  <2>2. U \in SUBSET Configs /\ B \in Files
    BY <1>2, <1>3
  <2>3. ScanMoves /\ bump'.pc = "push" /\ bump'.scan = bump.scan
    BY <1>1, <2>1, OnwardMoves
  <2> HIDE DEF B, U
  <2>4. /\ clone' \in [tree : Files, branch : Files, on : Nat, synced : BOOLEAN, unpushed : SUBSET Configs]
        /\ clone'.on = clone.on /\ clone'.synced = clone.synced /\ clone'.tree = Written
        /\ clone'.branch = B /\ clone'.unpushed = U
    BY <1>2, <1>4, <2>1, <2>2
  <2> QED
    BY <1>5, <2>3, <2>4 DEF B, U
<1> QED
  BY <1>6, <1>7

\* What the tracked branch carries is kept.
LEMMA CarryType ==
    ASSUME GitTypes, NEW t \in Files
    PROVE  /\ Carry(t) \in [Configs -> SUBSET ImageRef]
           /\ \A c \in Configs : carried[c] \subseteq Carry(t)[c] /\ t[c].ref \in Carry(t)[c]
<1>1. \A c \in Configs : t[c].ref \in ImageRef /\ carried[c] \in SUBSET ImageRef
  BY DEF GitTypes, Files, File
<1> QED
  BY <1>1 DEF Carry

\* Push: the tracked branch becomes the local one, or nothing happens.
LEMMA PushMoves ==
    ASSUME ScanInv, Push
    PROVE  /\ TickTypes' /\ Scanned' /\ GitTypes' /\ bump'.pc = "next" /\ bump'.c = bump.c /\ bump'.loaded = bump.loaded
           /\ clone'.on = clone.on /\ clone'.synced = clone.synced /\ clone'.tree = clone.tree /\ clone'.branch = clone.branch
           /\ proposal' = proposal
           /\ clone'.unpushed \subseteq clone.unpushed
           /\ \/ Goes /\ tracked' = tracked /\ carried' = carried
              \/ /\ clone.synced /\ tracked' = clone.branch /\ carried' = Carry(clone.branch)
                 /\ deployed' = [deployed EXCEPT ![bump.c] = bump.scan.ref]
<1>1. /\ bump.pc = "push" /\ policy' = policy /\ published' = published /\ offered' \in SUBSET Tags
      /\ UNCHANGED <<proposal, pr, checked>>
  BY DEF Push, ScanInv, TickTypes
<1>2. clone \in [tree : Files, branch : Files, on : Nat, synced : BOOLEAN, unpushed : SUBSET Configs]
  BY DEF ScanInv, GitTypes
<1>3. CASE PushFailed /\ UNCHANGED <<tracked, carried, clone>>
  <2>1. ScanMoves /\ bump'.pc = "next"
    BY <1>1, <1>3, ReturnMoves DEF PushFailed
  <2> QED
    BY <1>1, <1>3, <2>1 DEF ScanMoves, GitTypes, ScanInv, Goes
<1>4. CASE ~(PushFailed /\ UNCHANGED <<tracked, carried, clone>>)
  <2>1. /\ clone.synced /\ tracked' = clone.branch /\ carried' = Carry(clone.branch)
        /\ clone' = [clone EXCEPT !.unpushed = {}] /\ Decide("bumped", bump.scan.ref)
    BY <1>4 DEF Push
  <2>2. bump.scan.ref \in ImageRef
    BY <1>1, WrittenType
  <2>3. TickTypes' /\ Scanned' /\ deployed' \in [Configs -> ImageRef]
    BY <1>1, <2>1, <2>2, DecideKeeps
  <2>4. /\ bump'.pc = "next" /\ bump'.c = bump.c /\ bump'.loaded = bump.loaded
        /\ deployed' = [deployed EXCEPT ![bump.c] = bump.scan.ref]
    BY <2>1, DecideEffect DEF ScanInv
  <2>5. /\ clone' \in [tree : Files, branch : Files, on : Nat, synced : BOOLEAN, unpushed : SUBSET Configs]
        /\ clone'.on = clone.on /\ clone'.synced = clone.synced /\ clone'.tree = clone.tree /\ clone'.branch = clone.branch
        /\ clone'.unpushed \subseteq clone.unpushed /\ clone.branch \in Files
    BY <1>2, <2>1
  <2>6. carried' \in [Configs -> SUBSET ImageRef]
    BY <2>1, <2>5, CarryType DEF ScanInv
  <2>7. GitTypes'
    BY <1>1, <2>1, <2>3, <2>5, <2>6 DEF GitTypes, ScanInv
  <2> QED
    BY <1>1, <2>1, <2>3, <2>4, <2>5, <2>7
<1> QED
  BY <1>3, <1>4

\* RemoteFileMatches: the proposal stands as it is, or it is written again.
LEMMA MatchMoves ==
    ASSUME ScanInv, Match
    PROVE  ScanMoves /\ GitTypes' /\ bump'.pc \in {"ensure", "branch"}
<1>1. /\ bump.pc = "match" /\ policy' = policy /\ published' = published /\ offered' = offered
      /\ UNCHANGED <<tracked, proposal, pr, checked, clone, carried>>
  BY DEF Match, remote
<1>2. PICK pc \in {"ensure", "branch"} : Step(pc, bump.scan)
  BY DEF Match
<1>3. ScanMoves /\ bump'.pc = pc
  BY <1>1, <1>2, OnwardMoves
<1> QED
  BY <1>1, <1>3 DEF GitTypes, ScanInv, ScanMoves

\* CommitFileOnBranch: the local tracked branch stays as it is.
LEMMA BranchMoves ==
    ASSUME ScanInv, CommitFileOnBranch
    PROVE  /\ ScanMoves /\ GitTypes' /\ bump'.pc \in {"next", "ensure", "pushBranch"}
           /\ clone'.branch = clone.branch /\ clone'.unpushed = clone.unpushed
<1>1. /\ bump.pc = "branch" /\ policy' = policy /\ published' = published /\ offered' = offered /\ offered' \in SUBSET Tags
      /\ UNCHANGED <<tracked, proposal, pr, checked, carried>>
  BY DEF CommitFileOnBranch, remote, ScanInv, TickTypes
<1>2. clone \in [tree : Files, branch : Files, on : Nat, synced : BOOLEAN, unpushed : SUBSET Configs] /\ clone.branch \in Files
  BY DEF ScanInv, GitTypes
<1>3. bump.c \in Configs /\ bump.c \in Nat /\ bump.scan \in Scan /\ Patched \in File /\ Patched.ref = bump.scan.ref
  BY <1>1, WrittenType DEF ScanInv, TickTypes
<1> DEFINE L == [clone.branch EXCEPT ![bump.c] = Patched]
           back == [clone EXCEPT !.tree = clone.branch, !.on = 0]
           left == [clone EXCEPT !.tree = L, !.on = bump.c]
<1>4. clone' \in {clone, back, left}
  BY DEF CommitFileOnBranch
<1>5. L \in Files
  BY <1>2, <1>3 DEF Files
<1> HIDE DEF L
<1>6. /\ clone' \in [tree : Files, branch : Files, on : Nat, synced : BOOLEAN, unpushed : SUBSET Configs]
      /\ clone'.branch = clone.branch /\ clone'.unpushed = clone.unpushed
  <2>1. CASE clone' = clone
    BY <1>2, <2>1
  <2>2. CASE clone' = back
    BY <1>2, <2>2
  <2>3. CASE clone' = left
    BY <1>2, <1>3, <1>5, <2>3
  <2> QED
    BY <1>4, <2>1, <2>2, <2>3
<1>7. ScanMoves /\ bump'.pc \in {"next", "ensure", "pushBranch"}
  <2>1. CASE Fails
    BY <1>1, <2>1, ReturnMoves DEF Fails
  <2>2. CASE ~Fails
    <3>1. PICK pc \in {"ensure", "pushBranch"} : Step(pc, [bump.scan EXCEPT !.ref = Patched.ref])
      BY <2>2 DEF CommitFileOnBranch
    <3>2. [bump.scan EXCEPT !.ref = Patched.ref] = bump.scan
      BY <1>3 DEF Scan
    <3> QED
      BY <1>1, <3>1, <3>2, OnwardMoves
  <2> QED
    BY <2>1, <2>2
<1> QED
  BY <1>1, <1>6, <1>7 DEF GitTypes, ScanInv, ScanMoves

\* What a proposal branch changes.
LEMMA ProposedType ==
    ASSUME ScanInv, bump.pc = "pushBranch"
    PROVE  /\ Proposed(bump.c) \in [Configs -> Proposal]
           /\ Proposed(bump.c)[bump.c].ref = bump.scan.ref /\ Proposed(bump.c)[bump.c].base = clone.branch[bump.c].ref
           /\ \A d \in Configs : d # bump.c /\ d \notin clone.unpushed => Proposed(bump.c)[d] = NoChange
<1>1. bump.c \in Configs /\ bump.scan.ref \in ImageRef
  BY WrittenType
<1>2. /\ clone.branch \in Files /\ tracked \in Files
  BY DEF ScanInv, GitTypes
<1>3. NoChange \in Proposal
  BY DEF Proposal
<1>5. ASSUME NEW f \in File, NEW g \in File
      PROVE  Change(f, g) \in Proposal /\ Change(f, g).ref = f.ref /\ Change(f, g).base = g.ref
  BY DEF Change, File, Proposal
<1>6. /\ [clone.branch[bump.c] EXCEPT !.ref = bump.scan.ref] \in File
      /\ [clone.branch[bump.c] EXCEPT !.ref = bump.scan.ref].ref = bump.scan.ref
  BY <1>1, <1>2 DEF Files, File
<1>7. \A d \in Configs : clone.branch[d] \in File /\ tracked[d] \in File
  BY <1>2 DEF Files
<1>8. \A d \in Configs : Proposed(bump.c)[d] \in Proposal
  BY <1>1, <1>3, <1>5, <1>6, <1>7 DEF Proposed
<1>9. Proposed(bump.c) \in [Configs -> Proposal]
  BY <1>8 DEF Proposed
<1>10. /\ Proposed(bump.c)[bump.c].ref = bump.scan.ref /\ Proposed(bump.c)[bump.c].base = clone.branch[bump.c].ref
  BY <1>1, <1>5, <1>6, <1>7 DEF Proposed
<1> QED
  BY <1>9, <1>10 DEF Proposed

\* The proposal branch is pushed.
LEMMA PushBranchMoves ==
    ASSUME ScanInv, PushBranch
    PROVE  /\ ScanMoves /\ GitTypes' /\ bump'.pc \in {"next", "open"}
           /\ proposal' \in {proposal, [proposal EXCEPT ![bump.c] = Proposed(bump.c)]}
<1>1. /\ bump.pc = "pushBranch" /\ policy' = policy /\ published' = published /\ offered' = offered /\ offered' \in SUBSET Tags
      /\ UNCHANGED <<tracked, pr, clone, carried>>
  BY DEF PushBranch, ScanInv, TickTypes
<1>2. Proposed(bump.c) \in [Configs -> Proposal] /\ bump.c \in Configs
  BY <1>1, ProposedType, CurType DEF ScanInv
<1>3. proposal \in [Configs -> [Configs -> Proposal]] /\ checked \in [Configs -> BOOLEAN]
  BY DEF ScanInv, GitTypes
<1>4. /\ proposal' \in {proposal, [proposal EXCEPT ![bump.c] = Proposed(bump.c)]}
      /\ checked' \in {checked, [checked EXCEPT ![bump.c] = FALSE]}
  BY DEF PushBranch
<1>5. proposal' \in [Configs -> [Configs -> Proposal]] /\ checked' \in [Configs -> BOOLEAN]
  BY <1>2, <1>3, <1>4
<1>6. CASE Fails
  <2>1. ScanMoves /\ bump'.pc = "next"
    BY <1>1, <1>6, ReturnMoves DEF Fails
  <2> QED
    BY <1>1, <1>4, <1>5, <2>1 DEF GitTypes, ScanInv, ScanMoves
<1>7. CASE ~Fails
  <2>1. ScanMoves /\ bump'.pc = "open"
    BY <1>1, <1>7, OnwardMoves DEF PushBranch
  <2> QED
    BY <1>1, <1>4, <1>5, <2>1 DEF GitTypes, ScanInv, ScanMoves
<1> QED
  BY <1>6, <1>7

\* A pull request is opened, or found open.
LEMMA OpenMoves ==
    ASSUME ScanInv, bump.pc \in {"open", "ensure"}, NEW o, OpenPullRequest(o),
           UNCHANGED <<policy, published, tracked, proposal, clone, carried, offered>>
    PROVE  ScanMoves /\ GitTypes' /\ bump'.pc = "next"
<1>1. offered' \in SUBSET Tags /\ bump.c \in Configs
  BY CurType DEF ScanInv, TickTypes
<1>2. \E x : Decide(x, Cur)
  BY DEF OpenPullRequest, Fails
<1>3. ScanMoves /\ bump'.pc = "next"
  BY <1>1, <1>2, ReturnMoves
<1>4. pr \in [Configs -> BOOLEAN] /\ checked \in [Configs -> BOOLEAN]
  BY DEF ScanInv, GitTypes
<1>5. pr' \in [Configs -> BOOLEAN] /\ checked' \in [Configs -> BOOLEAN]
  <2>1. CASE UNCHANGED <<pr, checked>>
    BY <1>4, <2>1
  <2>2. CASE pr' = [pr EXCEPT ![bump.c] = TRUE] /\ checked' = [checked EXCEPT ![bump.c] = pr[bump.c] /\ @]
    <3>1. (pr[bump.c] /\ checked[bump.c]) \in BOOLEAN
      OBVIOUS
    <3> QED
      BY <1>4, <2>2, <3>1
  <2> QED
    BY <2>1, <2>2 DEF OpenPullRequest
<1> QED
  BY <1>3, <1>5 DEF GitTypes, ScanInv, ScanMoves

(***************************************************************************)
(* The other steps.                                                         *)
(***************************************************************************)
Clone == [tree : Files, branch : Files, on : Nat, synced : BOOLEAN, unpushed : SUBSET Configs]

\* A fresh checkout.
LEMMA FreshClone ==
    ASSUME NEW f \in Files
    PROVE  [tree |-> f, branch |-> f, on |-> 0, synced |-> TRUE, unpushed |-> {}] \in Clone
BY DEF Clone

\* Pull: the checkout is that of the remote, or only its files are.
LEMMA PullMoves ==
    ASSUME ScanInv, Pull
    PROVE  /\ TickTypes' /\ Scanned' /\ GitTypes' /\ bump'.pc = "next" /\ bump'.c = 0 /\ bump'.loaded = tracked
           /\ clone.on = 0 => /\ clone' = [tree |-> tracked, branch |-> tracked, on |-> 0, synced |-> TRUE, unpushed |-> {}]
           /\ clone.on # 0 => clone'.branch = clone.branch /\ clone'.unpushed = clone.unpushed
<1>1. /\ bump' = [pc |-> "next", c |-> 0, loaded |-> tracked, scan |-> NoScan] /\ clone' = Pulled
      /\ UNCHANGED <<policy, published, tracked, proposal, pr, checked, decided, deployed, carried, offered>>
  BY DEF Pull, remote, verdicts
<1>2. tracked \in Files /\ clone \in Clone
  BY DEF ScanInv, GitTypes, Clone
<1>3. [clone EXCEPT !.tree = tracked] \in Clone
  BY <1>2 DEF Clone
<1>4. clone' \in Clone
  BY <1>1, <1>2, <1>3, FreshClone DEF Pulled
<1>5. TickTypes'
  BY <1>1, <1>2, NoScanType DEF ScanInv, TickTypes, TickPCs
<1>6. Scanned'
  BY <1>1 DEF Scanned, NoScan
<1>7. GitTypes'
  BY <1>1, <1>4 DEF ScanInv, GitTypes, Clone
<1>8. clone.on # 0 => clone'.branch = clone.branch /\ clone'.unpushed = clone.unpushed
  BY <1>1, <1>2 DEF Pulled, Clone
<1>9. clone.on = 0 => clone' = [tree |-> tracked, branch |-> tracked, on |-> 0, synced |-> TRUE, unpushed |-> {}]
  BY <1>1 DEF Pulled
<1> QED
  BY <1>1, <1>5, <1>6, <1>7, <1>8, <1>9

\* The watcher goes on with the next config, or the tick ends.
LEMMA NextConfigMoves ==
    ASSUME ScanInv, NextConfig
    PROVE  /\ TickTypes' /\ Scanned' /\ GitTypes' /\ offered' = {}
           /\ bump'.pc = "idle" \/ (bump'.pc = "resolve" /\ bump'.c = bump.c + 1 /\ bump'.loaded = bump.loaded)
<1>1. /\ bump.pc = "next" /\ offered' = {}
      /\ UNCHANGED <<policy, published, tracked, proposal, pr, checked, clone, deployed, carried>>
  BY DEF NextConfig, remote
<1>2. GitTypes'
  BY <1>1 DEF ScanInv, GitTypes
<1>3. CASE bump' = Idle /\ decided' = [c \in Configs |-> "none"]
  BY <1>1, <1>2, <1>3, NoScanType DEF TickTypes, TickPCs, Scanned, ScanInv, Idle, NoScan
<1>4. CASE bump.c + 1 \in Configs /\ bump' = [bump EXCEPT !.c = @ + 1, !.pc = "resolve"] /\ decided' = decided
  <2>0. bump \in [pc : TickPCs, c : Nat, loaded : Files \cup {<<>>}, scan : Scan] /\ "resolve" \in TickPCs
    BY DEF TickTypes, TickPCs, ScanInv
  <2>1. /\ bump'.pc = "resolve" /\ bump'.c = bump.c + 1 /\ bump'.loaded = bump.loaded /\ bump'.scan = bump.scan
        /\ bump' \in [pc : TickPCs, c : Nat, loaded : Files \cup {<<>>}, scan : Scan]
    <3>1. bump.c + 1 \in Nat
      BY <2>0
    <3> DEFINE k == bump.c + 1
    <3> HIDE DEF k
    <3>2. k \in Nat /\ bump' = [bump EXCEPT !.c = k, !.pc = "resolve"]
      BY <1>4, <3>1 DEF k
    <3>3. /\ bump'.pc = "resolve" /\ bump'.c = k /\ bump'.loaded = bump.loaded /\ bump'.scan = bump.scan
          /\ bump' \in [pc : TickPCs, c : Nat, loaded : Files \cup {<<>>}, scan : Scan]
      BY <2>0, <3>2
    <3> QED
      BY <3>3 DEF k
  <2>2. TickTypes'
    BY <1>1, <1>4, <2>1 DEF TickTypes, ScanInv
  <2>3. Scanned'
    BY <1>1, <2>1 DEF Scanned, ScanInv, Published
  <2> QED
    BY <1>1, <1>2, <2>1, <2>2, <2>3
<1> QED
  BY <1>3, <1>4 DEF NextConfig

\* A restart.
LEMMA RestartMoves ==
    ASSUME ScanInv, RestartWatcher
    PROVE  /\ TickTypes' /\ Scanned' /\ GitTypes' /\ bump'.pc = "idle"
           /\ clone' = [tree |-> tracked, branch |-> tracked, on |-> 0, synced |-> TRUE, unpushed |-> {}]
<1>1. /\ bump' = Idle /\ decided' = [c \in Configs |-> "none"]
      /\ clone' = [tree |-> tracked, branch |-> tracked, on |-> 0, synced |-> TRUE, unpushed |-> {}]
      /\ UNCHANGED <<policy, published, tracked, proposal, pr, checked, deployed, carried, offered>>
  BY DEF RestartWatcher, remote
<1>2. clone' \in Clone
  BY <1>1, FreshClone DEF ScanInv, GitTypes
<1>3. GitTypes'
  BY <1>1, <1>2 DEF ScanInv, GitTypes, Clone
<1> QED
  BY <1>1, <1>3, NoScanType DEF TickTypes, TickPCs, Scanned, ScanInv, Idle, NoScan

\* A push to the registry takes no tag away.
LEMMA PublishMoves ==
    ASSUME ScanInv, NEW p \in Pushable, Publish(p[1], p[2])
    PROVE  /\ TickTypes' /\ Scanned' /\ GitTypes' /\ Published \subseteq Published'
<1>1. /\ published' = [published EXCEPT ![p[1]] = p[2]]
      /\ UNCHANGED <<policy, tracked, proposal, pr, checked, clone, bump, decided, deployed, carried, offered>>
  BY DEF Publish, remote, verdicts
<1>2. p[1] \in Tags /\ p[2] \in Nat /\ p[2] # NoDigest
  BY ImagesAssumption
<1>3. published \in [Tags -> Nat]
  BY DEF ScanInv, TickTypes
<1>4. published' \in [Tags -> Nat] /\ Published \subseteq Published'
  BY <1>1, <1>2, <1>3 DEF Published
<1>5. Cur' = Cur /\ Pol' = Pol
  BY <1>1 DEF Cur, Pol
<1>6. TickTypes'
  BY <1>1, <1>4 DEF ScanInv, TickTypes
<1>7. Scanned'
  <2>1. bump.scan.listed \subseteq Published'
    BY <1>4 DEF ScanInv, Scanned
  <2>2. bump.pc = "pin" => bump.scan.resolved.tag \in Published'
    BY <1>4 DEF ScanInv, Scanned
  <2> QED
    BY <1>1, <1>5, <2>1, <2>2 DEF ScanInv, Scanned
<1>8. GitTypes'
  BY <1>1 DEF ScanInv, GitTypes
<1> QED
  BY <1>4, <1>6, <1>7, <1>8

\* The registry and the tick are left alone.
LEMMA QuietTick ==
    ASSUME ScanInv, UNCHANGED <<policy, published, bump, decided, offered>> PROVE TickTypes' /\ Scanned'
<1>1. Cur' = Cur /\ Pol' = Pol /\ Published' = Published
  BY DEF Cur, Pol, Published
<1> QED
  BY <1>1 DEF ScanInv, TickTypes, Scanned

\* A person edits another line of a file.
LEMMA EditMoves ==
    ASSUME ScanInv, NEW c \in Configs, Edit(c)
    PROVE  /\ TickTypes' /\ Scanned' /\ GitTypes'
           /\ \A d \in Configs : tracked'[d].ref = tracked[d].ref
           /\ clone' = [clone EXCEPT !.synced = FALSE]
<1>1. /\ tracked' = [tracked EXCEPT ![c].rev = @ + 1] /\ clone' = [clone EXCEPT !.synced = FALSE]
      /\ UNCHANGED <<policy, published, proposal, pr, checked, bump, decided, deployed, carried, offered>>
  BY DEF Edit, verdicts
<1>2. tracked \in Files /\ clone \in Clone
  BY DEF ScanInv, GitTypes, Clone
<1>3. [tracked[c] EXCEPT !.rev = @ + 1] \in File /\ [tracked[c] EXCEPT !.rev = @ + 1].ref = tracked[c].ref
  BY <1>2 DEF Files, File
<1>4. tracked' \in Files /\ \A d \in Configs : tracked'[d].ref = tracked[d].ref
  BY <1>1, <1>2, <1>3 DEF Files
<1>5. clone' \in Clone
  BY <1>1, <1>2 DEF Clone
<1>6. GitTypes'
  BY <1>1, <1>4, <1>5 DEF ScanInv, GitTypes, Clone
<1> QED
  BY <1>1, <1>4, <1>6, QuietTick

\* A pull request is closed, or its checks pass.
LEMMA ReviewMoves ==
    ASSUME ScanInv, NEW c \in Configs, Close(c) \/ Checks(c)
    PROVE  TickTypes' /\ Scanned' /\ GitTypes' /\ UNCHANGED <<tracked, proposal, clone, bump, deployed, carried>>
<1>1. UNCHANGED <<policy, published, tracked, proposal, clone, bump, decided, deployed, carried, offered>>
  BY DEF Close, Checks, verdicts
<1>2. pr' \in [Configs -> BOOLEAN] /\ checked' \in [Configs -> BOOLEAN]
  BY DEF ScanInv, GitTypes, Close, Checks
<1> QED
  BY <1>1, <1>2, QuietTick DEF ScanInv, GitTypes

\* What a merge makes of the tracked branch.
Merged(c) == [d \in Configs |-> IF proposal[c][d] = NoChange THEN tracked[d] ELSE [tracked[d] EXCEPT !.ref = proposal[c][d].ref]]

\* A proposal changes references forward.
ProposalsForward ==
    \A c, d \in Configs : proposal[c][d] # NoChange => Fwd(proposal[c][d].base, proposal[c][d].ref)

\* A proposal is merged: if proposals go forward, so does every file it changes.
LEMMA MergeMoves ==
    ASSUME ScanInv, NEW c \in Configs, Merge(c)
    PROVE  /\ TickTypes' /\ Scanned' /\ GitTypes' /\ tracked' = Merged(c) /\ carried' = Carry(Merged(c))
           /\ Merged(c) \in Files
           /\ ProposalsForward => \A d \in Configs : Fwd(tracked[d].ref, tracked'[d].ref)
           /\ clone' = [clone EXCEPT !.synced = FALSE]
           /\ UNCHANGED <<proposal, bump, deployed>>
<1>1. /\ tracked' = Merged(c) /\ carried' = Carry(Merged(c)) /\ pr' = [pr EXCEPT ![c] = FALSE]
      /\ clone' = [clone EXCEPT !.synced = FALSE]
      /\ \A d \in Configs : proposal[c][d] = NoChange \/ tracked[d].ref \in {proposal[c][d].base, proposal[c][d].ref}
      /\ UNCHANGED <<policy, published, proposal, checked, bump, decided, deployed, offered>>
  BY DEF Merge, Merged, verdicts
<1>2. tracked \in Files /\ clone \in Clone /\ pr \in [Configs -> BOOLEAN]
  BY DEF ScanInv, GitTypes, Clone
<1>3. ASSUME NEW d \in Configs
      PROVE  Merged(c)[d] \in File /\ (ProposalsForward => Fwd(tracked[d].ref, Merged(c)[d].ref))
  <2>1. tracked[d] \in File /\ tracked[d].ref \in ImageRef
    BY <1>2 DEF Files, File
  <2>2. CASE proposal[c][d] = NoChange
    <3>1. Merged(c)[d] = tracked[d]
      BY <2>2 DEF Merged
    <3> QED
      BY <2>1, <3>1, FwdOrder
  <2>3. CASE proposal[c][d] # NoChange
    <3>1. /\ proposal[c][d].base \in ImageRef /\ proposal[c][d].ref \in ImageRef
          /\ ProposalsForward => Fwd(proposal[c][d].base, proposal[c][d].ref)
      BY <2>3 DEF ProposalsForward, ScanInv, GitTypes, Proposal
    <3>2. Merged(c)[d] = [tracked[d] EXCEPT !.ref = proposal[c][d].ref]
      BY <2>3 DEF Merged
    <3>3. Merged(c)[d] \in File /\ Merged(c)[d].ref = proposal[c][d].ref
      BY <2>1, <3>1, <3>2 DEF File
    <3> QED
      BY <1>1, <2>3, <3>1, <3>3, FwdOrder
  <2> QED
    BY <2>2, <2>3
<1>4. Merged(c) \in Files
  BY <1>3 DEF Merged, Files
<1>5. carried' \in [Configs -> SUBSET ImageRef]
  BY <1>1, <1>4, CarryType DEF ScanInv
<1>6. clone' \in Clone /\ pr' \in [Configs -> BOOLEAN]
  BY <1>1, <1>2 DEF Clone
<1>7. GitTypes'
  BY <1>1, <1>4, <1>5, <1>6 DEF ScanInv, GitTypes, Clone
<1> QED
  BY <1>1, <1>3, <1>4, <1>7, QuietTick

\* A step of a scan leaves Git alone.
LEMMA GitAlone ==
    ASSUME ScanInv, ScanMoves, UNCHANGED <<tracked, proposal, pr, checked, clone, carried>> PROVE GitTypes'
BY DEF ScanInv, ScanMoves, GitTypes

\* ScanInv holds at the start.
LEMMA ScanInit == ImagesInit => ScanInv
<1> SUFFICES ASSUME ImagesInit PROVE ScanInv
  OBVIOUS
<1>1. PICK s \in Setups : /\ policy = s.policy /\ published = s.tags
                          /\ tracked = [c \in Configs |-> [ref |-> s.refs[c], rev |-> 0]]
  BY DEF ImagesInit
<1>2. s.refs \in [Configs -> ImageRef] /\ s.tags \in [Tags -> Nat]
  BY ImagesAssumption DEF ImageRef
<1>3. tracked \in Files
  BY <1>1, <1>2 DEF Files, File
<1>4. clone \in Clone
  BY <1>3, FreshClone DEF ImagesInit
<1>5. \A c \in Configs : tracked[c].ref \in ImageRef
  BY <1>3 DEF Files, File
<1>6. proposal \in [Configs -> [Configs -> Proposal]]
  BY DEF ImagesInit, Proposal
<1>7. pr \in [Configs -> BOOLEAN] /\ checked \in [Configs -> BOOLEAN]
  BY DEF ImagesInit
<1>8. deployed \in [Configs -> ImageRef] /\ carried \in [Configs -> SUBSET ImageRef]
  BY <1>5 DEF ImagesInit
<1>9. GitTypes
  BY <1>3, <1>4, <1>6, <1>7, <1>8 DEF GitTypes, Clone
<1>10. bump = Idle /\ DOMAIN decided = Configs /\ offered = {}
  BY DEF ImagesInit
<1>11. TickTypes
  BY <1>1, <1>2, <1>10, NoScanType DEF TickTypes, TickPCs, Idle
<1>12. Scanned
  BY <1>10 DEF Scanned, Idle, NoScan
<1> QED
  BY <1>9, <1>11, <1>12 DEF ScanInv

\* Every step keeps ScanInv.
LEMMA ScanNext == ScanInv /\ [ImagesNext]_imageVars => ScanInv'
<1> SUFFICES ASSUME ScanInv, [ImagesNext]_imageVars PROVE TickTypes' /\ Scanned' /\ GitTypes'
  BY DEF ScanInv
<1>1. CASE Pull
  BY <1>1, PullMoves
<1>2. CASE NextConfig
  BY <1>2, NextConfigMoves
<1>3. CASE Resolve
  <2>1. ScanMoves
    BY <1>3, ResolveMoves
  <2>2. GitTypes'
    BY <1>3, <2>1, GitAlone DEF Resolve, remote
  <2> QED
    BY <2>1, <2>2 DEF ScanMoves
<1>4. CASE DigestMode
  <2>1. ScanMoves
    BY <1>4, DigestMoves
  <2>2. GitTypes'
    BY <1>4, <2>1, GitAlone DEF DigestMode, remote
  <2> QED
    BY <2>1, <2>2 DEF ScanMoves
<1>5. CASE ListTags
  <2>1. ScanMoves
    BY <1>5, ListMoves
  <2>2. GitTypes'
    BY <1>5, <2>1, GitAlone DEF ListTags, remote
  <2> QED
    BY <2>1, <2>2 DEF ScanMoves
<1>6. CASE SelectSemver
  <2>1. ScanMoves
    BY <1>6, SelectMoves
  <2>2. GitTypes'
    BY <1>6, <2>1, GitAlone DEF SelectSemver, remote
  <2> QED
    BY <2>1, <2>2 DEF ScanMoves
<1>7. CASE PinnedRef
  <2>1. ScanMoves
    BY <1>7, PinMoves
  <2>2. GitTypes'
    BY <1>7, <2>1, GitAlone DEF PinnedRef, remote
  <2> QED
    BY <2>1, <2>2 DEF ScanMoves
<1>8. CASE Migrate
  <2>1. ScanMoves
    BY <1>8, MigrateMoves
  <2>2. GitTypes'
    BY <1>8, <2>1, GitAlone DEF Migrate, remote
  <2> QED
    BY <2>1, <2>2 DEF ScanMoves
<1>9. CASE Patch
  <2>1. ScanMoves
    BY <1>9, PatchMoves
  <2>2. GitTypes'
    BY <1>9, <2>1, GitAlone DEF Patch, remote
  <2> QED
    BY <2>1, <2>2 DEF ScanMoves
<1>10. CASE CommitFile
  BY <1>10, CommitMoves DEF ScanMoves
<1>11. CASE Push
  BY <1>11, PushMoves
<1>12. CASE Match
  BY <1>12, MatchMoves DEF ScanMoves
<1>13. CASE CommitFileOnBranch
  BY <1>13, BranchMoves DEF ScanMoves
<1>14. CASE PushBranch
  BY <1>14, PushBranchMoves DEF ScanMoves
<1>15. CASE Propose \/ EnsureProposal
  BY <1>15, OpenMoves DEF ScanMoves, Propose, EnsureProposal
<1>16. CASE RestartWatcher
  BY <1>16, RestartMoves
<1>17. CASE \E p \in Pushable : Publish(p[1], p[2])
  BY <1>17, PublishMoves
<1>18. CASE \E c \in Configs : Edit(c) \/ Close(c) \/ Checks(c) \/ Merge(c)
  BY <1>18, EditMoves, ReviewMoves, MergeMoves
<1>19. CASE UNCHANGED imageVars
  BY <1>19, QuietTick DEF imageVars, ScanInv, GitTypes
<1> QED
  BY <1>1, <1>2, <1>3, <1>4, <1>5, <1>6, <1>7, <1>8, <1>9, <1>10, <1>11, <1>12, <1>13, <1>14, <1>15, <1>16, <1>17, <1>18, <1>19
     DEF ImagesNext, TickStep

(***************************************************************************)
(* Git, when every config of the repository writes back the same way.       *)
(***************************************************************************)
Pushes   == \A c \in Configs : policy[c].writeback = "push"
Proposes == \A c \in Configs : policy[c].writeback # "push"

\* The write-back of a config is the one its policy asks for.
Routed ==
    /\ bump.pc \in {"commit", "push"} => Pol.writeback = "push"
    /\ bump.pc \in {"match", "branch", "pushBranch", "open", "ensure"} => Pol.writeback # "push"

\* The tick in progress has yet to write config d.
Unvisited(d) == bump.pc # "idle" /\ (d > bump.c \/ (d = bump.c /\ bump.pc \notin {"push", "next"}))

\* Where configs are pushed, HEAD never leaves the tracked branch.  While nobody else
\* has moved that branch at the remote, the local one and the files are ahead of it,
\* and the configs that are still to be written are as they were loaded.
PushSide ==
    Pushes =>
      /\ clone.on = 0
      /\ bump.pc = "push" => clone.branch = clone.tree /\ clone.branch[bump.c].ref = bump.scan.ref
      /\ clone.synced => \A d \in Configs :
           /\ Fwd(tracked[d].ref, clone.branch[d].ref) /\ Fwd(tracked[d].ref, clone.tree[d].ref)
           /\ Unvisited(d) => /\ tracked[d].ref = bump.loaded[d].ref
                              /\ clone.tree[d].ref = bump.loaded[d].ref /\ clone.branch[d].ref = bump.loaded[d].ref

\* Where configs are proposed, the local tracked branch has nothing of its own and
\* lags behind the remote one.
ProposeSide ==
    Proposes =>
      /\ clone.unpushed = {}
      /\ \A d \in Configs : /\ Fwd(clone.branch[d].ref, tracked[d].ref)
                            /\ bump.pc # "idle" => Fwd(clone.branch[d].ref, bump.loaded[d].ref)

\* What is deployed or was loaded, the tracked branch has carried.
Carried ==
    \A c \in Configs :
        /\ tracked[c].ref \in carried[c] /\ deployed[c] \in carried[c]
        /\ bump.pc # "idle" => bump.loaded[c].ref \in carried[c]

GitInv == (Pushes \/ Proposes) /\ Routed /\ PushSide /\ ProposeSide /\ ProposalsForward /\ Carried

\* The references in the files.
LEMMA RefTypes ==
    ASSUME ScanInv, NEW d \in Configs
    PROVE  /\ tracked[d].ref \in ImageRef /\ clone.branch[d].ref \in ImageRef /\ clone.tree[d].ref \in ImageRef
           /\ bump.pc # "idle" => bump.loaded[d].ref \in ImageRef
BY CloneType DEF ScanInv, GitTypes, TickTypes, Files, File

\* A repository writes back one way only.
LEMMA OneWayOnly ==
    ASSUME Pushes \/ Proposes, NEW c \in Configs
    PROVE  (policy[c].writeback = "push" => Pushes /\ ~Proposes) /\ (policy[c].writeback # "push" => Proposes /\ ~Pushes)
BY DEF Pushes, Proposes

\* Configs are numbered.
LEMMA ConfigsNat == Configs \subseteq Nat
<1>1. \A n : 1..n \subseteq Nat
  OBVIOUS
<1> QED
  BY <1>1, ImagesAssumption

\* A step of a scan, as far as Git is concerned.
LEMMA ScanKeepsGit ==
    ASSUME ScanInv, GitInv, ScanMoves, UNCHANGED <<policy, tracked, proposal, clone, carried>>,
           bump.pc \notin {"idle", "next", "push"}, bump'.pc \notin {"idle", "push"}, Routed'
    PROVE  GitInv'
<1>1. /\ bump'.c = bump.c /\ bump'.loaded = bump.loaded
      /\ deployed' = deployed \/ deployed' = [deployed EXCEPT ![bump.c] = Cur]
  BY DEF ScanMoves, Goes
<1>2. (Pushes' <=> Pushes) /\ (Proposes' <=> Proposes) /\ (ProposalsForward' <=> ProposalsForward)
  BY DEF Pushes, Proposes, ProposalsForward
<1>3. \A d \in Configs : Unvisited(d)' => Unvisited(d)
  BY <1>1 DEF Unvisited
<1>4. PushSide'
  BY <1>1, <1>2, <1>3 DEF PushSide, GitInv
<1>5. ProposeSide'
  BY <1>1, <1>2 DEF ProposeSide, GitInv
<1>6. Carried'
  <2>1. ASSUME NEW c \in Configs PROVE deployed'[c] \in carried[c]
    <3>1. deployed \in [Configs -> ImageRef] /\ deployed[c] \in carried[c] /\ bump.loaded[c].ref \in carried[c]
      BY DEF GitInv, Carried, ScanInv, GitTypes
    <3>2. deployed'[c] = deployed[c] \/ (c = bump.c /\ deployed'[c] = Cur)
      BY <1>1, <3>1
    <3> QED
      BY <3>1, <3>2 DEF Cur
  <2> QED
    BY <1>1, <2>1 DEF Carried, GitInv
<1> QED
  BY <1>2, <1>4, <1>5, <1>6 DEF GitInv

\* The steps that leave Git alone.
LEMMA ScanStepsKeepGit ==
    ASSUME ScanInv, GitInv,
           Resolve \/ DigestMode \/ ListTags \/ SelectSemver \/ PinnedRef \/ Migrate \/ Patch \/ Match \/ Propose \/ EnsureProposal
    PROVE  GitInv'
<1> DEFINE Still == UNCHANGED <<policy, tracked, proposal, clone, carried>>
           From == bump.pc \notin {"idle", "next", "push"}
           To == bump'.pc \in {"next", "digest", "list", "select", "pin", "patch"}
<1>1. Still
  BY DEF Resolve, DigestMode, ListTags, SelectSemver, PinnedRef, Migrate, Patch, Match, Propose, EnsureProposal, remote
<1>2. From
  BY DEF Resolve, DigestMode, ListTags, SelectSemver, PinnedRef, Migrate, Patch, Match, Propose, EnsureProposal
<1>3. ASSUME ScanMoves PROVE Pol' = Pol
  BY <1>1, <1>3 DEF ScanMoves, Goes, Pol
<1>4. ASSUME ScanMoves, To PROVE GitInv'
  <2>1. Routed'
    BY <1>4 DEF Routed
  <2> QED
    BY <1>1, <1>2, <1>4, <2>1, ScanKeepsGit
<1>5. CASE Resolve
  BY <1>4, <1>5, ResolveMoves
<1>6. CASE DigestMode
  BY <1>4, <1>6, DigestMoves
<1>7. CASE ListTags
  BY <1>4, <1>7, ListMoves
<1>8. CASE SelectSemver
  BY <1>4, <1>8, SelectMoves
<1>9. CASE PinnedRef
  BY <1>4, <1>9, PinMoves
<1>10. CASE Migrate
  BY <1>4, <1>10, MigrateMoves
<1>11. CASE Patch
  <2>1. /\ ScanMoves /\ bump'.pc \in {"next", "commit", "match"}
        /\ bump'.pc = "commit" => Pol.writeback = "push"
        /\ bump'.pc = "match" => Pol.writeback # "push"
    BY <1>11, PatchMoves
  <2>2. Routed'
    BY <1>3, <2>1 DEF Routed
  <2> QED
    BY <1>1, <1>2, <2>1, <2>2, ScanKeepsGit
<1>12. CASE Match
  <2>1. ScanMoves /\ bump'.pc \in {"ensure", "branch"}
    BY <1>12, MatchMoves
  <2>2. Pol.writeback # "push"
    BY <1>12 DEF Match, GitInv, Routed
  <2>3. Routed'
    BY <1>3, <2>1, <2>2 DEF Routed
  <2> QED
    BY <1>1, <1>2, <2>1, <2>3, ScanKeepsGit
<1>13. CASE Propose \/ EnsureProposal
  <2>1. ScanMoves /\ bump'.pc = "next"
    BY <1>13, OpenMoves DEF Propose, EnsureProposal
  <2> QED
    BY <1>4, <2>1
<1> QED
  BY <1>5, <1>6, <1>7, <1>8, <1>9, <1>10, <1>11, <1>12, <1>13

\* The steps that write Git do not touch how configs write back.
LEMMA SameWay ==
    ASSUME policy' = policy PROVE (Pushes' <=> Pushes) /\ (Proposes' <=> Proposes)
BY DEF Pushes, Proposes

\* What a step of a scan or of the write-back deploys was loaded.
LEMMA GoesCarried ==
    ASSUME ScanInv, Carried, bump.pc # "idle", Goes, tracked' = tracked, carried' = carried
    PROVE  Carried'
<1>1. ASSUME NEW c \in Configs PROVE deployed'[c] \in carried[c]
  <2>1. deployed \in [Configs -> ImageRef] /\ deployed[c] \in carried[c] /\ bump.loaded[c].ref \in carried[c]
    BY DEF Carried, ScanInv, GitTypes
  <2>2. deployed'[c] = deployed[c] \/ (c = bump.c /\ deployed'[c] = Cur)
    BY <2>1 DEF Goes
  <2> QED
    BY <2>1, <2>2 DEF Cur
<1> QED
  BY <1>1 DEF Carried, Goes

\* CommitFile writes the config that was loaded last, ahead of what was loaded.
LEMMA CommitKeepsGit ==
    ASSUME ScanInv, GitInv, CommitFile PROVE GitInv'
<1>1. /\ bump.pc = "commit" /\ policy' = policy /\ UNCHANGED <<tracked, proposal, carried>>
  BY DEF CommitFile, remote
<1>2. /\ ScanMoves /\ bump'.pc \in {"push", "next"}
      /\ clone'.on = clone.on /\ clone'.synced = clone.synced
      /\ clone'.tree \in {clone.tree, Written}
      /\ clone'.branch = IF bump'.pc = "push" /\ clone.on = 0 THEN Written ELSE clone.branch
      /\ bump'.pc = "push" => bump'.scan = bump.scan /\ clone'.tree = Written
  BY CommitMoves
<1>3. /\ bump.c \in Configs /\ Patched.ref = bump.scan.ref /\ Fwd(Cur, bump.scan.ref)
      /\ \A d \in Configs : Written[d] = IF d = bump.c THEN Patched ELSE clone.tree[d]
  BY <1>1, WrittenType
<1>4. bump'.c = bump.c /\ bump'.loaded = bump.loaded /\ Pol' = Pol
  BY <1>1, <1>2 DEF ScanMoves, Goes, Pol
<1>5. Pol.writeback = "push"
  BY <1>1 DEF GitInv, Routed
<1>6. Pushes /\ ~Proposes /\ Pushes' /\ ~Proposes'
  BY <1>1, <1>3, <1>5, OneWayOnly, SameWay DEF GitInv, Pol
<1>7. Routed' /\ ProposalsForward'
  BY <1>1, <1>2, <1>4, <1>5 DEF Routed, GitInv, ProposalsForward
<1>8. Carried'
  BY <1>1, <1>2, GoesCarried DEF GitInv, ScanMoves
<1>9. clone.on = 0
  BY <1>6 DEF GitInv, PushSide
<1>10. bump'.pc = "push" => clone'.branch = clone'.tree /\ clone'.branch[bump.c].ref = bump.scan.ref
  BY <1>2, <1>3, <1>9
<1>11. ASSUME clone.synced, NEW d \in Configs
       PROVE  /\ Fwd(tracked[d].ref, clone'.branch[d].ref) /\ Fwd(tracked[d].ref, clone'.tree[d].ref)
              /\ d # bump.c => clone'.tree[d] = clone.tree[d] /\ clone'.branch[d] \in {clone.branch[d], clone.tree[d]}
  <2>1. Fwd(tracked[d].ref, clone.branch[d].ref) /\ Fwd(tracked[d].ref, clone.tree[d].ref)
    BY <1>6, <1>11 DEF GitInv, PushSide
  <2>2. d = bump.c => Fwd(tracked[d].ref, Patched.ref)
    <3>1. Unvisited(bump.c)
      BY <1>1 DEF Unvisited
    <3>2. tracked[bump.c].ref = Cur
      BY <1>3, <1>6, <1>11, <3>1 DEF GitInv, PushSide, Cur
    <3> QED
      BY <1>3, <3>2
  <2> QED
    BY <1>2, <1>3, <2>1, <2>2
<1>12. ASSUME clone.synced, NEW d \in Configs, Unvisited(d)'
       PROVE  /\ tracked[d].ref = bump.loaded[d].ref
              /\ clone'.tree[d].ref = bump.loaded[d].ref /\ clone'.branch[d].ref = bump.loaded[d].ref
  <2>1. d > bump.c
    BY <1>2, <1>4, <1>12 DEF Unvisited
  <2>2. Unvisited(d) /\ d # bump.c
    BY <1>1, <1>3, <2>1, ConfigsNat DEF Unvisited
  <2>3. /\ tracked[d].ref = bump.loaded[d].ref
        /\ clone.tree[d].ref = bump.loaded[d].ref /\ clone.branch[d].ref = bump.loaded[d].ref
    BY <1>6, <1>12, <2>2 DEF GitInv, PushSide
  <2> QED
    BY <1>11, <1>12, <2>2, <2>3
<1>13. PushSide'
  BY <1>1, <1>2, <1>4, <1>9, <1>10, <1>11, <1>12 DEF PushSide
<1> QED
  BY <1>6, <1>7, <1>8, <1>13 DEF GitInv, ProposeSide

\* Push: the tracked branch goes forward, and has what it is about to deploy.
LEMMA PushKeepsGit ==
    ASSUME ScanInv, GitInv, Push
    PROVE  GitInv' /\ \A d \in Configs : Fwd(tracked[d].ref, tracked'[d].ref)
<1>1. bump.pc = "push" /\ policy' = policy
  BY DEF Push
<1>2. /\ bump'.pc = "next" /\ bump'.c = bump.c /\ bump'.loaded = bump.loaded
      /\ clone'.on = clone.on /\ clone'.synced = clone.synced /\ clone'.tree = clone.tree /\ clone'.branch = clone.branch
      /\ proposal' = proposal
      /\ \/ Goes /\ tracked' = tracked /\ carried' = carried
         \/ /\ clone.synced /\ tracked' = clone.branch /\ carried' = Carry(clone.branch)
            /\ deployed' = [deployed EXCEPT ![bump.c] = bump.scan.ref]
  BY PushMoves
<1>3. bump.c \in Configs
  BY <1>1, WrittenType
<1>4. Pushes /\ ~Proposes /\ Pushes' /\ ~Proposes'
  BY <1>1, <1>3, OneWayOnly, SameWay DEF GitInv, Routed, Pol
<1>5. clone.on = 0 /\ clone.branch = clone.tree /\ clone.branch[bump.c].ref = bump.scan.ref
  BY <1>1, <1>4 DEF GitInv, PushSide
<1>6. Routed' /\ ProposalsForward'
  BY <1>2 DEF Routed, GitInv, ProposalsForward
<1>7. ASSUME NEW d \in Configs
      PROVE  /\ tracked[d].ref \in ImageRef /\ clone.branch[d].ref \in ImageRef
             /\ Fwd(tracked[d].ref, tracked[d].ref) /\ Fwd(clone.branch[d].ref, clone.branch[d].ref)
             /\ clone.synced => Fwd(tracked[d].ref, clone.branch[d].ref)
  BY <1>4, RefTypes, FwdOrder DEF GitInv, PushSide
<1>8. \A d \in Configs : Fwd(tracked[d].ref, tracked'[d].ref)
  BY <1>2, <1>7
<1>9. ASSUME NEW d \in Configs, Unvisited(d)', clone.synced
      PROVE  /\ tracked[d].ref = bump.loaded[d].ref
             /\ clone.tree[d].ref = bump.loaded[d].ref /\ clone.branch[d].ref = bump.loaded[d].ref
  <2>1. Unvisited(d)
    BY <1>1, <1>2, <1>9 DEF Unvisited
  <2> QED
    BY <1>4, <1>9, <2>1 DEF GitInv, PushSide
<1>10. PushSide'
  BY <1>2, <1>5, <1>7, <1>9 DEF PushSide
<1>11. Carried'
  <2>1. CASE Goes /\ tracked' = tracked /\ carried' = carried
    BY <1>1, <2>1, GoesCarried DEF GitInv
  <2>2. CASE /\ tracked' = clone.branch /\ carried' = Carry(clone.branch)
             /\ deployed' = [deployed EXCEPT ![bump.c] = bump.scan.ref]
    <3>1. clone.branch \in Files /\ deployed \in [Configs -> ImageRef]
      BY CloneType DEF ScanInv, GitTypes
    <3>2. \A c \in Configs : carried[c] \subseteq carried'[c] /\ clone.branch[c].ref \in carried'[c]
      BY <2>2, <3>1, CarryType DEF ScanInv
    <3>3. \A c \in Configs : deployed'[c] \in {deployed[c], clone.branch[c].ref}
      BY <1>5, <2>2, <3>1
    <3>4. \A c \in Configs : deployed[c] \in carried[c] /\ bump.loaded[c].ref \in carried[c]
      BY <1>1 DEF GitInv, Carried
    <3> QED
      BY <1>2, <2>2, <3>2, <3>3, <3>4 DEF Carried
  <2> QED
    BY <1>2, <2>1, <2>2
<1> QED
  BY <1>4, <1>6, <1>8, <1>10, <1>11 DEF GitInv, ProposeSide

\* CommitFileOnBranch and the push of the proposal branch: what is proposed is ahead
\* of the base it is proposed against.
LEMMA ProposalKeepsGit ==
    ASSUME ScanInv, GitInv, CommitFileOnBranch \/ PushBranch PROVE GitInv'
<1>1. bump.pc \in {"branch", "pushBranch"} /\ policy' = policy /\ UNCHANGED <<tracked, carried>>
  BY DEF CommitFileOnBranch, PushBranch, remote
<1>2. /\ ScanMoves /\ bump'.pc \in {"next", "ensure", "pushBranch", "open"}
      /\ clone'.branch = clone.branch /\ clone'.unpushed = clone.unpushed
      /\ \/ proposal' = proposal
         \/ bump.pc = "pushBranch" /\ proposal' = [proposal EXCEPT ![bump.c] = Proposed(bump.c)]
  <2>1. CASE CommitFileOnBranch
    BY <2>1, BranchMoves DEF CommitFileOnBranch, remote
  <2>2. CASE PushBranch
    BY <2>2, PushBranchMoves DEF PushBranch
  <2> QED
    BY <2>1, <2>2
<1>3. bump.c \in Configs /\ bump.scan.ref \in ImageRef /\ Fwd(Cur, bump.scan.ref)
  BY <1>1, WrittenType
<1>4. bump'.c = bump.c /\ bump'.loaded = bump.loaded /\ Pol' = Pol
  BY <1>1, <1>2 DEF ScanMoves, Goes, Pol
<1>5. Pol.writeback # "push"
  BY <1>1 DEF GitInv, Routed
<1>6. Proposes /\ ~Pushes /\ Proposes' /\ ~Pushes'
  BY <1>1, <1>3, <1>5, OneWayOnly, SameWay DEF GitInv, Pol
<1>7. Routed'
  BY <1>2, <1>4, <1>5 DEF Routed
<1>8. Carried'
  BY <1>1, <1>2, GoesCarried DEF GitInv, ScanMoves
<1>9. ProposeSide'
  BY <1>1, <1>2, <1>4, <1>6 DEF ProposeSide, GitInv
<1>10. ProposalsForward'
  <2>1. CASE proposal' = proposal
    BY <2>1 DEF ProposalsForward, GitInv
  <2>2. CASE bump.pc = "pushBranch" /\ proposal' = [proposal EXCEPT ![bump.c] = Proposed(bump.c)]
    <3>1. /\ Proposed(bump.c)[bump.c].ref = bump.scan.ref /\ Proposed(bump.c)[bump.c].base = clone.branch[bump.c].ref
          /\ \A d \in Configs : d # bump.c => Proposed(bump.c)[d] = NoChange
      BY <1>6, <2>2, ProposedType DEF GitInv, ProposeSide
    <3>2. Cur \in ImageRef /\ clone.branch[bump.c].ref \in ImageRef /\ Fwd(clone.branch[bump.c].ref, Cur)
      BY <1>1, <1>3, <1>6, RefTypes DEF GitInv, ProposeSide, Cur
    <3>3. Fwd(clone.branch[bump.c].ref, bump.scan.ref)
      BY <1>3, <3>2, FwdOrder
    <3>4. proposal \in [Configs -> [Configs -> Proposal]]
      BY DEF ScanInv, GitTypes
    <3>5. \A c \in Configs : proposal'[c] = IF c = bump.c THEN Proposed(bump.c) ELSE proposal[c]
      BY <2>2, <3>4
    <3> QED
      BY <3>1, <3>3, <3>5 DEF ProposalsForward, GitInv
  <2> QED
    BY <1>2, <2>1, <2>2
<1> QED
  BY <1>6, <1>7, <1>8, <1>9, <1>10 DEF GitInv, PushSide

\* A fresh checkout, at the start of a tick or after a restart.
LEMMA FreshKeepsGit ==
    ASSUME ScanInv, GitInv, policy' = policy, UNCHANGED <<tracked, proposal, deployed, carried>>,
           bump'.pc = "idle" \/ (bump'.pc = "next" /\ bump'.loaded = tracked),
           \/ clone' = [tree |-> tracked, branch |-> tracked, on |-> 0, synced |-> TRUE, unpushed |-> {}]
           \/ clone.on # 0 /\ clone'.branch = clone.branch /\ clone'.unpushed = clone.unpushed
    PROVE  GitInv'
<1>1. (Pushes' <=> Pushes) /\ (Proposes' <=> Proposes)
  BY SameWay
<1>2. Routed' /\ ProposalsForward' /\ Carried'
  BY DEF Routed, GitInv, ProposalsForward, Carried
<1>3. \A d \in Configs : Fwd(tracked[d].ref, tracked[d].ref)
  BY RefTypes, FwdOrder
<1>4. PushSide'
  <2>1. CASE clone' = [tree |-> tracked, branch |-> tracked, on |-> 0, synced |-> TRUE, unpushed |-> {}]
    <3>1. clone'.tree = tracked /\ clone'.branch = tracked /\ clone'.on = 0
      BY <2>1
    <3> QED
      BY <1>3, <3>1 DEF PushSide, Unvisited
  <2>2. CASE clone.on # 0
    BY <1>1, <2>2 DEF PushSide, GitInv
  <2> QED
    BY <2>1, <2>2
<1>5. ProposeSide'
  <2>1. CASE clone' = [tree |-> tracked, branch |-> tracked, on |-> 0, synced |-> TRUE, unpushed |-> {}]
    <3>1. clone'.branch = tracked /\ clone'.unpushed = {}
      BY <2>1
    <3> QED
      BY <1>3, <3>1 DEF ProposeSide
  <2>2. CASE clone'.branch = clone.branch /\ clone'.unpushed = clone.unpushed
    BY <1>1, <2>2 DEF ProposeSide, GitInv
  <2> QED
    BY <2>1, <2>2
<1> QED
  BY <1>1, <1>2, <1>4, <1>5 DEF GitInv

\* Going on with the next config.
LEMMA NextKeepsGit ==
    ASSUME ScanInv, GitInv, NextConfig PROVE GitInv'
<1>1. bump.pc = "next" /\ UNCHANGED <<policy, tracked, proposal, clone, deployed, carried>>
  BY DEF NextConfig, remote
<1>2. bump'.pc = "idle" \/ (bump'.pc = "resolve" /\ bump'.c = bump.c + 1 /\ bump'.loaded = bump.loaded)
  BY NextConfigMoves
<1>3. (Pushes' <=> Pushes) /\ (Proposes' <=> Proposes)
  BY <1>1, SameWay
<1>4. Routed' /\ ProposalsForward' /\ Carried'
  BY <1>1, <1>2 DEF Routed, GitInv, ProposalsForward, Carried
<1>5. \A d \in Configs : Unvisited(d)' => Unvisited(d) /\ bump'.loaded = bump.loaded
  <2>1. bump.c \in Nat
    BY DEF ScanInv, TickTypes
  <2> QED
    BY <1>1, <1>2, <2>1, ConfigsNat DEF Unvisited
<1>6. PushSide'
  BY <1>1, <1>2, <1>3, <1>5 DEF PushSide, GitInv
<1>7. ProposeSide'
  BY <1>1, <1>2, <1>3 DEF ProposeSide, GitInv
<1> QED
  BY <1>3, <1>4, <1>6, <1>7 DEF GitInv

\* Nothing of Git and nothing of the tick changes.
LEMMA QuietKeepsGit ==
    ASSUME GitInv, UNCHANGED <<policy, tracked, proposal, clone, bump, deployed, carried>> PROVE GitInv'
<1>1. (Pushes' <=> Pushes) /\ (Proposes' <=> Proposes)
  BY SameWay
<1>2. Routed' /\ ProposalsForward' /\ Carried'
  BY DEF Routed, GitInv, ProposalsForward, Carried, Pol
<1>3. PushSide' /\ ProposeSide'
  BY <1>1 DEF PushSide, ProposeSide, GitInv, Unvisited
<1> QED
  BY <1>1, <1>2, <1>3 DEF GitInv

\* The remote moves forward under the checkout, by an edit or by a merge.
LEMMA RemoteKeepsGit ==
    ASSUME ScanInv, ScanInv', GitInv, UNCHANGED <<policy, proposal, bump, deployed>>, clone' = [clone EXCEPT !.synced = FALSE],
           \A d \in Configs : /\ Fwd(tracked[d].ref, tracked'[d].ref)
                              /\ carried[d] \subseteq carried'[d] /\ tracked'[d].ref \in carried'[d]
    PROVE  GitInv'
<1>1. (Pushes' <=> Pushes) /\ (Proposes' <=> Proposes)
  BY SameWay
<1>2. Routed' /\ ProposalsForward' /\ Carried'
  BY DEF Routed, GitInv, ProposalsForward, Carried, Pol
<1>3. /\ clone'.tree = clone.tree /\ clone'.branch = clone.branch /\ clone'.on = clone.on /\ clone'.unpushed = clone.unpushed
      /\ clone'.synced = FALSE
  BY DEF ScanInv, GitTypes
<1>4. PushSide'
  BY <1>1, <1>3 DEF PushSide, GitInv
<1>5. ProposeSide'
  <2>1. ASSUME NEW d \in Configs, Proposes PROVE Fwd(clone.branch[d].ref, tracked'[d].ref)
    <3>1. clone.branch[d].ref \in ImageRef /\ tracked[d].ref \in ImageRef
      BY RefTypes
    <3>2. tracked'[d].ref \in ImageRef
      BY DEF ScanInv, GitTypes, Files, File
    <3>3. Fwd(clone.branch[d].ref, tracked[d].ref)
      BY <2>1 DEF GitInv, ProposeSide
    <3> QED
      BY <3>1, <3>2, <3>3, FwdOrder
  <2> QED
    BY <1>1, <1>3, <2>1 DEF ProposeSide, GitInv
<1> QED
  BY <1>1, <1>2, <1>4, <1>5 DEF GitInv

\* The configs of a repository all write back the same way.
Uniform == \A s \in Setups : \/ \A c \in Configs : s.policy[c].writeback = "push"
                             \/ \A c \in Configs : s.policy[c].writeback # "push"

\* GitInv holds at the start.
LEMMA GitInit == Uniform /\ ImagesInit => GitInv
<1> SUFFICES ASSUME Uniform, ImagesInit PROVE GitInv
  OBVIOUS
<1>1. ScanInv
  BY ScanInit
<1>2. /\ bump.pc = "idle" /\ clone = [tree |-> tracked, branch |-> tracked, on |-> 0, synced |-> TRUE, unpushed |-> {}]
      /\ proposal = [c \in Configs |-> [d \in Configs |-> NoChange]]
      /\ deployed = [c \in Configs |-> tracked[c].ref] /\ carried = [c \in Configs |-> {tracked[c].ref}]
  BY DEF ImagesInit, Idle
<1>3. Pushes \/ Proposes
  BY DEF ImagesInit, Uniform, Pushes, Proposes
<1>4. Routed /\ ProposalsForward /\ Carried
  BY <1>2 DEF Routed, ProposalsForward, Carried
<1>5. \A d \in Configs : Fwd(tracked[d].ref, tracked[d].ref)
  BY <1>1, RefTypes, FwdOrder
<1>6. PushSide /\ ProposeSide
  BY <1>2, <1>5 DEF PushSide, ProposeSide, Unvisited
<1> QED
  BY <1>3, <1>4, <1>6 DEF GitInv

\* Every step keeps GitInv and moves the tracked branch forward.
LEMMA GitNext ==
    ASSUME ScanInv, GitInv, [ImagesNext]_imageVars
    PROVE  GitInv' /\ \A d \in Configs : Fwd(tracked[d].ref, tracked'[d].ref)
<1>1. ScanInv'
  BY ScanNext
<1>2. ASSUME tracked' = tracked PROVE \A d \in Configs : Fwd(tracked[d].ref, tracked'[d].ref)
  BY <1>2, RefTypes, FwdOrder
<1>3. CASE Resolve \/ DigestMode \/ ListTags \/ SelectSemver \/ PinnedRef \/ Migrate \/ Patch \/ Match \/ Propose \/ EnsureProposal
  <2>1. tracked' = tracked
    BY <1>3 DEF Resolve, DigestMode, ListTags, SelectSemver, PinnedRef, Migrate, Patch, Match, Propose, EnsureProposal, remote
  <2> QED
    BY <1>2, <1>3, <2>1, ScanStepsKeepGit
<1>4. CASE CommitFile
  BY <1>2, <1>4, CommitKeepsGit DEF CommitFile, remote
<1>5. CASE Push
  BY <1>5, PushKeepsGit
<1>6. CASE CommitFileOnBranch \/ PushBranch
  BY <1>2, <1>6, ProposalKeepsGit DEF CommitFileOnBranch, PushBranch, remote
<1>7. CASE Pull
  <2>1. UNCHANGED <<policy, tracked, proposal, deployed, carried>>
    BY <1>7 DEF Pull, remote, verdicts
  <2> QED
    BY <1>2, <1>7, <2>1, PullMoves, FreshKeepsGit
<1>8. CASE RestartWatcher
  <2>1. UNCHANGED <<policy, tracked, proposal, deployed, carried>>
    BY <1>8 DEF RestartWatcher, remote
  <2> QED
    BY <1>2, <1>8, <2>1, RestartMoves, FreshKeepsGit
<1>9. CASE NextConfig
  BY <1>2, <1>9, NextKeepsGit DEF NextConfig, remote
<1>10. CASE \E p \in Pushable : Publish(p[1], p[2])
  BY <1>2, <1>10, QuietKeepsGit DEF Publish, remote, verdicts
<1>11. CASE \E c \in Configs : Close(c) \/ Checks(c)
  BY <1>2, <1>11, QuietKeepsGit DEF Close, Checks, verdicts
<1>12. ASSUME NEW c \in Configs, Edit(c) PROVE GitInv' /\ \A d \in Configs : Fwd(tracked[d].ref, tracked'[d].ref)
  <2>1. UNCHANGED <<policy, proposal, bump, deployed, carried>>
    BY <1>12 DEF Edit, verdicts
  <2>2. clone' = [clone EXCEPT !.synced = FALSE] /\ \A d \in Configs : tracked'[d].ref = tracked[d].ref
    BY <1>12, EditMoves
  <2>3. \A d \in Configs : /\ Fwd(tracked[d].ref, tracked'[d].ref)
                           /\ carried[d] \subseteq carried'[d] /\ tracked'[d].ref \in carried'[d]
    BY <2>1, <2>2, RefTypes, FwdOrder DEF GitInv, Carried
  <2> QED
    BY <1>1, <2>1, <2>2, <2>3, RemoteKeepsGit
<1>13. ASSUME NEW c \in Configs, Merge(c) PROVE GitInv' /\ \A d \in Configs : Fwd(tracked[d].ref, tracked'[d].ref)
  <2>1. /\ tracked' = Merged(c) /\ carried' = Carry(Merged(c)) /\ Merged(c) \in Files
        /\ \A d \in Configs : Fwd(tracked[d].ref, tracked'[d].ref)
        /\ clone' = [clone EXCEPT !.synced = FALSE] /\ UNCHANGED <<proposal, bump, deployed>>
    BY <1>13, MergeMoves DEF GitInv
  <2>2. policy' = policy
    BY <1>13 DEF Merge
  <2>3. \A d \in Configs : carried[d] \subseteq carried'[d] /\ tracked'[d].ref \in carried'[d]
    BY <2>1, CarryType DEF ScanInv
  <2> QED
    BY <1>1, <2>1, <2>2, <2>3, RemoteKeepsGit
<1>14. CASE UNCHANGED imageVars
  BY <1>2, <1>14, QuietKeepsGit DEF imageVars
<1> QED
  BY <1>3, <1>4, <1>5, <1>6, <1>7, <1>8, <1>9, <1>10, <1>11, <1>12, <1>13, <1>14 DEF ImagesNext, TickStep

\* The cluster never leads Git: where the configs of a repository all write back the
\* same way, what a tick deploys the tracked branch has carried, whatever fails and
\* whoever else moves the branch (imageauto.go, Process).
THEOREM FollowsGit == Uniform => (ImagesSpec => []ClusterFollowsGit)
<1> SUFFICES ASSUME Uniform PROVE ImagesSpec => []ClusterFollowsGit
  OBVIOUS
<1>1. ImagesInit => ScanInv /\ GitInv
  BY ScanInit, GitInit
<1>2. ScanInv /\ GitInv /\ [ImagesNext]_imageVars => ScanInv' /\ GitInv'
  BY ScanNext, GitNext
<1>3. GitInv => ClusterFollowsGit
  BY DEF GitInv, Carried, ClusterFollowsGit
<1> QED
  BY <1>1, <1>2, <1>3, PTL DEF ImagesSpec

\* Automation goes only forward: no step lowers a version or drops a pin, where the
\* configs of a repository all write back the same way (imageauto.go, resolve; repo.go).
THEOREM GoesForward == Uniform => (ImagesSpec => OnlyForward)
<1> SUFFICES ASSUME Uniform PROVE ImagesSpec => OnlyForward
  OBVIOUS
<1>1. ImagesInit => ScanInv /\ GitInv
  BY ScanInit, GitInit
<1>2. ScanInv /\ GitInv /\ [ImagesNext]_imageVars => ScanInv' /\ GitInv'
  BY ScanNext, GitNext
<1>3. ScanInv /\ GitInv /\ [ImagesNext]_imageVars =>
        [\A c \in Configs :
           LET old == tracked[c].ref
               new == tracked'[c].ref
           IN  /\ old.digest # NoDigest => new.digest # NoDigest
               /\ IsSemver(old.tag) => IsSemver(new.tag) /\ ~greater(old.tag.v, new.tag.v)]_imageVars
  BY GitNext DEF Fwd
<1> QED
  BY <1>1, <1>2, <1>3, PTL DEF ImagesSpec, OnlyForward

(***************************************************************************)
(* "current" is a checked verdict.                                          *)
(***************************************************************************)

\* The registry pages its list within the cap on pages, and every tag is on a page.
PagesCover ==
    \E n \in 1..PageCap : DOMAIN Pages = 1..n /\ \A t \in Tags : \E i \in 1..n : t \in Pages[i]

\* Of the tags that were published when the scan began, those on a page that was
\* read are listed.
Listing ==
    /\ offered \subseteq Published
    /\ bump.pc = "list" =>
         /\ bump.scan.page \in DOMAIN Pages
         /\ \A t \in offered, i \in DOMAIN Pages : i < bump.scan.page /\ t \in Pages[i] => t \in bump.scan.listed
    /\ bump.pc = "select" => offered \subseteq bump.scan.listed

\* Process goes on, or gives a verdict that is not "current".
LEMMA Judged ==
    ASSUME TickTypes, bump.pc \notin {"idle", "next"},
           \/ \E pc \in TickPCs \ {"next"} : \E s : Step(pc, s)
           \/ \E o, ref : o # "current" /\ Decide(o, ref)
    PROVE  bump'.pc = "next" => decided'[bump.c] # "current"
<1>1. bump.c \in Configs
  BY DEF TickTypes
<1>2. ASSUME NEW pc \in TickPCs \ {"next"}, NEW s, Step(pc, s) PROVE bump'.pc # "next"
  BY <1>2 DEF Step, TickTypes
<1>3. ASSUME NEW o, NEW ref, o # "current", Decide(o, ref) PROVE decided'[bump.c] # "current"
  BY <1>1, <1>3 DEF Decide, TickTypes
<1> QED
  BY <1>2, <1>3

\* Only three steps say "current".
LEMMA SaysCurrent ==
    ASSUME ScanInv,
           \/ ListTags \/ PinnedRef \/ Migrate \/ Patch \/ CommitFile \/ Push \/ Match \/ CommitFileOnBranch
           \/ PushBranch \/ Propose \/ EnsureProposal
    PROVE  bump'.pc = "next" => decided'[bump.c] # "current"
<1> DEFINE On == \E pc \in TickPCs \ {"next"} : \E s : Step(pc, s)
           Verdict == \E o, ref : o # "current" /\ Decide(o, ref)
<1>1. ASSUME Fails PROVE Verdict
  BY <1>1 DEF Fails
<1>2. ASSUME NEW pc \in {"list", "select", "patch", "commit", "match", "push", "ensure", "branch", "pushBranch", "open"}, NEW s, Step(pc, s)
      PROVE  On
  BY <1>2 DEF TickPCs
<1>3. ASSUME ListTags PROVE On \/ Verdict
  BY <1>1, <1>2, <1>3 DEF ListTags
<1>4. ASSUME PinnedRef PROVE On \/ Verdict
  BY <1>2, <1>4 DEF PinnedRef
<1>5. ASSUME Migrate PROVE On \/ Verdict
  BY <1>2, <1>5 DEF Migrate
<1>6. ASSUME Patch PROVE On \/ Verdict
  <2>1. CASE \E o \in {"pinned", "error"} : Decide(o, Cur)
    BY <2>1
  <2>2. CASE \E pc \in {"commit", "match"} : Step(pc, bump.scan)
    BY <1>2, <2>2
  <2> QED
    BY <1>6, <2>1, <2>2 DEF Patch
<1>7. ASSUME CommitFile PROVE On \/ Verdict
  BY <1>1, <1>2, <1>7 DEF CommitFile
<1>8. ASSUME Push PROVE On \/ Verdict
  BY <1>8 DEF Push, PushFailed
<1>9. ASSUME Match PROVE On \/ Verdict
  <2>1. PICK pc \in {"ensure", "branch"} : Step(pc, bump.scan)
    BY <1>9 DEF Match
  <2> QED
    BY <1>2, <2>1
<1>10. ASSUME CommitFileOnBranch PROVE On \/ Verdict
  <2>1. Fails \/ \E pc \in {"ensure", "pushBranch"} : Step(pc, [bump.scan EXCEPT !.ref = Patched.ref])
    BY <1>10 DEF CommitFileOnBranch
  <2> QED
    BY <1>1, <1>2, <2>1
<1>11. ASSUME PushBranch PROVE On \/ Verdict
  BY <1>1, <1>2, <1>11 DEF PushBranch
<1>12. ASSUME Propose \/ EnsureProposal PROVE On \/ Verdict
  BY <1>1, <1>12 DEF Propose, EnsureProposal, OpenPullRequest
<1>13. bump.pc \notin {"idle", "next"}
  BY DEF ListTags, PinnedRef, Migrate, Patch, CommitFile, Push, Match, CommitFileOnBranch, PushBranch, Propose, EnsureProposal
<1>14. On \/ Verdict
  BY <1>3, <1>4, <1>5, <1>6, <1>7, <1>8, <1>9, <1>10, <1>11, <1>12
<1> QED
  BY <1>13, <1>14, Judged DEF ScanInv

\* The head of Process begins a list at its first page.
LEMMA ResolveBegins ==
    ASSUME ScanInv, Resolve
    PROVE  /\ bump'.pc = "list" => bump'.scan.page = 1
           /\ bump'.pc = "next" => decided'[bump.c] # "current" \/ ~IsSemver(Cur.tag)
<1>1. bump.pc = "resolve" /\ TickTypes /\ bump.c \in Configs /\ Cur \in ImageRef
  BY CurType DEF Resolve, ScanInv
<1>2. CASE Pol.mode = "none" /\ Decide("disabled", Cur)
  BY <1>1, <1>2, DecideEffect DEF TickTypes
<1>3. CASE \E x \in LooseRef, pc \in {"digest", "list"} : Step(pc, [NoScan EXCEPT !.pinned = x])
  <2>1. PICK x \in LooseRef, pc \in {"digest", "list"} : Step(pc, [NoScan EXCEPT !.pinned = x])
    BY <1>3
  <2>2. [NoScan EXCEPT !.pinned = x] \in Scan /\ [NoScan EXCEPT !.pinned = x].page = 1
    BY NoScanType DEF NoScan, Scan
  <2>3. bump'.pc = pc /\ bump'.scan.page = 1
    BY <1>1, <2>1, <2>2, StepEffect DEF TickPCs
  <2> QED
    BY <2>3
<1>4. CASE ~IsSemver(Cur.tag) /\ Decide("current", Cur)
  BY <1>1, <1>4, DecideEffect
<1>5. [Cur EXCEPT !.tag = NoTag] \in LooseRef /\ [Cur EXCEPT !.digest = NoDigest] \in LooseRef
  BY <1>1 DEF ImageRef, LooseRef, NoDigest
<1> QED
  BY <1>2, <1>3, <1>4, <1>5 DEF Resolve

\* A list that ends has read every page.
LEMMA ListKeepsListing ==
    ASSUME PagesCover, ScanInv, Listing, ListTags PROVE Listing'
<1>1. /\ bump.pc = "list" /\ offered' = offered /\ published' = published
  BY DEF ListTags
<1>2. /\ bump'.pc \in {"next", "list", "select"}
      /\ bump'.pc # "next" =>
           /\ bump'.scan.listed = bump.scan.listed \cup (Published \cap Pages[bump.scan.page])
           /\ bump'.pc = IF MorePages(bump.scan.page) THEN "list" ELSE "select"
           /\ bump'.pc = "list" => bump'.scan.page = bump.scan.page + 1
  BY ListMoves
<1>3. PICK n \in 1..PageCap : DOMAIN Pages = 1..n /\ \A t \in Tags : \E i \in 1..n : t \in Pages[i]
  BY DEF PagesCover
<1>4. /\ offered \subseteq Published /\ Published' = Published /\ offered \subseteq Tags
      /\ bump.scan.page \in 1..n
      /\ \A t \in offered, i \in 1..n : i < bump.scan.page /\ t \in Pages[i] => t \in bump.scan.listed
  BY <1>1, <1>3 DEF Listing, Published
<1>5. n \in Nat /\ PageCap \in Nat /\ n <= PageCap
  BY <1>3, ImagesAssumption
<1>6. ASSUME bump'.pc # "next", NEW t \in offered, NEW i \in 1..n, i < bump.scan.page + 1, t \in Pages[i]
      PROVE  t \in bump'.scan.listed
  <2>1. i < bump.scan.page \/ i = bump.scan.page
    BY <1>4, <1>5, <1>6
  <2> QED
    BY <1>2, <1>4, <1>6, <2>1
<1>7. bump'.pc = "list" => bump'.scan.page \in 1..n
  BY <1>2, <1>3 DEF MorePages
<1>8. ASSUME bump'.pc = "select", NEW t \in offered PROVE t \in bump'.scan.listed
  <2>1. ~MorePages(bump.scan.page)
    BY <1>2, <1>8
  <2>2. bump.scan.page = n
    BY <1>3, <1>4, <1>5, <2>1 DEF MorePages
  <2>3. PICK i \in 1..n : t \in Pages[i]
    BY <1>3, <1>4
  <2> QED
    BY <1>5, <1>6, <1>8, <2>2, <2>3
<1> QED
  BY <1>1, <1>2, <1>3, <1>4, <1>6, <1>7, <1>8 DEF Listing

\* A tick reads every page before it calls a config current.
LEMMA ListingNext ==
    ASSUME PagesCover, ScanInv, Listing, [ImagesNext]_imageVars PROVE Listing'
<1>1. ASSUME offered' = offered, Published \subseteq Published', bump'.pc \notin {"list", "select"} \/ bump' = bump PROVE Listing'
  BY <1>1 DEF Listing
<1>2. ASSUME published' = published PROVE Published' = Published
  BY <1>2 DEF Published
<1>3. CASE Pull
  BY <1>1, <1>2, <1>3, PullMoves DEF Pull
<1>4. CASE NextConfig
  <2>1. offered' = {} /\ bump'.pc \notin {"list", "select"}
    BY <1>4, NextConfigMoves
  <2> QED
    BY <2>1 DEF Listing
<1>5. CASE Resolve
  <2>1. offered' = Published /\ Published' = Published
    BY <1>2, <1>5 DEF Resolve
  <2>2. bump'.pc \in {"next", "digest", "list"} /\ (bump'.pc = "list" => bump'.scan.page = 1)
    BY <1>5, ResolveMoves, ResolveBegins
  <2>3. PICK n \in 1..PageCap : DOMAIN Pages = 1..n
    BY DEF PagesCover
  <2>4. 1 \in DOMAIN Pages /\ \A i \in DOMAIN Pages : ~(i < 1)
    BY <2>3, ImagesAssumption
  <2> QED
    BY <2>1, <2>2, <2>4 DEF Listing
<1>6. CASE ListTags
  BY <1>6, ListKeepsListing
<1>7. CASE DigestMode
  BY <1>1, <1>2, <1>7, DigestMoves DEF DigestMode
<1>8. CASE SelectSemver
  BY <1>1, <1>2, <1>8, SelectMoves DEF SelectSemver
<1>9. CASE PinnedRef
  BY <1>1, <1>2, <1>9, PinMoves DEF PinnedRef
<1>10. CASE Migrate
  BY <1>1, <1>2, <1>10, MigrateMoves DEF Migrate
<1>11. CASE Patch
  BY <1>1, <1>2, <1>11, PatchMoves DEF Patch
<1>12. CASE CommitFile
  BY <1>1, <1>2, <1>12, CommitMoves DEF CommitFile
<1>13. CASE Push
  BY <1>1, <1>2, <1>13, PushMoves DEF Push
<1>14. CASE Match
  BY <1>1, <1>2, <1>14, MatchMoves DEF Match
<1>15. CASE CommitFileOnBranch
  BY <1>1, <1>2, <1>15, BranchMoves DEF CommitFileOnBranch
<1>16. CASE PushBranch
  BY <1>1, <1>2, <1>16, PushBranchMoves DEF PushBranch
<1>17. CASE Propose \/ EnsureProposal
  BY <1>1, <1>2, <1>17, OpenMoves DEF Propose, EnsureProposal
<1>18. CASE RestartWatcher
  BY <1>1, <1>2, <1>18, RestartMoves DEF RestartWatcher
<1>19. CASE \E p \in Pushable : Publish(p[1], p[2])
  BY <1>1, <1>19, PublishMoves DEF Publish
<1>20. CASE \E c \in Configs : Edit(c) \/ Close(c) \/ Checks(c) \/ Merge(c)
  BY <1>1, <1>2, <1>20 DEF Edit, Close, Checks, Merge
<1>21. CASE UNCHANGED imageVars
  BY <1>1, <1>2, <1>21 DEF imageVars
<1> QED
  BY <1>3, <1>4, <1>5, <1>6, <1>7, <1>8, <1>9, <1>10, <1>11, <1>12, <1>13, <1>14, <1>15, <1>16, <1>17, <1>18, <1>19, <1>20, <1>21
     DEF ImagesNext, TickStep

\* A verdict stands on the tags that were offered.
LEMMA NewestNext ==
    ASSUME PagesCover, ScanInv, Listing, CurrentIsNewest, [ImagesNext]_imageVars PROVE CurrentIsNewest'
<1> SUFFICES ASSUME NEW c \in Configs, bump'.pc = "next", bump'.c = c, decided'[c] = "current",
                    policy'[c].mode # "digest", IsSemver(bump'.loaded[c].ref.tag)
             PROVE  SelectTag(bump'.loaded[c].ref.tag, offered', policy'[c]) = NoTag
  BY DEF CurrentIsNewest
<1>1. ASSUME UNCHANGED <<bump, decided, policy, offered>> PROVE SelectTag(bump'.loaded[c].ref.tag, offered', policy'[c]) = NoTag
  BY <1>1 DEF CurrentIsNewest
<1>2. ASSUME bump'.c = bump.c, bump'.loaded = bump.loaded, policy' = policy
      PROVE  c = bump.c /\ IsSemver(Cur.tag) /\ Pol.mode # "digest" /\ bump'.loaded[c].ref.tag = Cur.tag /\ policy'[c] = Pol
  BY <1>2 DEF Cur, Pol
<1>3. ASSUME ScanMoves PROVE bump'.c = bump.c /\ bump'.loaded = bump.loaded
  BY <1>3 DEF ScanMoves, Goes
<1>4. CASE \/ ListTags \/ PinnedRef \/ Migrate \/ Patch \/ CommitFile \/ Push \/ Match \/ CommitFileOnBranch
           \/ PushBranch \/ Propose \/ EnsureProposal
  <2>1. decided'[bump.c] # "current"
    BY <1>4, SaysCurrent
  <2>2. CASE Push
    BY <2>1, <2>2, PushMoves
  <2>3. CASE ~Push
    <3>1. ScanMoves
      BY <1>4, <2>3, ListMoves, PinMoves, MigrateMoves, PatchMoves, CommitMoves, MatchMoves, BranchMoves, PushBranchMoves, OpenMoves
         DEF Propose, EnsureProposal
    <3> QED
      BY <1>3, <2>1, <3>1
  <2> QED
    BY <2>2, <2>3
<1>5. CASE Resolve
  BY <1>2, <1>3, <1>5, ResolveMoves, ResolveBegins DEF Resolve
<1>6. CASE DigestMode
  <2>1. Pol.mode = "digest"
    BY <1>6 DEF DigestMode, ScanInv, Scanned
  <2> QED
    BY <1>2, <1>3, <1>6, <2>1, DigestMoves DEF DigestMode
<1>7. CASE SelectSemver
  <2>1. /\ ScanMoves /\ offered' = offered /\ Newer(Cur.tag, bump.scan.listed, Pol) = {}
    BY <1>7, SelectMoves
  <2>2. offered \subseteq bump.scan.listed /\ offered \in SUBSET Tags
    BY <1>7 DEF SelectSemver, Listing, ScanInv, TickTypes
  <2>3. Newer(Cur.tag, offered, Pol) = {}
    BY <2>1, <2>2 DEF Newer
  <2>4. SelectTag(Cur.tag, offered, Pol) = NoTag
    BY <2>2, <2>3, Selected
  <2> QED
    BY <1>2, <1>3, <1>7, <2>1, <2>4 DEF SelectSemver
<1>8. CASE Pull
  <2>1. 0 \notin Configs
    <3>1. \A n : 0 \notin 1..n
      OBVIOUS
    <3> QED
      BY <3>1, ImagesAssumption
  <2> QED
    BY <1>8, <2>1, PullMoves
<1>9. CASE NextConfig
  BY <1>9, NextConfigMoves
<1>10. CASE RestartWatcher
  BY <1>10, RestartMoves
<1>11. CASE \E p \in Pushable : Publish(p[1], p[2])
  BY <1>1, <1>11 DEF Publish, verdicts
<1>12. CASE \E d \in Configs : Edit(d) \/ Close(d) \/ Checks(d) \/ Merge(d)
  BY <1>1, <1>12 DEF Edit, Close, Checks, Merge, verdicts
<1>13. CASE UNCHANGED imageVars
  BY <1>1, <1>13 DEF imageVars
<1> QED
  BY <1>4, <1>5, <1>6, <1>7, <1>8, <1>9, <1>10, <1>11, <1>12, <1>13 DEF ImagesNext, TickStep

\* "current" is a checked verdict: if the registry's pages are within the cap, no tag
\* that was published when the scan of a config began is one its policy would move to
\* (imageauto.go, Process; scan.go, Tags).
THEOREM CurrentIsChecked == PagesCover => (ImagesSpec => []CurrentIsNewest)
<1> SUFFICES ASSUME PagesCover PROVE ImagesSpec => []CurrentIsNewest
  OBVIOUS
<1>1. ImagesInit => ScanInv /\ Listing /\ CurrentIsNewest
  <2> SUFFICES ASSUME ImagesInit PROVE ScanInv /\ Listing /\ CurrentIsNewest
    OBVIOUS
  <2>1. bump.pc = "idle" /\ offered = {}
    BY DEF ImagesInit, Idle
  <2> QED
    BY <2>1, ScanInit DEF Listing, CurrentIsNewest
<1>2. ScanInv /\ Listing /\ CurrentIsNewest /\ [ImagesNext]_imageVars => ScanInv' /\ Listing' /\ CurrentIsNewest'
  BY ScanNext, ListingNext, NewestNext
<1> QED
  BY <1>1, <1>2, PTL DEF ImagesSpec
===============================================================================
