---------------------------- MODULE SupplyProofs ----------------------------
(***************************************************************************)
(* Proofs about the two doors of the supply chain: the artifact gate, for   *)
(* any digests, settings, attestations and outages, and the plugin host,    *)
(* for any number of calls, binaries and installs.                          *)
(***************************************************************************)
EXTENDS Artifacts, Plugins, SequenceTheorems, WellFoundedInduction, TLAPS

(***************************************************************************)
(* The artifact gate.                                                       *)
(***************************************************************************)

ShipPCs == {"idle", "signature", "provenance", "source", "join", "summary", "cleared", "awaiting", "shipped"}
ShipRecord ==
  [pc : ShipPCs, ref : Digests \cup {"tag"}, at : Nat, envelopes : SUBSET Attachments,
   builtFrom : {SourceCommit(a) : a \in Attachments} \cup {""}, dark : BOOLEAN, image : Digests \cup {""}]

ArtifactTypes ==
  /\ tag \in Digests
  /\ attached \in [Digests -> Seq(Attachments)]
  /\ ship \in ShipRecord

\* Where the chain of verifiers has got to.
Chained(s, env) ==
  /\ s.pc = "idle" => s.at = 0 /\ ~s.dark
  /\ s.pc = "signature" => env.cosign /\ s.at = 1
  /\ s.pc = "provenance" => HasProvenance(env) /\ s.at = 2
  /\ s.pc \in {"source", "join", "summary"} => env.gateKeys # {} /\ s.at = Len(artifactGate(env))
  /\ s.pc = "shipped" /\ s.ref # "tag" => s.image = s.ref

Reached(s, pcs) == s.pc \in pcs \cup {"cleared", "awaiting", "shipped"}

\* A statement that names the commit c.
NamesCommit(i, c) == c # "" /\ \E n \in statements(i) : SourceCommit(attached[i][n]) = c

\* What has been established about digest i by the verifiers that are through:
\* what is attached stays attached, so it still holds.
Established(s, i) ==
  /\ Reached(s, {"provenance", "source", "join", "summary"}) /\ settings.cosign => signatureHolds(i)
  /\ Reached(s, {"source", "join", "summary"}) /\ HasProvenance(settings) => TrustedBuilds(i) # {}
  /\ s.pc \in {"join", "summary"} => \A e \in s.envelopes : \E n \in DOMAIN attached[i] : attached[i][n] = e
  /\ s.pc = "summary" /\ HasProvenance(settings) /\ ~s.dark => NamesCommit(i, s.builtFrom)
  /\ Reached(s, {}) /\ settings.gateKeys # {} =>
       \E n \in SourceGated(i) : HasProvenance(settings) /\ ~s.dark => NamesCommit(i, SummaryCommit(attached[i][n]))

ArtifactInv ==
  /\ ArtifactTypes
  /\ Chained(ship, settings)
  /\ \A i \in Digests : ship.ref = i => Established(ship, i)

-----------------------------------------------------------------------------
\* The verifier at position n of the chain, or its end.
VerifierAt(env, n) == IF n > Len(artifactGate(env)) THEN "cleared" ELSE artifactGate(env)[n]

\* Joining chains: where the elements of each part are.
LEMMA Joined ==
  ASSUME NEW V, NEW s \in Seq(V), NEW t \in Seq(V)
  PROVE  /\ s \o t \in Seq(V) /\ Len(s \o t) = Len(s) + Len(t)
         /\ \A n \in 1 .. Len(s) : (s \o t)[n] = s[n]
         /\ \A n \in 1 .. Len(t) : (s \o t)[Len(s) + n] = t[n]
  BY ConcatProperties

\* A verifier that is there or not.
Optional(p, x) == IF p THEN <<x>> ELSE <<>>

LEMMA OptionalPart ==
  ASSUME NEW V, NEW x \in V, NEW p
  PROVE  /\ Optional(p, x) \in Seq(V)
         /\ p => Len(Optional(p, x)) = 1 /\ Optional(p, x)[1] = x
         /\ ~p => Len(Optional(p, x)) = 0
<1>1. CASE p
  <2>1. Optional(p, x) = <<x>>
    BY <1>1, Zenon DEF Optional
  <2>2. <<x>> \in Seq(V) /\ Len(<<x>>) = 1 /\ <<x>>[1] = x
    OBVIOUS
  <2> QED BY <1>1, <2>1, <2>2, Zenon
<1>2. CASE ~p
  <2>1. Optional(p, x) = <<>>
    BY <1>2, Zenon DEF Optional
  <2>2. <<>> \in Seq(V) /\ Len(<<>>) = 0
    OBVIOUS
  <2> QED BY <1>2, <2>1, <2>2, Zenon
<1> QED BY <1>1, <1>2

\* The chain that artifactGate builds.
LEMMA ChainOrder ==
  ASSUME NEW env
  PROVE  /\ Len(artifactGate(env)) \in Nat
         /\ VerifierAt(env, 0 + 1) = IF env.cosign THEN "signature" ELSE IF env.gateKeys # {} THEN "source" ELSE "cleared"
         /\ env.cosign => VerifierAt(env, 1 + 1) = IF HasProvenance(env) THEN "provenance"
                                           ELSE IF env.gateKeys # {} THEN "source" ELSE "cleared"
         /\ HasProvenance(env) => VerifierAt(env, 2 + 1) = IF env.gateKeys # {} THEN "source" ELSE "cleared"
         /\ VerifierAt(env, Len(artifactGate(env)) + 1) = "cleared"
         /\ env.gateKeys # {} =>
              Len(artifactGate(env)) = IF HasProvenance(env) THEN 3 ELSE IF env.cosign THEN 2 ELSE 1
<1> DEFINE V == {"signature", "provenance", "source"}
           a == Optional(env.cosign, "signature")
           b == Optional(HasProvenance(env), "provenance")
           c == Optional(env.gateKeys # {}, "source")
           g == artifactGate(env)
<1>1. g = (a \o b) \o c
  BY Zenon DEF artifactGate, Optional
<1>2. a \in Seq(V) /\ (env.cosign => Len(a) = 1 /\ a[1] = "signature") /\ (~env.cosign => Len(a) = 0)
  BY OptionalPart
<1>3. b \in Seq(V) /\ (HasProvenance(env) => Len(b) = 1 /\ b[1] = "provenance") /\ (~HasProvenance(env) => Len(b) = 0)
  BY OptionalPart
<1>4. c \in Seq(V) /\ (env.gateKeys # {} => Len(c) = 1 /\ c[1] = "source") /\ (env.gateKeys = {} => Len(c) = 0)
  BY OptionalPart
<1>6. HasProvenance(env) => env.cosign
  BY DEF HasProvenance
<1> HIDE DEF V, a, b, c, g
<1> DEFINE ab == a \o b
<1>7. /\ ab \in Seq(V) /\ Len(ab) = Len(a) + Len(b)
      /\ \A n \in 1 .. Len(a) : ab[n] = a[n]
      /\ \A n \in 1 .. Len(b) : ab[Len(a) + n] = b[n]
  BY <1>2, <1>3, Joined
<1>8. g = ab \o c
  BY <1>1
<1> HIDE DEF ab
<1>9. /\ Len(ab \o c) = Len(ab) + Len(c)
      /\ \A n \in 1 .. Len(ab) : (ab \o c)[n] = ab[n]
      /\ \A n \in 1 .. Len(c) : (ab \o c)[Len(ab) + n] = c[n]
  <2>1. ab \in Seq(V) /\ c \in Seq(V)
    BY <1>4, <1>7
  <2> QED BY <2>1, Joined
<1>10. /\ Len(g) = Len(ab) + Len(c)
       /\ \A n \in 1 .. Len(ab) : g[n] = ab[n]
       /\ \A n \in 1 .. Len(c) : g[Len(ab) + n] = c[n]
  BY <1>8, <1>9, Zenon
<1> DEFINE k == Len(g)
<1>11. /\ ~env.cosign /\ env.gateKeys = {} => k = 0
       /\ ~env.cosign /\ env.gateKeys # {} => k = 1 /\ g[1] = "source"
       /\ env.cosign => k \in Nat \ {0} /\ g[1] = "signature"
  BY <1>2, <1>3, <1>4, <1>6, <1>7, <1>10
<1>12. /\ env.cosign /\ ~HasProvenance(env) /\ env.gateKeys = {} => k = 1
       /\ env.cosign /\ ~HasProvenance(env) /\ env.gateKeys # {} => k = 2 /\ g[2] = "source"
       /\ HasProvenance(env) => k \in Nat \ {0, 1} /\ g[2] = "provenance"
  BY <1>2, <1>3, <1>4, <1>6, <1>7, <1>10
<1>13. /\ HasProvenance(env) /\ env.gateKeys = {} => k = 2
       /\ HasProvenance(env) /\ env.gateKeys # {} => k = 3 /\ g[3] = "source"
  BY <1>2, <1>3, <1>4, <1>6, <1>7, <1>10
<1>14. \A n : VerifierAt(env, n) = IF n > k THEN "cleared" ELSE g[n]
  BY DEF VerifierAt, g
<1>15. k \in Nat
  BY <1>6, <1>11, <1>12, <1>13
<1> HIDE DEF k
<1>16. k = Len(artifactGate(env))
  BY DEF g, k
<1>17. VerifierAt(env, 0 + 1) = IF env.cosign THEN "signature" ELSE IF env.gateKeys # {} THEN "source" ELSE "cleared"
  BY <1>11, <1>14
<1>18. env.cosign => VerifierAt(env, 1 + 1) = IF HasProvenance(env) THEN "provenance" ELSE IF env.gateKeys # {} THEN "source" ELSE "cleared"
  BY <1>12, <1>14
<1>19. HasProvenance(env) => VerifierAt(env, 2 + 1) = IF env.gateKeys # {} THEN "source" ELSE "cleared"
  BY <1>13, <1>14
<1>20. VerifierAt(env, k + 1) = "cleared"
  BY <1>14, <1>15
<1>21. env.gateKeys # {} => k = IF HasProvenance(env) THEN 3 ELSE IF env.cosign THEN 2 ELSE 1
  BY <1>6, <1>11, <1>12, <1>13
<1> QED BY <1>15, <1>16, <1>17, <1>18, <1>19, <1>20, <1>21

\* A set of positions has a least one.
LEMMA LeastPosition == ASSUME NEW S \in SUBSET Nat, S # {} PROVE Min(S) \in S
<1> DEFINE R == OpToRel(<, Nat)
<1>1. IsWellFoundedOn(R, Nat) /\ S \subseteq Nat
  BY NatLessThanWellFounded
<1>2. \A x, y \in Nat : y < x => <<y, x>> \in R
  BY DEF OpToRel
<1> HIDE DEF R
<1>3. PICK x \in S : \A y \in S : ~(<<y, x>> \in R)
  BY <1>1, WFMin
<1>4. \A y \in S : x <= y
  <2> SUFFICES ASSUME NEW y \in S PROVE x <= y OBVIOUS
  <2>1. ~(y < x) BY <1>2, <1>3
  <2> QED BY <2>1
<1> QED BY <1>4, Zenon DEF Min

\* buildCommit is "" or the commit of one of the statements, and it is not ""
\* when one of them names a commit.
LEMMA BuildCommitNames ==
  ASSUME ArtifactTypes, NEW i \in Digests
  PROVE  /\ buildCommit(i) \in {SourceCommit(a) : a \in Attachments} \cup {""}
         /\ (\E n \in statements(i) : SourceCommit(attached[i][n]) # "") => NamesCommit(i, buildCommit(i))
<1> DEFINE named == {n \in statements(i) : SourceCommit(attached[i][n]) # ""}
<1>1. buildCommit(i) = IF named = {} THEN "" ELSE SourceCommit(attached[i][Min(named)])
  BY Zenon DEF buildCommit, FirstNamed
<1>2. attached[i] \in Seq(Attachments)
  BY DEF ArtifactTypes
<1>3. named \in SUBSET Nat /\ \A n \in named : attached[i][n] \in Attachments
  <2>1. DOMAIN attached[i] \subseteq Nat /\ \A n \in DOMAIN attached[i] : attached[i][n] \in Attachments
    BY <1>2
  <2>2. named \subseteq DOMAIN attached[i]
    BY Zenon DEF statements, On
  <2> HIDE DEF named
  <2> QED BY <2>1, <2>2
<1>4. named # {} => Min(named) \in named
  BY <1>3, LeastPosition
<1> QED BY <1>1, <1>3, <1>4, Zenon DEF NamesCommit

-----------------------------------------------------------------------------
\* What is attached stays where it is.
Grows(i) == /\ DOMAIN attached[i] \subseteq DOMAIN attached'[i]
            /\ \A n \in DOMAIN attached[i] : attached'[i][n] = attached[i][n]

LEMMA StaysEstablished ==
  ASSUME NEW i, NEW s, Established(s, i), Grows(i), settings' = settings
  PROVE  Established(s, i)'
<1>1. \A t : On(i, t) \subseteq On(i, t)'
  BY DEF On, Grows
<1>2. statements(i) \subseteq statements(i)' /\ \A n \in statements(i) : attached'[i][n] = attached[i][n]
  BY <1>1 DEF statements, On, Grows
<1>3. signatureHolds(i) => signatureHolds(i)'
  BY <1>1 DEF signatureHolds
<1>4. TrustedBuilds(i) # {} => TrustedBuilds(i)' # {}
  BY <1>2 DEF TrustedBuilds, provenanceCheck
<1>5. \A c : NamesCommit(i, c) => NamesCommit(i, c)'
  BY <1>2 DEF NamesCommit
<1>6. SourceGated(i) \subseteq SourceGated(i)' /\ \A n \in SourceGated(i) : attached'[i][n] = attached[i][n]
  BY DEF SourceGated, authenticate, SummaryAccepted, Grows
<1>7. ASSUME NEW e, \E n \in DOMAIN attached[i] : attached[i][n] = e
      PROVE  \E n \in DOMAIN attached'[i] : attached'[i][n] = e
  BY <1>7 DEF Grows
<1> QED BY <1>3, <1>4, <1>5, <1>6, <1>7 DEF Established

-----------------------------------------------------------------------------
\* An Apply that is not under way, or was refused.
LEMMA NoShipFine ==
  /\ NoShip \in ShipRecord
  /\ \A env : Chained(NoShip, env)
  /\ \A i : Established(NoShip, i)
<1>1. NoShip \in ShipRecord
  BY DEF NoShip, ShipRecord, ShipPCs
<1>2. NoShip.pc = "idle" /\ NoShip.at = 0 /\ NoShip.dark = FALSE
  BY DEF NoShip
<1>3. \A env : Chained(NoShip, env)
  BY <1>2 DEF Chained
<1>4. \A i : Established(NoShip, i)
  BY <1>2 DEF Established, Reached
<1> QED BY <1>1, <1>3, <1>4

LEMMA ArtifactInvInit == ArtifactsInit => ArtifactInv
  BY NoShipFine, ArtifactsAssumption DEF ArtifactsInit, ArtifactInv, ArtifactTypes

\* The Apply goes on to a state that is in order.
LEMMA OneShip ==
  ASSUME ArtifactInv, NEW w \in ShipRecord, ship' = w, UNCHANGED <<settings, tag, attached>>,
         Chained(w, settings), \A i \in Digests : w.ref = i => Established(w, i)
  PROVE  ArtifactInv'
<1>1. ArtifactTypes' /\ Chained(ship, settings)'
  BY DEF ArtifactInv, ArtifactTypes
<1>2. ASSUME NEW i \in Digests, ship'.ref = i PROVE Established(ship, i)'
  <2>1. Established(w, i)
    BY <1>2
  <2>2. Grows(i)
    BY DEF Grows
  <2>3. Established(w, i)'
    BY <2>1, <2>2, StaysEstablished
  <2> QED BY <2>3 DEF Established
<1> QED BY <1>1, <1>2 DEF ArtifactInv

LEMMA RefusedKeeps == ASSUME ArtifactInv, Refused, UNCHANGED <<settings, tag, attached>> PROVE ArtifactInv'
  BY NoShipFine, OneShip DEF Refused

\* The next verifier of the chain.
LEMMA OnwardShape ==
  ASSUME NEW s \in ShipRecord, VerifierAt(settings, s.at + 1) \in ShipPCs
  PROVE  /\ Onward(s) \in ShipRecord /\ Onward(s).pc = VerifierAt(settings, s.at + 1) /\ Onward(s).at = s.at + 1
         /\ Onward(s).ref = s.ref /\ Onward(s).envelopes = s.envelopes /\ Onward(s).builtFrom = s.builtFrom
         /\ Onward(s).dark = s.dark /\ Onward(s).image = s.image
<1> DEFINE n == s.at + 1
           p == VerifierAt(settings, n)
<1>1. Onward(s) = [s EXCEPT !.at = n, !.pc = p]
  BY Zenon DEF Onward, VerifierAt
<1>2. n \in Nat
  <2>1. s.at \in Nat
    BY Zenon DEF ShipRecord
  <2> QED BY <2>1
<1> HIDE DEF n, p
<1>3. p \in ShipPCs
  BY DEF n, p
<1>4. /\ [s EXCEPT !.at = n, !.pc = p] \in ShipRecord
      /\ [s EXCEPT !.at = n, !.pc = p].pc = p /\ [s EXCEPT !.at = n, !.pc = p].at = n
      /\ [s EXCEPT !.at = n, !.pc = p].ref = s.ref /\ [s EXCEPT !.at = n, !.pc = p].envelopes = s.envelopes
      /\ [s EXCEPT !.at = n, !.pc = p].builtFrom = s.builtFrom /\ [s EXCEPT !.at = n, !.pc = p].dark = s.dark
      /\ [s EXCEPT !.at = n, !.pc = p].image = s.image
  BY <1>2, <1>3 DEF ShipRecord
<1> QED BY <1>1, <1>4, Zenon DEF n, p

\* The first verifier, if any authority is configured.
LEMMA AskKeeps == ASSUME ArtifactInv, AskToShip PROVE ArtifactInv'
<1>1. PICK r \in Digests \cup {"tag"} : ship' = Onward([NoShip EXCEPT !.ref = r])
  BY DEF AskToShip
<1>2. UNCHANGED <<settings, tag, attached>>
  BY DEF AskToShip
<1> DEFINE s == [NoShip EXCEPT !.ref = r]
           w == Onward(s)
<1>3. s \in ShipRecord /\ s.at = 0 /\ s.dark = FALSE
  BY NoShipFine DEF NoShip, ShipRecord
<1> HIDE DEF s
<1>4. VerifierAt(settings, s.at + 1) = IF settings.cosign THEN "signature" ELSE IF settings.gateKeys # {} THEN "source" ELSE "cleared"
  BY <1>3, ChainOrder
<1>5. VerifierAt(settings, s.at + 1) \in ShipPCs
  BY <1>4 DEF ShipPCs
<1>6. w \in ShipRecord /\ w.at = 1 /\ w.pc = VerifierAt(settings, s.at + 1)
  BY <1>3, <1>5, OnwardShape
<1> HIDE DEF w
<1>7. ~settings.cosign => ~HasProvenance(settings)
  BY DEF HasProvenance
<1>8. ~settings.cosign /\ settings.gateKeys # {} => Len(artifactGate(settings)) = 1
  BY <1>7, ChainOrder
<1>9. Chained(w, settings)
  BY <1>4, <1>6, <1>8 DEF Chained
<1>10. \A i : Established(w, i)
  BY <1>4, <1>6, <1>7 DEF Established, Reached
<1> QED BY <1>1, <1>2, <1>6, <1>9, <1>10, OneShip DEF s, w

\* What is known of an Apply under way.
LEMMA KnownShip ==
  ASSUME ArtifactInv
  PROVE  /\ ship \in ShipRecord /\ Chained(ship, settings) /\ Resolve(ship.ref) \in Digests
         /\ \A i \in Digests : ship.ref = i => Established(ship, i) /\ Resolve(ship.ref) = i
  BY ArtifactsAssumption DEF ArtifactInv, ArtifactTypes, Resolve, ShipRecord

LEMMA SignatureKeeps == ASSUME ArtifactInv, VerifySignature PROVE ArtifactInv'
<1>1. UNCHANGED <<settings, tag, attached>> /\ ship.pc = "signature"
  BY DEF VerifySignature
<1>2. CASE Refused
  BY <1>1, <1>2, RefusedKeeps
<1>3. CASE signatureHolds(Resolve(ship.ref)) /\ ship' = Onward(ship)
  <2> DEFINE w == Onward(ship)
  <2>1. settings.cosign /\ ship.at = 1
    BY <1>1, KnownShip DEF Chained
  <2>2. VerifierAt(settings, ship.at + 1) = IF HasProvenance(settings) THEN "provenance"
                                    ELSE IF settings.gateKeys # {} THEN "source" ELSE "cleared"
    BY <2>1, ChainOrder
  <2>3. VerifierAt(settings, ship.at + 1) \in ShipPCs
    BY <2>2 DEF ShipPCs
  <2>4. w \in ShipRecord /\ w.at = 2 /\ w.pc = VerifierAt(settings, ship.at + 1) /\ w.ref = ship.ref
    BY <2>1, <2>3, KnownShip, OnwardShape
  <2> HIDE DEF w
  <2>5. ~HasProvenance(settings) /\ settings.gateKeys # {} => Len(artifactGate(settings)) = 2
    BY <2>1, ChainOrder
  <2>6. Chained(w, settings)
    BY <2>2, <2>4, <2>5 DEF Chained
  <2>7. ASSUME NEW i \in Digests, w.ref = i PROVE Established(w, i)
    <3>1. signatureHolds(i)
      BY <1>3, <2>4, <2>7, KnownShip
    <3> QED BY <2>2, <2>4, <3>1 DEF Established, Reached
  <2> QED BY <1>1, <1>3, <2>4, <2>6, <2>7, OneShip DEF w
<1> QED BY <1>2, <1>3, Zenon DEF VerifySignature, Verdict

LEMMA ProvenanceKeeps == ASSUME ArtifactInv, VerifyProvenance PROVE ArtifactInv'
<1>1. UNCHANGED <<settings, tag, attached>> /\ ship.pc = "provenance"
  BY DEF VerifyProvenance
<1>2. CASE Refused
  BY <1>1, <1>2, RefusedKeeps
<1>3. CASE TrustedBuilds(Resolve(ship.ref)) # {} /\ ship' = Onward(ship)
  <2> DEFINE w == Onward(ship)
  <2>1. HasProvenance(settings) /\ ship.at = 2
    BY <1>1, KnownShip DEF Chained
  <2>2. VerifierAt(settings, ship.at + 1) = IF settings.gateKeys # {} THEN "source" ELSE "cleared"
    BY <2>1, ChainOrder
  <2>3. VerifierAt(settings, ship.at + 1) \in ShipPCs
    BY <2>2 DEF ShipPCs
  <2>4. w \in ShipRecord /\ w.at = 3 /\ w.pc = VerifierAt(settings, ship.at + 1) /\ w.ref = ship.ref
    BY <2>1, <2>3, KnownShip, OnwardShape
  <2> HIDE DEF w
  <2>5. settings.gateKeys # {} => Len(artifactGate(settings)) = 3
    BY <2>1, ChainOrder
  <2>6. Chained(w, settings)
    BY <2>2, <2>4, <2>5 DEF Chained
  <2>7. ASSUME NEW i \in Digests, w.ref = i PROVE Established(w, i)
    <3>1. TrustedBuilds(i) # {} /\ Established(ship, i)
      BY <1>3, <2>4, <2>7, KnownShip
    <3>2. settings.cosign => signatureHolds(i)
      BY <1>1, <3>1 DEF Established, Reached
    <3> QED BY <2>2, <2>4, <3>1, <3>2 DEF Established, Reached
  <2> QED BY <1>1, <1>3, <2>4, <2>6, <2>7, OneShip DEF w
<1> QED BY <1>2, <1>3, Zenon DEF VerifyProvenance, Verdict

\* The envelopes are some of what is attached.
LEMMA DownloadKeeps == ASSUME ArtifactInv, DownloadSummaries PROVE ArtifactInv'
<1> DEFINE e == ParseEnvelopes(Resolve(ship.ref))
           w == [ship EXCEPT !.pc = "join", !.envelopes = e]
<1>1. UNCHANGED <<settings, tag, attached>> /\ ship.pc = "source"
  BY DEF DownloadSummaries
<1>2. CASE Refused
  BY <1>1, <1>2, RefusedKeeps
<1>3. CASE ship' = w
  <2>1. attached[Resolve(ship.ref)] \in Seq(Attachments)
    BY KnownShip DEF ArtifactInv, ArtifactTypes
  <2>2. \A n \in DOMAIN attached[Resolve(ship.ref)] : attached[Resolve(ship.ref)][n] \in Attachments
    BY <2>1
  <2>3. e \subseteq Attachments
    BY <2>2, Zenon DEF ParseEnvelopes
  <2>4. \A x \in e : \E n \in DOMAIN attached[Resolve(ship.ref)] : attached[Resolve(ship.ref)][n] = x
    BY DEF ParseEnvelopes
  <2> HIDE DEF e
  <2>5. /\ w \in ShipRecord /\ w.pc = "join" /\ w.envelopes = e /\ w.ref = ship.ref /\ w.at = ship.at /\ w.dark = ship.dark
        /\ w.image = ship.image
    BY <2>3, KnownShip DEF ShipRecord, ShipPCs
  <2> HIDE DEF w
  <2>6. Chained(w, settings)
    BY <1>1, <2>5, KnownShip DEF Chained
  <2>7. ASSUME NEW i \in Digests, w.ref = i PROVE Established(w, i)
    <3>1. Established(ship, i) /\ Resolve(ship.ref) = i
      BY <2>5, <2>7, KnownShip
    <3>2. (settings.cosign => signatureHolds(i)) /\ (HasProvenance(settings) => TrustedBuilds(i) # {})
      BY <1>1, <3>1 DEF Established, Reached
    <3> QED BY <2>4, <2>5, <3>1, <3>2 DEF Established, Reached
  <2> QED BY <1>1, <1>3, <2>5, <2>6, <2>7, OneShip
<1> QED BY <1>2, <1>3, Zenon DEF DownloadSummaries

\* Provenance that was accepted names a commit, so the second read finds one.
LEMMA ReadKeeps == ASSUME ArtifactInv, ReadBuildCommit PROVE ArtifactInv'
<1>1. UNCHANGED <<settings, tag, attached>> /\ ship.pc = "join"
  BY DEF ReadBuildCommit
<1>2. ASSUME NEW w \in ShipRecord, ship' = w, w.pc = "summary", w.ref = ship.ref, w.at = ship.at,
             w.envelopes = ship.envelopes, w.image = ship.image,
             HasProvenance(settings) /\ ~w.dark => w.builtFrom = buildCommit(Resolve(ship.ref))
      PROVE  ArtifactInv'
  <2>1. Chained(w, settings)
    BY <1>1, <1>2, KnownShip DEF Chained
  <2>2. ASSUME NEW i \in Digests, w.ref = i PROVE Established(w, i)
    <3>1. Established(ship, i) /\ Resolve(ship.ref) = i
      BY <1>2, <2>2, KnownShip
    <3>2. /\ (settings.cosign => signatureHolds(i)) /\ (HasProvenance(settings) => TrustedBuilds(i) # {})
          /\ \A e \in w.envelopes : \E n \in DOMAIN attached[i] : attached[i][n] = e
      BY <1>1, <1>2, <3>1 DEF Established, Reached
    <3>3. HasProvenance(settings) => \E n \in statements(i) : SourceCommit(attached[i][n]) # ""
      BY <3>2, Zenon DEF TrustedBuilds, provenanceCheck
    <3>4. HasProvenance(settings) /\ ~w.dark => NamesCommit(i, w.builtFrom)
      BY <1>2, <3>1, <3>3, BuildCommitNames DEF ArtifactInv
    <3> QED BY <1>2, <3>2, <3>4 DEF Established, Reached
  <2> QED BY <1>1, <1>2, <2>1, <2>2, OneShip
<1>3. ASSUME ship' = [ship EXCEPT !.pc = "summary",
                        !.builtFrom = IF HasProvenance(settings) THEN buildCommit(Resolve(ship.ref)) ELSE ""]
      PROVE  ArtifactInv'
  <2> DEFINE b == IF HasProvenance(settings) THEN buildCommit(Resolve(ship.ref)) ELSE ""
             w == [ship EXCEPT !.pc = "summary", !.builtFrom = b]
  <2>1. b \in {SourceCommit(a) : a \in Attachments} \cup {""}
    BY KnownShip, BuildCommitNames, Zenon DEF ArtifactInv
  <2>2. HasProvenance(settings) => b = buildCommit(Resolve(ship.ref))
    OBVIOUS
  <2> HIDE DEF b
  <2>3. /\ w \in ShipRecord /\ w.pc = "summary" /\ w.ref = ship.ref /\ w.at = ship.at
        /\ w.envelopes = ship.envelopes /\ w.image = ship.image /\ w.builtFrom = b
    BY <2>1, KnownShip DEF ShipRecord, ShipPCs
  <2>4. ship' = w
    BY <1>3 DEF b
  <2> HIDE DEF w
  <2> QED BY <1>2, <2>2, <2>3, <2>4
<1>4. ASSUME ship' = [ship EXCEPT !.pc = "summary", !.dark = TRUE] PROVE ArtifactInv'
  <2> DEFINE w == [ship EXCEPT !.pc = "summary", !.dark = TRUE]
  <2>1. /\ w \in ShipRecord /\ w.pc = "summary" /\ w.ref = ship.ref /\ w.at = ship.at
        /\ w.envelopes = ship.envelopes /\ w.image = ship.image /\ w.dark = TRUE
    BY KnownShip DEF ShipRecord, ShipPCs
  <2>2. ship' = w
    BY <1>4
  <2> HIDE DEF w
  <2> QED BY <1>2, <2>1, <2>2
<1> QED BY <1>3, <1>4 DEF ReadBuildCommit

\* A summary that is accepted next to provenance is about the provenance's commit.
LEMMA CheckKeeps == ASSUME ArtifactInv, CheckSummaries PROVE ArtifactInv'
<1>1. UNCHANGED <<settings, tag, attached>> /\ ship.pc = "summary"
  BY DEF CheckSummaries
<1>2. CASE Refused
  BY <1>1, <1>2, RefusedKeeps
<1>3. CASE ship' = Onward(ship) /\ \E e \in ship.envelopes : authenticate(e) /\ sourceCheck(e, ship.builtFrom)
  <2> DEFINE w == Onward(ship)
  <2>1. PICK e \in ship.envelopes : authenticate(e) /\ sourceCheck(e, ship.builtFrom)
    BY <1>3
  <2>2. ship.at = Len(artifactGate(settings))
    BY <1>1, KnownShip DEF Chained
  <2>3. VerifierAt(settings, ship.at + 1) = "cleared"
    BY <2>2, ChainOrder
  <2>4. VerifierAt(settings, ship.at + 1) \in ShipPCs
    BY <2>3 DEF ShipPCs
  <2>5. w \in ShipRecord /\ w.pc = "cleared" /\ w.ref = ship.ref /\ w.dark = ship.dark
    BY <2>3, <2>4, KnownShip, OnwardShape
  <2> HIDE DEF w
  <2>6. Chained(w, settings)
    BY <2>5 DEF Chained
  <2>7. ASSUME NEW i \in Digests, w.ref = i PROVE Established(w, i)
    <3>1. Established(ship, i)
      BY <2>5, <2>7, KnownShip
    <3>2. /\ (settings.cosign => signatureHolds(i)) /\ (HasProvenance(settings) => TrustedBuilds(i) # {})
          /\ HasProvenance(settings) /\ ~ship.dark => NamesCommit(i, ship.builtFrom)
      BY <1>1, <3>1 DEF Established, Reached
    <3>3. PICK n \in DOMAIN attached[i] : attached[i][n] = e
      BY <1>1, <2>1, <3>1 DEF Established
    <3>4. n \in SourceGated(i)
      BY <2>1, <3>3, Zenon DEF SourceGated, sourceCheck
    <3>5. ship.builtFrom = "" \/ ship.builtFrom = SummaryCommit(attached[i][n])
      BY <2>1, <3>3, Zenon DEF sourceCheck
    <3>6. HasProvenance(settings) /\ ~w.dark => NamesCommit(i, SummaryCommit(attached[i][n]))
      <4> SUFFICES ASSUME HasProvenance(settings), ~w.dark PROVE NamesCommit(i, SummaryCommit(attached[i][n])) OBVIOUS
      <4>1. NamesCommit(i, ship.builtFrom)
        BY <2>5, <3>2
      <4>2. ship.builtFrom # ""
        BY <4>1 DEF NamesCommit
      <4> QED BY <3>5, <4>1, <4>2, Zenon
    <3> QED BY <2>5, <3>2, <3>4, <3>6, Zenon DEF Established, Reached
  <2> QED BY <1>1, <1>3, <2>5, <2>6, <2>7, OneShip DEF w
<1> QED BY <1>2, <1>3, Zenon DEF CheckSummaries, Verdict

\* The deploy, at once or after an approval: a digest names what was verified.
LEMMA ShipKeeps == ASSUME ArtifactInv, AwaitApproval \/ Ship PROVE ArtifactInv'
<1>1. UNCHANGED <<settings, tag, attached>> /\ ship.pc \in {"cleared", "awaiting"}
  BY DEF AwaitApproval, Ship
<1>2. ASSUME NEW w \in ShipRecord, ship' = w, w.pc \in {"awaiting", "shipped"}, w.ref = ship.ref, w.dark = ship.dark,
             w.pc = "shipped" => w.image = Resolve(ship.ref)
      PROVE  ArtifactInv'
  <2>1. Chained(w, settings)
    BY <1>2 DEF Chained, Resolve
  <2>2. ASSUME NEW i \in Digests, w.ref = i PROVE Established(w, i)
    <3>1. Established(ship, i)
      BY <1>2, <2>2, KnownShip
    <3> QED BY <1>1, <1>2, <3>1 DEF Established, Reached
  <2> QED BY <1>1, <1>2, <2>1, <2>2, OneShip
<1>3. CASE AwaitApproval
  <2> DEFINE w == [ship EXCEPT !.pc = "awaiting"]
  <2>1. w \in ShipRecord /\ w.pc = "awaiting" /\ w.ref = ship.ref /\ w.dark = ship.dark
    BY KnownShip DEF ShipRecord, ShipPCs
  <2>2. ship' = w
    BY <1>3 DEF AwaitApproval
  <2> HIDE DEF w
  <2> QED BY <1>2, <2>1, <2>2
<1>4. CASE Ship
  <2> DEFINE d == Resolve(ship.ref)
             w == [ship EXCEPT !.pc = "shipped", !.image = d]
  <2>1. d \in Digests
    BY KnownShip
  <2> HIDE DEF d
  <2>2. w \in ShipRecord /\ w.pc = "shipped" /\ w.ref = ship.ref /\ w.dark = ship.dark /\ w.image = d
    BY <2>1, KnownShip DEF ShipRecord, ShipPCs
  <2>3. ship' = w
    BY <1>4 DEF Ship, d
  <2> HIDE DEF w
  <2> QED BY <1>2, <2>2, <2>3 DEF d
<1> QED BY <1>3, <1>4

-----------------------------------------------------------------------------
\* The registry: attestations arrive and the tag moves.
LEMMA RegistryKeeps == ASSUME ArtifactInv, Attach \/ MoveTag PROVE ArtifactInv'
<1>1. UNCHANGED <<settings, ship>>
  BY DEF Attach, MoveTag
<1>2. tag' \in Digests
  BY DEF Attach, MoveTag, ArtifactInv, ArtifactTypes
<1>3. attached' \in [Digests -> Seq(Attachments)] /\ \A i \in Digests : Grows(i)
  <2>1. CASE MoveTag
    BY <2>1 DEF MoveTag, Grows, ArtifactInv, ArtifactTypes
  <2>2. CASE Attach
    <3>1. PICK i \in Digests, a \in Attachable : attached' = [attached EXCEPT ![i] = Append(@, a)]
      BY <2>2 DEF Attach
    <3>2. attached \in [Digests -> Seq(Attachments)] /\ a \in Attachments
      BY DEF ArtifactInv, ArtifactTypes, Attachments
    <3>3. Append(attached[i], a) \in Seq(Attachments)
      BY <3>2
    <3>4. attached' \in [Digests -> Seq(Attachments)]
      BY <3>1, <3>2, <3>3
    <3>5. ASSUME NEW j \in Digests PROVE Grows(j)
      <4>1. CASE j # i
        BY <3>1, <3>2, <4>1 DEF Grows
      <4>2. CASE j = i
        <5>1. attached'[j] = Append(attached[j], a) /\ attached[j] \in Seq(Attachments)
          BY <3>1, <3>2, <4>2
        <5> QED BY <5>1, <3>2 DEF Grows
      <4> QED BY <4>1, <4>2
    <3> QED BY <3>4, <3>5
  <2> QED BY <2>1, <2>2
<1>4. ASSUME NEW i \in Digests, ship'.ref = i PROVE Established(ship, i)'
  <2>1. Established(ship, i)
    BY <1>1, <1>4 DEF ArtifactInv
  <2>2. PICK s : s = ship
    OBVIOUS
  <2>3. Established(s, i)'
    BY <1>1, <1>3, <2>1, <2>2, StaysEstablished
  <2> QED BY <1>1, <2>2, <2>3 DEF Established
<1> QED BY <1>1, <1>2, <1>3, <1>4 DEF ArtifactInv, ArtifactTypes, Chained

LEMMA ArtifactInvNext == ArtifactInv /\ [ArtifactsNext]_artifactVars => ArtifactInv'
<1> SUFFICES ASSUME ArtifactInv, [ArtifactsNext]_artifactVars PROVE ArtifactInv' OBVIOUS
<1>1. CASE UNCHANGED artifactVars
  <2>1. PICK w \in ShipRecord : ship' = w /\ ship = w
    BY <1>1, KnownShip DEF artifactVars
  <2> QED BY <1>1, <2>1, KnownShip, OneShip DEF artifactVars
<1> QED BY <1>1, AskKeeps, SignatureKeeps, ProvenanceKeeps, DownloadKeeps, ReadKeeps, CheckKeeps, ShipKeeps,
           RegistryKeeps, Zenon DEF ArtifactsNext

\* What ships by digest is vouched for by every authority that is configured, and
\* the commit its gate passed is the commit it was built from (sourcegate.go:100),
\* although every verifier reads the registry anew.
THEOREM VouchedForShips == ArtifactsSpec => []ShipsVouched
<1>1. ArtifactsInit => ArtifactInv
  BY ArtifactInvInit
<1>2. ArtifactInv /\ [ArtifactsNext]_artifactVars => ArtifactInv'
  BY ArtifactInvNext
<1>3. ArtifactInv => ShipsVouched
  <2> SUFFICES ASSUME ArtifactInv, ship.pc = "shipped", ship.ref # "tag"
      PROVE  /\ settings.cosign => signatureHolds(ship.image)
             /\ HasProvenance(settings) => TrustedBuilds(ship.image) # {}
             /\ settings.gateKeys # {} => SourceGated(ship.image) # {}
             /\ HasProvenance(settings) /\ settings.gateKeys # {} /\ ~ship.dark /\ OneCommit(ship.image)
                  => \E m \in TrustedBuilds(ship.image), n \in SourceGated(ship.image) :
                        SourceCommit(attached[ship.image][m]) = SummaryCommit(attached[ship.image][n])
    BY Zenon DEF ShipsVouched
  <2>1. PICK i \in Digests : i = ship.image /\ i = ship.ref
    BY KnownShip DEF Chained, ShipRecord
  <2>2. Established(ship, i)
    BY <2>1, KnownShip
  <2>3. (settings.cosign => signatureHolds(i)) /\ (HasProvenance(settings) => TrustedBuilds(i) # {})
    BY <2>2 DEF Established, Reached
  <2>4. settings.gateKeys # {} => \E n \in SourceGated(i) :
          HasProvenance(settings) /\ ~ship.dark => NamesCommit(i, SummaryCommit(attached[i][n]))
    BY <2>2 DEF Established, Reached
  <2>5. ASSUME HasProvenance(settings), settings.gateKeys # {}, ~ship.dark, OneCommit(i)
        PROVE  \E m \in TrustedBuilds(i), n \in SourceGated(i) :
                  SourceCommit(attached[i][m]) = SummaryCommit(attached[i][n])
    <3>1. PICK n \in SourceGated(i) : NamesCommit(i, SummaryCommit(attached[i][n]))
      BY <2>4, <2>5
    <3>2. PICK k \in statements(i) : SourceCommit(attached[i][k]) = SummaryCommit(attached[i][n]) /\ SourceCommit(attached[i][k]) # ""
      BY <3>1 DEF NamesCommit
    <3>3. PICK m \in TrustedBuilds(i) : m \in statements(i) /\ SourceCommit(attached[i][m]) # ""
      BY <2>3, <2>5, Zenon DEF TrustedBuilds, provenanceCheck
    <3>4. SourceCommit(attached[i][m]) = SourceCommit(attached[i][k])
      BY <2>5, <3>2, <3>3 DEF OneCommit
    <3> QED BY <3>2, <3>3, <3>4, Zenon
  <2> QED BY <2>1, <2>3, <2>4, <2>5, Zenon
<1> QED BY <1>1, <1>2, <1>3, PTL DEF ArtifactsSpec

(***************************************************************************)
(* The plugin host.                                                         *)
(***************************************************************************)

UsePCs == {"idle", "verified", "handshake", "manifest", "judge", "serving", "closing"}
UseRecord ==
  [pc : UsePCs, bin : Binaries \cup {Missing, Truncated}, group : SUBSET {"leader", "helper"},
   said : Binaries \cup {Missing}]
InstallRecord ==
  [pc : {"idle", "fetched", "checked", "writing"}, check : {"index", "flags", "none"},
   want : Binaries \cup {Missing}, got : Binaries \cup {Missing}]

PluginTypes ==
  /\ disk \in Binaries \cup {Truncated} /\ pin \in Binaries
  /\ installer \in InstallRecord
  /\ use \in [Users -> UseRecord]
  /\ vetted \subseteq Binaries

\* What has been declared was declared by the running file, and a complete one
\* declares its own manifest.
Launched(w) ==
  /\ w.group # {} => w.pc \notin {"idle", "verified"}
  /\ w.pc \in {"handshake", "manifest", "judge", "serving"} => w.bin \in Binaries \cup {Truncated}
  /\ w.pc \in {"judge", "serving"} => w.said \in MayDeclare(w.bin)
  /\ w.pc = "serving" => PolicyAdmits(Declares[w.said]) /\ Declares[w.said].capable

\* The checks of an install come before the installed file is touched.
CheckedFirst ==
  /\ installer.pc = "fetched" => installer.got \in Binaries
  /\ installer.pc \in {"checked", "writing"} => installer.got \in vetted
  /\ InstalledIsVetted

PluginInv == PluginTypes /\ (\A u \in Users : Launched(use[u])) /\ CheckedFirst

-----------------------------------------------------------------------------
\* A fresh host satisfies the invariant.
LEMMA PluginInvInit == PluginsInit => PluginInv
  BY PluginsAssumption
  DEF PluginsInit, PluginInv, PluginTypes, UseRecord, UsePCs, InstallRecord, Launched, CheckedFirst,
      InstalledIsVetted, NoUse, NoInstall, Missing

\* A call that replaces its own launch record by a good one, and leaves the
\* files alone, keeps the invariant.
LEMMA OneLaunch ==
  ASSUME PluginInv, NEW u \in Users, NEW w \in UseRecord, Launched(w), Becomes(u, w), UNCHANGED Host
  PROVE  PluginInv'
<1>1. PluginTypes'
  BY DEF PluginInv, PluginTypes, Becomes, Host
<1>2. \A v \in Users : use'[v] = IF v = u THEN w ELSE use[v]
  BY DEF PluginInv, PluginTypes, Becomes
<1>3. (\A v \in Users : Launched(use[v]))'
  BY <1>2, Zenon DEF PluginInv, Launched
<1>4. CheckedFirst'
  BY DEF PluginInv, CheckedFirst, InstalledIsVetted, Host
<1> QED BY <1>1, <1>3, <1>4 DEF PluginInv

\* The steps of a launch: verify, start, handshake, manifest, judge, close.
LEMMA HostStepKeeps == ASSUME PluginInv, NEW u \in Users, HostStep(u) PROVE PluginInv'
<1> USE DEF At, Alive
<1>0. use[u] \in UseRecord /\ Launched(use[u]) /\ disk \in Binaries \cup {Truncated}
  BY DEF PluginInv, PluginTypes
<1>n. NoUse \in UseRecord /\ Launched(NoUse)
  BY DEF NoUse, UseRecord, UsePCs, Launched
<1>1. CASE VerifyBinary(u)
  <2> DEFINE w == [use[u] EXCEPT !.pc = "verified"]
  <2>1. w \in UseRecord /\ Launched(w) BY <1>0, <1>1 DEF VerifyBinary, UseRecord, UsePCs, Launched
  <2> QED BY <2>1, <1>1, OneLaunch DEF VerifyBinary
<1>2. CASE StartProcess(u)
  <2> DEFINE w == [pc |-> "handshake", bin |-> disk, group |-> {"leader"}, said |-> Missing]
  <2>1. w \in UseRecord /\ Launched(w) BY <1>0, <1>2 DEF UseRecord, UsePCs, Launched
  <2>2. Becomes(u, w) \/ Becomes(u, NoUse) BY <1>2 DEF StartProcess
  <2>3. UNCHANGED Host BY <1>2 DEF StartProcess
  <2> QED BY <2>1, <2>2, <2>3, <1>n, OneLaunch
<1>c. Closing(u) \in UseRecord /\ Launched(Closing(u))
  <2>1. Closing(u) = [NoUse EXCEPT !.pc = "closing", !.group = use[u].group]
    BY Zenon DEF Closing
  <2>2. use[u].group \in SUBSET {"leader", "helper"} BY <1>0 DEF UseRecord
  <2> QED BY <2>1, <2>2 DEF NoUse, UseRecord, UsePCs, Launched
<1>3. CASE Handshake(u)
  <2> DEFINE w == [use[u] EXCEPT !.pc = "manifest"]
  <2>1. w \in UseRecord BY <1>0, <1>3 DEF UseRecord, UsePCs
  <2>2. Launched(w) BY <1>0, <1>3 DEF Handshake, UseRecord, Launched
  <2> QED BY <2>1, <2>2, <1>3, OneLaunch DEF Handshake
<1>4. CASE killLaunch(u)
  BY <1>4, <1>n, OneLaunch DEF killLaunch
<1>5. CASE AskManifest(u)
  <2>1. PICK b \in MayDeclare(use[u].bin) : Becomes(u, [use[u] EXCEPT !.pc = "judge", !.said = b])
    BY <1>5 DEF AskManifest
  <2> DEFINE w == [use[u] EXCEPT !.pc = "judge", !.said = b]
  <2>2. b \in Binaries
    BY <1>0, <1>5, <2>1 DEF AskManifest, Launched, MayDeclare
  <2>3. /\ w.pc = "judge" /\ w.said = b /\ w.bin = use[u].bin /\ w.group = use[u].group /\ w \in UseRecord
    BY <1>0, <2>2 DEF UseRecord, UsePCs
  <2>4. use[u].bin \in Binaries \cup {Truncated}
    BY <1>0, <1>5 DEF AskManifest, Launched
  <2> HIDE DEF w
  <2>5. Launched(w)
    BY <2>1, <2>3, <2>4 DEF Launched
  <2> QED BY <2>1, <2>3, <2>5, <1>5, OneLaunch DEF AskManifest, w
<1>6. CASE ManifestTimeout(u)
  BY <1>6, <1>c, OneLaunch DEF ManifestTimeout
<1>7. CASE Judge(u)
  <2> DEFINE m == Declares[use[u].said]
             w == [use[u] EXCEPT !.pc = "serving"]
  <2>1. UNCHANGED Host BY <1>7 DEF Judge
  <2>2. CASE PolicyAdmits(m) /\ m.capable
    <3>1. w \in UseRecord /\ Launched(w)
      BY <1>0, <1>7, <2>2 DEF Judge, UseRecord, UsePCs, Launched
    <3>2. Becomes(u, w) BY <1>7, <2>2, Zenon DEF Judge
    <3> QED BY <2>1, <3>1, <3>2, OneLaunch
  <2>3. CASE ~ (PolicyAdmits(m) /\ m.capable)
    <3>1. Becomes(u, Closing(u)) BY <1>7, <2>3, Zenon DEF Judge
    <3> QED BY <2>1, <3>1, <1>c, OneLaunch
  <2> QED BY <2>2, <2>3
<1>8. CASE Release(u)
  BY <1>8, <1>c, OneLaunch DEF Release
<1>9. CASE CloseProcess(u)
  BY <1>9, <1>n, OneLaunch DEF CloseProcess
<1> QED BY <1>1, <1>2, <1>3, <1>4, <1>5, <1>6, <1>7, <1>8, <1>9 DEF HostStep

\* A plugin that forks or dies changes its own process group only.
LEMMA PluginActsKeep == ASSUME PluginInv, NEW u \in Users, ForkHelper(u) \/ LeaderDies(u) PROVE PluginInv'
<1>0. use[u] \in UseRecord /\ Launched(use[u]) /\ use[u].group # {}
  BY DEF PluginInv, PluginTypes, ForkHelper, LeaderDies, Alive
<1>1. PICK g \in SUBSET {"leader", "helper"} : Becomes(u, [use[u] EXCEPT !.group = g]) /\ UNCHANGED Host
  <2>1. CASE ForkHelper(u)
    <3>1. [use[u] EXCEPT !.group = @ \cup {"helper"}] = [use[u] EXCEPT !.group = use[u].group \cup {"helper"}]
      OBVIOUS
    <3>2. use[u].group \cup {"helper"} \in SUBSET {"leader", "helper"} BY <1>0 DEF UseRecord
    <3> QED BY <2>1, <3>1, <3>2 DEF ForkHelper
  <2>2. CASE LeaderDies(u)
    <3>1. [use[u] EXCEPT !.group = @ \ {"leader"}] = [use[u] EXCEPT !.group = use[u].group \ {"leader"}]
      OBVIOUS
    <3>2. use[u].group \ {"leader"} \in SUBSET {"leader", "helper"} BY <1>0 DEF UseRecord
    <3> QED BY <2>2, <3>1, <3>2 DEF LeaderDies
  <2> QED BY <2>1, <2>2
<1> DEFINE w == [use[u] EXCEPT !.group = g]
<1>2. w \in UseRecord /\ Launched(w) BY <1>0 DEF UseRecord, UsePCs, Launched
<1> QED BY <1>1, <1>2, OneLaunch

\* Install and update write only what they have verified.
LEMMA InstallerKeeps ==
  ASSUME PluginInv, pluginInstall \/ pluginUpdate \/ VerifyFetched \/ OpenTruncating \/ WriteInstalled \/ Repin
  PROVE  PluginInv'
<1>0. /\ PluginTypes /\ CheckedFirst /\ \A u \in Users : Launched(use[u])
      /\ Binaries \cap {Missing, Truncated} = {} /\ Published \subseteq Binaries /\ Latest \in Published
  BY PluginsAssumption DEF PluginInv
<1>1. use' = use
  BY DEF pluginInstall, InstallFrom, pluginUpdate, Want, Fetch, VerifyFetched, OpenTruncating, WriteInstalled, Repin
<1>2. (\A u \in Users : Launched(use[u]))'
  BY <1>0, <1>1 DEF Launched
<1>3. PluginTypes' /\ CheckedFirst'
  <2> USE <1>0, <1>1 DEF PluginTypes, InstallRecord, CheckedFirst, InstalledIsVetted, NoInstall
  <2>1. CASE pluginInstall \/ pluginUpdate
    <3>1. PICK check \in {"index", "flags", "none"}, want \in Binaries \cup {Missing} : Fetch(check, want)
      BY <2>1 DEF pluginInstall, InstallFrom, pluginUpdate, Want
    <3> QED BY <3>1 DEF Fetch
  <2>2. CASE VerifyFetched
    <3>1. installer.pc = "fetched" /\ UNCHANGED <<disk, pin>> BY <2>2 DEF VerifyFetched
    <3>2. CASE Passes(installer)
      <4>1. installer' = [installer EXCEPT !.pc = "checked"] /\ vetted' = vetted \cup {installer.got}
        BY <2>2, <3>2 DEF VerifyFetched
      <4> QED BY <4>1, <3>1
    <3>3. CASE ~ Passes(installer)
      BY <2>2, <3>1, <3>3 DEF VerifyFetched
    <3> QED BY <3>1, <3>2, <3>3
  <2>3. CASE OpenTruncating
    BY <2>3 DEF OpenTruncating
  <2>4. CASE WriteInstalled
    BY <2>4 DEF WriteInstalled
  <2>5. CASE Repin
    BY <2>5 DEF Repin
  <2> QED BY <2>1, <2>2, <2>3, <2>4, <2>5
<1> QED BY <1>2, <1>3 DEF PluginInv

\* Every step of the system, and every stuttering step, keeps the invariant.
LEMMA PluginInvNext == PluginInv /\ [PluginsNext]_pluginVars => PluginInv'
<1> SUFFICES ASSUME PluginInv, [PluginsNext]_pluginVars PROVE PluginInv' OBVIOUS
<1>1. CASE UNCHANGED pluginVars
  BY <1>1 DEF PluginInv, PluginTypes, Launched, CheckedFirst, InstalledIsVetted, pluginVars
<1>2. CASE PluginsNext
  BY <1>2, HostStepKeeps, PluginActsKeep, InstallerKeeps DEF PluginsNext
<1> QED BY <1>1, <1>2

\* What the invariant says of what runs and of what is left behind.
LEMMA PluginInvImplies == PluginInv => NoStrayProcess /\ OnlyAdmittedRuns
<1> SUFFICES ASSUME PluginInv PROVE NoStrayProcess /\ OnlyAdmittedRuns OBVIOUS
<1>1. NoStrayProcess /\ InstalledIsVetted
  BY DEF PluginInv, Launched, CheckedFirst, NoStrayProcess
<1>2. ASSUME NEW u \in Users, use[u].pc = "serving", use[u].bin \in Binaries
      PROVE  use[u].said = use[u].bin
  BY <1>2, PluginsAssumption DEF PluginInv, Launched, MayDeclare
<1>3. ServesOnlyAdmitted
  BY <1>2 DEF PluginInv, Launched, ServesOnlyAdmitted
<1> QED BY <1>1, <1>3 DEF OnlyAdmittedRuns

\* For every number of concurrent calls and every way a plugin may behave, no
\* process of a plugin, a forked helper included, outlives the launch it belongs
\* to (launch.go:89, 157).
THEOREM NothingStrays == PluginsSpec => []NoStrayProcess
  BY PluginInvInit, PluginInvNext, PluginInvImplies, PTL DEF PluginsSpec

\* For every interleaving of calls with installs by name, path or URL, updates and
\* cut-off writes, what serves was judged for the manifest it declared itself, a
\* half-written file included, and what lies installed whole passed the checks of
\* its source (policy.go:107, cli/plugin.go:363, 401).
THEOREM OnlyAdmittedServes == PluginsSpec => []OnlyAdmittedRuns
  BY PluginInvInit, PluginInvNext, PluginInvImplies, PTL DEF PluginsSpec
=============================================================================
