----------------------------- MODULE Artifacts ------------------------------
(***************************************************************************)
(* The artifact gate of Apply.  Three authorities may have to vouch for an   *)
(* image: whoever holds the cosign key, the platform that built it            *)
(* (provenance) and the gate its commit went through (summary).  Each         *)
(* verifier is a call of cosign that reads the registry anew, while builds    *)
(* attach further attestations and tags move; an approval may come between    *)
(* the verdict and the deploy.                                               *)
(***************************************************************************)
EXTENDS Naturals, Sequences, FiniteSetsExt

CONSTANTS Digests, Commits,
          Settings,     \* [cosign, builders, reproved, gates, gateKeys, levels]
          CosignKey,    \* who signs with the key ROLLOPS_COSIGN_KEY names
          Attached,     \* digest -> what is attached to it at first, in order
          Attachable,   \* what may be attached later
          MaxAttached, MaxMoves, MaxOutages

Attachments == Attachable \cup UNION {{Attached[i][n] : n \in DOMAIN Attached[i]} : i \in Digests}

ASSUME ArtifactsAssumption ==
  /\ "" \notin Commits /\ Digests \cap {"", "tag"} = {}
  /\ Attached \in [Digests -> Seq(Attachments)]
  /\ MaxAttached \in Nat /\ MaxMoves \in Nat /\ MaxOutages \in Nat

VARIABLES settings,   \* the environment the daemon was started with
          tag,        \* the digest the moving tag names
          attached,   \* digest -> sequence of signatures and attestations
          ship,       \* the Apply: [pc, ref, at, envelopes, builtFrom, dark, image],
                      \* image being what the target pulled
          slack       \* moves and outages left

artifactVars == <<settings, tag, attached, ship, slack>>

(***************************************************************************)
(* What is attached to an image                                              *)
(***************************************************************************)
Signature(by) == [type |-> "signature", by |-> by]
Provenance(by, builder, deps, reproved) ==
  [type |-> "provenance", by |-> by, builder |-> builder, deps |-> deps, reproved |-> reproved]
Summary(by, verifier, subject, uri, result, levels) ==
  [type |-> "summary", by |-> by, verifier |-> verifier, subject |-> subject, uri |-> uri,
   result |-> result, levels |-> levels]

\* The first commit that f names, of the positions in S.
FirstNamed(S, f(_)) == LET named == {n \in S : f(n) # ""} IN IF named = {} THEN "" ELSE f(Min(named))

\* Statement.SourceCommit: the first dependency with a git digest.
SourceCommit(p) == FirstNamed(DOMAIN p.deps, LAMBDA n : p.deps[n])

\* VSAStatement.SourceCommit: the subject, or the tail of the resource URI if it
\* is a whole object id.
isObjectID(x)    == x \in Commits
SummaryCommit(s) == IF s.subject # "" THEN s.subject ELSE IF isObjectID(s.uri) THEN s.uri ELSE ""

\* An id is [name, version]; a policy entry without a version stands for all.
builderAllowed(id, allowed) == \E w \in allowed : w.name = id.name /\ w.version \in {"", id.version}

(***************************************************************************)
(* The verifiers                                                             *)
(***************************************************************************)
HasProvenance(env) == env.cosign /\ env.builders # {}

artifactGate(env) ==
  (IF env.cosign THEN <<"signature">> ELSE <<>>)
  \o (IF HasProvenance(env) THEN <<"provenance">> ELSE <<>>)
  \o (IF env.gateKeys # {} THEN <<"source">> ELSE <<>>)

Resolve(ref) == IF ref = "tag" THEN tag ELSE ref
\* Where what cosign can authenticate with its key is attached.
On(i, type)  == {n \in DOMAIN attached[i] : attached[i][n].type = type /\ attached[i][n].by = CosignKey}

signatureHolds(i) == On(i, "signature") # {}

\* ParseAttestations of what cosign authenticated.
statements(i) == On(i, "provenance")

provenanceCheck(p) ==
  /\ builderAllowed(p.builder, settings.builders)
  /\ SourceCommit(p) # ""
  /\ settings.reproved => p.reproved

TrustedBuilds(i) == {n \in statements(i) : provenanceCheck(attached[i][n])}

buildCommit(i) == FirstNamed(statements(i), LAMBDA n : SourceCommit(attached[i][n]))

\* The gate's own signature; other attestations are skipped.
authenticate(e) == e.type = "summary" /\ e.by \in settings.gateKeys

SummaryAccepted(s) ==
  /\ settings.gates # {} => builderAllowed(s.verifier, settings.gates)
  /\ s.result = "PASSED"
  /\ settings.levels \subseteq s.levels
  /\ SummaryCommit(s) # ""

\* Mutant of sourceCheck: the commit of the build is not compared.
sourceCheckAlone(s, builtFrom) == SummaryAccepted(s)

sourceCheck(s, builtFrom) == SummaryAccepted(s) /\ builtFrom \in {"", SummaryCommit(s)}

(***************************************************************************)
(* Apply, from the gate to the target                                        *)
(***************************************************************************)
NoShip == [pc |-> "idle", ref |-> "tag", at |-> 0, envelopes |-> {}, builtFrom |-> "", dark |-> FALSE, image |-> ""]

ArtifactsInit ==
  /\ settings \in Settings /\ tag \in Digests /\ attached = Attached
  /\ ship = NoShip
  /\ slack = [moves |-> MaxMoves, outages |-> MaxOutages]

\* A cosign call that fails.
Dark == slack.outages > 0 /\ slack' = [slack EXCEPT !.outages = @ - 1]

\* ChainVerifier: the next verifier, or the end of the chain.
Onward(s) == LET n == s.at + 1 IN
             [s EXCEPT !.at = n, !.pc = IF n > Len(artifactGate(settings)) THEN "cleared" ELSE artifactGate(settings)[n]]
Refused == ship' = NoShip
Verdict(ok) == IF ok THEN ship' = Onward(ship) ELSE Refused

\* No gate is built when no authority is configured.
AskToShip ==
  /\ ship.pc = "idle"
  /\ \E r \in Digests \cup {"tag"} : ship' = Onward([NoShip EXCEPT !.ref = r])
  /\ UNCHANGED <<settings, tag, attached, slack>>

VerifySignature ==
  /\ ship.pc = "signature"
  /\ \/ Verdict(signatureHolds(Resolve(ship.ref))) /\ UNCHANGED slack
     \/ Dark /\ Refused
  /\ UNCHANGED <<settings, tag, attached>>

\* Any one acceptable statement is enough.
VerifyProvenance ==
  /\ ship.pc = "provenance"
  /\ \/ Verdict(TrustedBuilds(Resolve(ship.ref)) # {}) /\ UNCHANGED slack
     \/ Dark /\ Refused
  /\ UNCHANGED <<settings, tag, attached>>

ParseEnvelopes(i) == {attached[i][n] : n \in {m \in DOMAIN attached[i] : attached[i][m].type # "signature"}}

DownloadSummaries ==
  /\ ship.pc = "source"
  /\ \/ /\ LET e == ParseEnvelopes(Resolve(ship.ref))
           IN  IF e = {} THEN Refused ELSE ship' = [ship EXCEPT !.pc = "join", !.envelopes = e]
        /\ UNCHANGED slack
     \/ Dark /\ Refused
  /\ UNCHANGED <<settings, tag, attached>>

\* Provenance that cannot be read now leaves nothing to compare with.
ReadBuildCommit ==
  /\ ship.pc = "join"
  /\ \/ /\ ship' = [ship EXCEPT !.pc = "summary",
                      !.builtFrom = IF HasProvenance(settings) THEN buildCommit(Resolve(ship.ref)) ELSE ""]
        /\ UNCHANGED slack
     \/ HasProvenance(settings) /\ Dark /\ ship' = [ship EXCEPT !.pc = "summary", !.dark = TRUE]
  /\ UNCHANGED <<settings, tag, attached>>

CheckSummaries ==
  /\ ship.pc = "summary"
  /\ Verdict(\E e \in ship.envelopes : authenticate(e) /\ sourceCheck(e, ship.builtFrom))
  /\ UNCHANGED <<settings, tag, attached, slack>>

\* A rollout that needs approval is stored; Approve deploys without asking again.
AwaitApproval ==
  /\ ship.pc = "cleared"
  /\ ship' = [ship EXCEPT !.pc = "awaiting"]
  /\ UNCHANGED <<settings, tag, attached, slack>>

Ship ==
  /\ ship.pc \in {"cleared", "awaiting"}
  /\ ship' = [ship EXCEPT !.pc = "shipped", !.image = Resolve(ship.ref)]
  /\ UNCHANGED <<settings, tag, attached, slack>>

(***************************************************************************)
(* The registry                                                              *)
(***************************************************************************)
Attach ==
  /\ \E i \in Digests, a \in Attachable :
        /\ Len(attached[i]) < MaxAttached
        /\ attached' = [attached EXCEPT ![i] = Append(@, a)]
  /\ UNCHANGED <<settings, tag, ship, slack>>

MoveTag ==
  /\ slack.moves > 0 /\ slack' = [slack EXCEPT !.moves = @ - 1]
  /\ tag' \in Digests \ {tag}
  /\ UNCHANGED <<settings, attached, ship>>

ArtifactsNext == \/ AskToShip \/ VerifySignature \/ VerifyProvenance \/ DownloadSummaries
                 \/ ReadBuildCommit \/ CheckSummaries \/ AwaitApproval \/ Ship
                 \/ Attach \/ MoveTag

ArtifactsSpec == ArtifactsInit /\ [][ArtifactsNext]_artifactVars

(***************************************************************************)
(* Properties                                                                *)
(***************************************************************************)
SourceGated(i) == {n \in DOMAIN attached[i] : authenticate(attached[i][n]) /\ SummaryAccepted(attached[i][n])}
OneCommit(i) ==
  \A m, n \in statements(i) : "" \in {SourceCommit(attached[i][m]), SourceCommit(attached[i][n])}
                                 \/ SourceCommit(attached[i][m]) = SourceCommit(attached[i][n])

\* What ships by digest is vouched for by every authority that is configured with
\* the key to check it (boot.go:105-118), and the commit the gate passed is the commit it was built
\* from ("the join is checked", sourcegate.go:100), given that the provenance
\* could be read both times and that its statements agree on the commit: the
\* reads are separate calls and attestations keep arriving between them.
ShipsVouched ==
  ship.pc = "shipped" /\ ship.ref # "tag" =>
    /\ settings.cosign => signatureHolds(ship.image)
    /\ HasProvenance(settings) => TrustedBuilds(ship.image) # {}
    /\ settings.gateKeys # {} => SourceGated(ship.image) # {}
    /\ HasProvenance(settings) /\ settings.gateKeys # {} /\ ~ship.dark /\ OneCommit(ship.image)
         => \E m \in TrustedBuilds(ship.image), n \in SourceGated(ship.image) :
               SourceCommit(attached[ship.image][m]) = SummaryCommit(attached[ship.image][n])

\* What the code does not give, and no run checks: that builders or gates which are
\* set without a key are honoured or refused.  artifactGate logs the missing key and
\* builds no verifier (boot.go:152-158, 170-178); the daemon starts and ships.
SetMeansAsked ==
  ship.pc = "shipped" /\ ship.ref # "tag" =>
    /\ settings.builders # {} => TrustedBuilds(ship.image) # {}
    /\ settings.gates # {} => SourceGated(ship.image) # {}
=============================================================================
