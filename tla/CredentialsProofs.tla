------------------------- MODULE CredentialsProofs -------------------------
(***************************************************************************)
(* Proofs about the credential caches, for any number of callers, any key    *)
(* sets and any lifetimes.                                                   *)
(***************************************************************************)
EXTENDS Credentials, TLAPS

CredPCs   == {"idle", "lookup", "waiting", "fetching", "fetched", "locking", "minting", "answered"}
Answers   == {"", "accepted", "denied", "no key", "issued"}
Published == KeySets \cup {FirstKeys}
AskRecord == [pc : CredPCs, token : Tokens, begun : Nat, found : Published \cup {NoKeys}, answer : Answers,
              at : Nat, stale : BOOLEAN, until : Nat]
JWKSRecord == [keys : Published \cup {NoKeys}, exp : Nat, last : Nat, refreshing : BOOLEAN, failed : BOOLEAN]
AppRecord  == [exp : Nat, holder : Calls \cup {"none"}]
LeftRecord == [tokens : SUBSET Tokens, rotations : Nat, failures : Nat]

CredTypes ==
  /\ clock \in Nat /\ provider \in Published
  /\ jwks \in JWKSRecord /\ app \in AppRecord /\ left \in LeftRecord
  /\ asking \in [Calls -> AskRecord]

\* What is known about when a key was published and withdrawn.
History(now, p, s, g) ==
  /\ DOMAIN s = DOMAIN p
  /\ \A kid \in DOMAIN s : s[kid] \in Nat
  /\ \A k \in DOMAIN g : g[k] \in Nat /\ k \notin Ids(p)

\* Fetching a key set ends within Timeout of its beginning.
InTime(q, now) ==
  /\ q.begun <= now /\ q.at <= now
  /\ InFlight(q) => now <= q.begun + Timeout

\* The keys of ks were all published, and were all that was published, at some
\* moment not before begun.
Current(ks, begun, s, g) ==
  /\ \A kid \in DOMAIN ks : ks[kid].id \in DOMAIN g => begun <= g[ks[kid].id]
  /\ \A kid \in DOMAIN s \ DOMAIN ks : begun <= s[kid]

\* Answer a to token t at time n, from keys read in time.
Justified(t, a, n, o, s, g) ==
  o = "jwks" /\ t.alg \in {"RS", "ES"} =>
    /\ a = "accepted" /\ t.key \in DOMAIN g => n < g[t.key] + TTL + Timeout
    /\ a = "no key" /\ t.kid \in DOMAIN s => n < s[t.kid] + MinRefresh + Timeout

Right(q, o, s, g) ==
  /\ q.pc = "answered" /\ ~q.stale => Justified(q.token, q.answer, q.at, o, s, g)
  /\ q.pc = "answered" /\ q.answer = "issued" => q.until > q.at + Margin \/ q.at + Margin >= q.begun + AppTTL

Fine(q, now, o, s, g) ==
  /\ InTime(q, now)
  /\ q.pc = "fetched" /\ q.found # NoKeys => Current(q.found, q.begun, s, g)
  /\ Right(q, o, s, g)

\* The cache expires within TTL, and before a key of it has been withdrawn for
\* longer than TTL and one HTTP call; after a fetch that succeeded, what it lacks
\* was not published longer ago than one HTTP call before it.
Cached(j, now, s, g) ==
  /\ j.exp <= now + TTL /\ j.last <= now
  /\ \A kid \in DOMAIN j.keys : j.keys[kid].id \in DOMAIN g => j.exp <= g[j.keys[kid].id] + TTL + Timeout
  /\ ~j.failed /\ j.exp > 0 => \A kid \in DOMAIN s \ DOMAIN j.keys : j.last <= s[kid] + Timeout

CredInv ==
  /\ CredTypes
  /\ History(clock, provider, since, gone)
  /\ \A c \in Calls : Fine(asking[c], clock, oidc, since, gone)
  /\ Cached(jwks, clock, since, gone)

-----------------------------------------------------------------------------
LEMMA CredNumbers ==
  /\ TTL \in Nat /\ MinRefresh \in Nat /\ Timeout \in Nat /\ Margin \in Nat /\ AppTTL \in Nat
  /\ TTL > 0 /\ MinRefresh > 0 /\ AppTTL > Margin
  BY CredentialsAssumption

LEMMA QuietRecord == Quiet \in AskRecord
  BY DEF Quiet, AskRecord, CredPCs, Answers, Tokens

\* The caches are empty at first.
LEMMA CredInvInit == CredInit => CredInv
<1> SUFFICES ASSUME CredInit PROVE CredInv OBVIOUS
<1>1. left \in LeftRecord
  BY CredentialsAssumption DEF CredInit, LeftRecord
<1>2. CredTypes
  BY <1>1, QuietRecord DEF CredInit, CredTypes, Published, JWKSRecord, AppRecord
<1>3. DOMAIN gone = {} /\ DOMAIN NoKeys = {}
  BY DEF CredInit, NoKeys
<1>4. History(clock, provider, since, gone)
  BY <1>3 DEF CredInit, History
<1>5. Cached(jwks, clock, since, gone)
  BY <1>3, CredNumbers DEF CredInit, Cached
<1>6. Fine(Quiet, clock, oidc, since, gone)
  <2>1. Quiet.pc = "idle" /\ Quiet.begun = 0 /\ Quiet.at = 0
    BY DEF Quiet
  <2>2. clock = 0
    BY DEF CredInit
  <2>3. InTime(Quiet, clock)
    BY <2>1, <2>2 DEF InTime, InFlight
  <2> QED BY <2>1, <2>3 DEF Fine, Right
<1> QED BY <1>2, <1>4, <1>5, <1>6 DEF CredInit, CredInv

\* Replacing one call's record by a good one.
LEMMA OneAsk ==
  ASSUME CredInv, NEW c \in Calls, NEW q \in AskRecord, Fine(q, clock, oidc, since, gone),
         asking' = [asking EXCEPT ![c] = q], UNCHANGED <<clock, oidc, provider, since, gone>>
  PROVE  /\ asking' \in [Calls -> AskRecord]
         /\ (\A d \in Calls : Fine(asking[d], clock, oidc, since, gone))'
         /\ History(clock, provider, since, gone)'
<1>1. asking' \in [Calls -> AskRecord]
  BY DEF CredInv, CredTypes
<1>2. \A d \in Calls : asking'[d] = IF d = c THEN q ELSE asking[d]
  BY DEF CredInv, CredTypes
<1>3. \A d \in Calls : Fine(asking'[d], clock, oidc, since, gone)
  BY <1>2 DEF CredInv
<1> QED BY <1>1, <1>3 DEF CredInv

\* The answers of a call.
LEMMA AnsweredRecord ==
  ASSUME NEW q \in AskRecord, NEW a \in Answers, NEW b \in BOOLEAN, clock \in Nat
  PROVE  /\ Answered(q, a, b) \in AskRecord
         /\ Answered(q, a, b).pc = "answered" /\ Answered(q, a, b).answer = a
         /\ Answered(q, a, b).at = clock /\ Answered(q, a, b).stale = b
         /\ Answered(q, a, b).begun = 0 /\ Answered(q, a, b).token = q.token
  BY DEF Answered, AskRecord, CredPCs

LEMMA AnsweredFine ==
  ASSUME NEW q \in AskRecord, NEW a \in Answers, NEW b \in BOOLEAN, CredInv, a # "issued",
         ~b => Justified(q.token, a, clock, oidc, since, gone)
  PROVE  Fine(Answered(q, a, b), clock, oidc, since, gone)
<1> DEFINE r == Answered(q, a, b)
<1>0. clock \in Nat
  BY DEF CredInv, CredTypes
<1>1. r.pc = "answered" /\ r.answer = a /\ r.at = clock /\ r.stale = b /\ r.begun = 0 /\ r.token = q.token
  BY <1>0, AnsweredRecord
<1> HIDE DEF r
<1>2. InTime(r, clock)
  <2>1. r.begun <= clock /\ r.at <= clock
    BY <1>0, <1>1
  <2> QED BY <1>1, <2>1 DEF InTime, InFlight
<1>3. Right(r, oidc, since, gone)
  BY <1>1 DEF Right
<1> QED BY <1>1, <1>2, <1>3 DEF Fine, r

\* A call that starts an HTTP call.
LEMMA BeginsFine ==
  ASSUME NEW q \in AskRecord, NEW p \in {"fetching", "minting"}, CredInv, q.at <= clock
  PROVE  Begins(q, p) \in AskRecord /\ Fine(Begins(q, p), clock, oidc, since, gone)
<1> DEFINE r == Begins(q, p)
<1>0. clock \in Nat
  BY DEF CredInv, CredTypes
<1>1. r \in AskRecord /\ r.pc = p /\ r.begun = clock /\ r.at = q.at
  BY <1>0 DEF AskRecord, Begins, CredPCs
<1> HIDE DEF r
<1>2. InTime(r, clock)
  BY <1>0, <1>1, CredNumbers DEF InTime, InFlight
<1>3. Right(r, oidc, since, gone)
  BY <1>1 DEF Right
<1> QED BY <1>1, <1>2, <1>3 DEF Fine, r

\* A call of which only the pc changes.
LEMMA AsksOnPC ==
  ASSUME NEW q \in AskRecord, NEW p \in CredPCs \ {"answered", "fetched"}, CredInv,
         q.begun <= clock, InFlight([pc |-> p]) => clock <= q.begun + Timeout, q.at <= clock
  PROVE  /\ Goes(q, p) \in AskRecord
         /\ Fine(Goes(q, p), clock, oidc, since, gone)
<1> DEFINE r == Goes(q, p)
<1>1. r \in AskRecord /\ r.pc = p /\ r.begun = q.begun /\ r.at = q.at
  BY DEF AskRecord, Goes
<1> HIDE DEF r
<1>2. InTime(r, clock)
  BY <1>1 DEF InTime, InFlight
<1>3. Right(r, oidc, since, gone)
  BY <1>1 DEF Right
<1> QED BY <1>1, <1>2, <1>3 DEF Fine, r

-----------------------------------------------------------------------------
\* Asking.  A token that needs no key is answered at once, and never "no key".
LEMMA AskKeeps == ASSUME CredInv, NEW c \in Calls, AskCredential(c) PROVE CredInv'
<1>0. clock \in Nat /\ left \in LeftRecord
  BY DEF CredInv, CredTypes
<1>1. PICK t \in left.tokens : asking' = [asking EXCEPT ![c] = Presented(t)]
  BY DEF AskCredential
<1> DEFINE q  == [Quiet EXCEPT !.token = t]
           yes == IF t.name = "admin" THEN "accepted" ELSE "denied"
           ok == IF validHMAC(t) /\ Identified(t) THEN "accepted" ELSE "denied"
           A1 == Goes(q, "locking")
           A2 == Answered(q, yes, FALSE)
           A3 == Goes(q, "lookup")
           A4 == Answered(q, ok, FALSE)
           A5 == Answered(q, "denied", FALSE)
           w  == Presented(t)
<1>2. asking' = [asking EXCEPT ![c] = w]
  BY <1>1
<1>3. q \in AskRecord /\ q.token = t /\ q.at <= clock /\ q.begun <= clock
  <2>1. t \in Tokens
    BY <1>0 DEF LeftRecord
  <2>2. q \in AskRecord /\ q.token = t /\ q.at = 0 /\ q.begun = 0
    BY <2>1, QuietRecord DEF AskRecord, Quiet
  <2> QED BY <1>0, <2>2
<1> HIDE DEF q
<1>4. /\ A1 \in AskRecord /\ Fine(A1, clock, oidc, since, gone)
      /\ A3 \in AskRecord /\ Fine(A3, clock, oidc, since, gone)
  <2>1. {"locking", "lookup"} \subseteq CredPCs \ {"answered", "fetched"}
    BY DEF CredPCs
  <2>2. ~InFlight([pc |-> "locking"]) /\ ~InFlight([pc |-> "lookup"])
    BY DEF InFlight
  <2> QED BY <1>3, <2>1, <2>2, AsksOnPC
<1>5. yes \in Answers /\ ok \in Answers /\ "denied" \in Answers /\ yes # "issued" /\ ok # "issued"
  BY DEF Answers
<1>6. Justified(q.token, "denied", clock, oidc, since, gone)
  BY DEF Justified
<1>7. t.alg \notin {"RS", "ES"} => Justified(q.token, yes, clock, oidc, since, gone) /\ Justified(q.token, ok, clock, oidc, since, gone)
  BY <1>3 DEF Justified
<1> HIDE DEF yes, ok
<1>8. A2 \in AskRecord /\ A4 \in AskRecord /\ A5 \in AskRecord
  BY <1>0, <1>3, <1>5, AnsweredRecord, Zenon
<1>9. /\ t.alg \notin {"RS", "ES"} => Fine(A2, clock, oidc, since, gone) /\ Fine(A4, clock, oidc, since, gone)
      /\ Fine(A5, clock, oidc, since, gone)
  BY <1>3, <1>5, <1>6, <1>7, AnsweredFine
<1>10. /\ t = App => t.alg # "opaque" /\ t.alg # "HS" /\ ~NeedsKey(t)
       /\ t.alg = "opaque" => t.alg # "HS" /\ ~NeedsKey(t)
       /\ NeedsKey(t) => t.alg # "HS"
  BY DEF App, NeedsKey
<1>11. w \in AskRecord /\ Fine(w, clock, oidc, since, gone)
  <2>1. CASE t = App
    <3>1. w = A1 BY <1>10, <2>1, Zenon DEF Presented, q, yes, ok
    <3> QED BY <3>1, <1>4
  <2>2. CASE t # App /\ t.alg = "opaque"
    <3>1. w = A2 BY <1>10, <2>2, Zenon DEF Presented, q, yes, ok
    <3> QED BY <3>1, <2>2, <1>8, <1>9
  <2>3. CASE t # App /\ t.alg # "opaque" /\ NeedsKey(t)
    <3>1. w = A3 BY <1>10, <2>3, Zenon DEF Presented, q, yes, ok
    <3> QED BY <3>1, <1>4
  <2>4. CASE t # App /\ t.alg # "opaque" /\ ~NeedsKey(t) /\ t.alg = "HS"
    <3>1. w = A4 BY <1>10, <2>4, Zenon DEF Presented, q, yes, ok
    <3> QED BY <3>1, <2>4, <1>8, <1>9
  <2>5. CASE t # App /\ t.alg # "opaque" /\ ~NeedsKey(t) /\ t.alg # "HS"
    <3>1. w = A5 BY <1>10, <2>5, Zenon DEF Presented, q, yes, ok
    <3> QED BY <3>1, <1>8, <1>9
  <2> QED BY <2>1, <2>2, <2>3, <2>4, <2>5
<1> HIDE DEF w
<1>12. UNCHANGED <<clock, provider, since, gone, oidc, jwks, app, left>>
  BY DEF AskCredential
<1> QED BY <1>2, <1>11, <1>12, OneAsk DEF CredInv, CredTypes

-----------------------------------------------------------------------------
\* What ks says of a kid may be believed at time n.
Fresh(ks, kid, n, s, g) ==
  /\ kid \in DOMAIN ks /\ ks[kid].id \in DOMAIN g => n < g[ks[kid].id] + TTL + Timeout
  /\ kid \in DOMAIN s \ DOMAIN ks => n < s[kid] + MinRefresh + Timeout

LEMMA JudgedFine ==
  ASSUME NEW q \in AskRecord, NEW ks, NEW b \in BOOLEAN, CredInv, ~b => Fresh(ks, q.token.kid, clock, since, gone)
  PROVE  Judged(q, ks, b) \in AskRecord /\ Fine(Judged(q, ks, b), clock, oidc, since, gone)
<1> DEFINE t == q.token
           a == IF t.kid \notin DOMAIN ks THEN "no key"
                ELSE IF verifyAsymmetric(t, ks[t.kid]) /\ Identified(t) THEN "accepted" ELSE "denied"
<1>1. Judged(q, ks, b) = Answered(q, a, b)
  BY Zenon DEF Judged
<1>2. a \in Answers /\ a # "issued"
  BY DEF Answers
<1>3. ASSUME ~b PROVE Justified(t, a, clock, oidc, since, gone)
  <2>1. a = "no key" => t.kid \notin DOMAIN ks
    OBVIOUS
  <2>2. a = "accepted" => t.kid \in DOMAIN ks /\ t.key = ks[t.kid].id
    BY DEF verifyAsymmetric
  <2>3. Fresh(ks, t.kid, clock, since, gone)
    BY <1>3
  <2> HIDE DEF a, t
  <2>4. a = "no key" /\ t.kid \in DOMAIN since => clock < since[t.kid] + MinRefresh + Timeout
    BY <2>1, <2>3, Zenon DEF Fresh
  <2>5. a = "accepted" /\ t.key \in DOMAIN gone => clock < gone[t.key] + TTL + Timeout
    BY <2>2, <2>3, Zenon DEF Fresh
  <2> QED BY <2>4, <2>5, Zenon DEF Justified
<1>4. clock \in Nat
  BY DEF CredInv, CredTypes
<1> HIDE DEF a
<1> QED BY <1>1, <1>2, <1>3, <1>4, AnsweredRecord, AnsweredFine

\* What is left of a fetch that began at b, at time n, is fresh for every kid.
LEMMA FetchIsFresh ==
  ASSUME CredInv, NEW ks, NEW b \in Nat, Current(ks, b, since, gone), clock <= b + Timeout, NEW kid
  PROVE  Fresh(ks, kid, clock, since, gone)
<1>1. clock \in Nat
  BY DEF CredInv, CredTypes
<1>2. History(clock, provider, since, gone)
  BY DEF CredInv
<1>3. ASSUME kid \in DOMAIN ks, ks[kid].id \in DOMAIN gone PROVE clock < gone[ks[kid].id] + TTL + Timeout
  <2>1. gone[ks[kid].id] \in Nat
    BY <1>2, <1>3 DEF History
  <2>2. b <= gone[ks[kid].id]
    BY <1>3 DEF Current
  <2> QED BY <1>1, <2>1, <2>2, CredNumbers
<1>4. ASSUME kid \in DOMAIN since \ DOMAIN ks PROVE clock < since[kid] + MinRefresh + Timeout
  <2>1. since[kid] \in Nat
    BY <1>2, <1>4 DEF History
  <2>2. b <= since[kid]
    BY <1>4 DEF Current
  <2> QED BY <1>1, <2>1, <2>2, CredNumbers
<1> QED BY <1>3, <1>4, Zenon DEF Fresh

\* What the cache says of a kid while it is valid: of one it has, or of one it
\* lacks within the refresh interval.
LEMMA CacheIsFresh ==
  ASSUME CredInv, clock < jwks.exp, ~jwks.failed, NEW kid,
         kid \in DOMAIN jwks.keys \/ clock < jwks.last + MinRefresh
  PROVE  Fresh(jwks.keys, kid, clock, since, gone)
<1>1. clock \in Nat /\ jwks.exp \in Nat /\ jwks.last \in Nat
  BY DEF CredInv, CredTypes, JWKSRecord
<1>2. Cached(jwks, clock, since, gone) /\ History(clock, provider, since, gone)
  BY DEF CredInv
<1>3. ASSUME kid \in DOMAIN jwks.keys, jwks.keys[kid].id \in DOMAIN gone
      PROVE  clock < gone[jwks.keys[kid].id] + TTL + Timeout
  <2>1. gone[jwks.keys[kid].id] \in Nat
    BY <1>2, <1>3 DEF History
  <2>2. jwks.exp <= gone[jwks.keys[kid].id] + TTL + Timeout
    BY <1>2, <1>3 DEF Cached
  <2> QED BY <1>1, <2>1, <2>2, CredNumbers
<1>4. ASSUME kid \in DOMAIN since \ DOMAIN jwks.keys PROVE clock < since[kid] + MinRefresh + Timeout
  <2>1. since[kid] \in Nat
    BY <1>2, <1>4 DEF History
  <2>2. jwks.exp > 0
    BY <1>1
  <2>3. jwks.last <= since[kid] + Timeout
    BY <1>2, <1>4, <2>2 DEF Cached
  <2>4. clock < jwks.last + MinRefresh
    BY <1>4
  <2> QED BY <1>1, <2>1, <2>3, <2>4, CredNumbers
<1> QED BY <1>3, <1>4, Zenon DEF Fresh

-----------------------------------------------------------------------------
\* What is known of a call before its step.
LEMMA KnownAsk ==
  ASSUME CredInv, NEW c \in Calls
  PROVE  /\ asking[c] \in AskRecord /\ Fine(asking[c], clock, oidc, since, gone) /\ clock \in Nat
         /\ asking[c].begun \in Nat /\ asking[c].at <= clock /\ asking[c].begun <= clock
         /\ jwks \in JWKSRecord /\ app \in AppRecord /\ left \in LeftRecord /\ provider \in Published
         /\ Cached(jwks, clock, since, gone) /\ History(clock, provider, since, gone)
  BY DEF CredInv, CredTypes, AskRecord, Fine, InTime

\* JWKS.Key up to the fetch.
LEMMA LookupKeeps == ASSUME CredInv, NEW c \in Calls, Lookup(c) PROVE CredInv'
<1> DEFINE q == asking[c]
           hit == clock < jwks.exp /\ (q.token.kid \in DOMAIN jwks.keys \/ clock < jwks.last + MinRefresh)
<1>1. UNCHANGED <<clock, provider, since, gone, oidc, app, left>>
  BY DEF Lookup
<1>2. CASE hit
  <2>1. asking' = [asking EXCEPT ![c] = Judged(q, jwks.keys, jwks.failed)] /\ UNCHANGED jwks
    BY <1>2, Zenon DEF Lookup
  <2>2. jwks.failed \in BOOLEAN
    BY KnownAsk DEF JWKSRecord
  <2>3. ~jwks.failed => Fresh(jwks.keys, q.token.kid, clock, since, gone)
    BY <1>2, CacheIsFresh
  <2>4. Judged(q, jwks.keys, jwks.failed) \in AskRecord /\ Fine(Judged(q, jwks.keys, jwks.failed), clock, oidc, since, gone)
    BY <2>2, <2>3, KnownAsk, JudgedFine
  <2> HIDE DEF q
  <2> QED BY <1>1, <2>1, <2>4, OneAsk DEF CredInv, CredTypes
<1>3. CASE ~hit /\ jwks.refreshing
  <2>1. asking' = [asking EXCEPT ![c] = Goes(q, "waiting")] /\ UNCHANGED jwks
    BY <1>3, Zenon DEF Lookup
  <2>2. "waiting" \in CredPCs \ {"answered", "fetched"} /\ ~InFlight([pc |-> "waiting"])
    BY DEF CredPCs, InFlight
  <2>3. Goes(q, "waiting") \in AskRecord /\ Fine(Goes(q, "waiting"), clock, oidc, since, gone)
    BY <2>2, KnownAsk, AsksOnPC
  <2> HIDE DEF q
  <2> QED BY <1>1, <2>1, <2>3, OneAsk DEF CredInv, CredTypes
<1>4. CASE ~hit /\ ~jwks.refreshing
  <2>1. asking' = [asking EXCEPT ![c] = Begins(q, "fetching")] /\ jwks' = [jwks EXCEPT !.refreshing = TRUE]
    BY <1>4, Zenon DEF Lookup
  <2>2. Begins(q, "fetching") \in AskRecord /\ Fine(Begins(q, "fetching"), clock, oidc, since, gone)
    BY KnownAsk, BeginsFine
  <2>3. /\ jwks' \in JWKSRecord /\ jwks'.keys = jwks.keys /\ jwks'.exp = jwks.exp
        /\ jwks'.last = jwks.last /\ jwks'.failed = jwks.failed
    BY <2>1, KnownAsk DEF JWKSRecord
  <2>4. Cached(jwks, clock, since, gone)'
    BY <1>1, <2>3, KnownAsk, Zenon DEF Cached
  <2> HIDE DEF q
  <2> QED BY <1>1, <2>1, <2>2, <2>3, <2>4, OneAsk DEF CredInv, CredTypes
<1> QED BY <1>2, <1>3, <1>4

\* The provider's answer: what it publishes now was not withdrawn, and nothing
\* else is published.
LEMMA FetchKeeps == ASSUME CredInv, NEW c \in Calls, fetchJWKS(c) PROVE CredInv'
<1> DEFINE q == asking[c]
<1>1. UNCHANGED <<clock, provider, since, gone, oidc, jwks, app>> /\ q.pc = "fetching"
  BY DEF fetchJWKS
<1>2. PICK ks \in {provider, NoKeys} : asking' = [asking EXCEPT ![c] = Fetched(q, ks)]
  BY Zenon DEF fetchJWKS
<1>3. left' \in LeftRecord
  <2>1. left' = left \/ (left.failures > 0 /\ left' = [left EXCEPT !.failures = @ - 1])
    BY Zenon DEF fetchJWKS, Failure
  <2> QED BY <2>1, KnownAsk DEF LeftRecord
<1> DEFINE r == Fetched(q, ks)
<1>4. r \in AskRecord /\ r.pc = "fetched" /\ r.found = ks /\ r.begun = q.begun /\ r.at = q.at
  BY KnownAsk DEF Fetched, AskRecord, CredPCs
<1>5. Current(provider, q.begun, since, gone)
  BY KnownAsk DEF Current, History, Ids
<1>6. InTime(q, clock)
  BY KnownAsk DEF Fine
<1> HIDE DEF r, q
<1>7. Fine(r, clock, oidc, since, gone)
  <2>1. InTime(r, clock)
    BY <1>1, <1>4, <1>6 DEF InTime, InFlight
  <2>2. Right(r, oidc, since, gone)
    BY <1>4 DEF Right
  <2> QED BY <1>4, <1>5, <2>1, <2>2 DEF Fine
<1> QED BY <1>1, <1>2, <1>3, <1>4, <1>7, OneAsk DEF CredInv, CredTypes, r

\* JWKS.Key after the fetch: the cache is replaced, or kept, and whoever waits
\* looks again.
LEMMA StoreKeeps == ASSUME CredInv, NEW c \in Calls, StoreKeys(c) PROVE CredInv'
<1> DEFINE q    == asking[c]
           ok   == q.found # NoKeys
           keys == IF ok THEN q.found ELSE jwks.keys
           w    == Judged(q, keys, ~ok)
           x    == [asking EXCEPT ![c] = w]
<1>1. UNCHANGED <<clock, provider, since, gone, oidc, app, left>> /\ q.pc = "fetched"
  BY DEF StoreKeys
<1>2. /\ jwks' = [keys |-> keys, exp |-> IF ok THEN clock + TTL ELSE jwks.exp, last |-> clock,
                  refreshing |-> FALSE, failed |-> ~ok]
      /\ asking' = Woken(x)
  BY Zenon DEF StoreKeys
<1>3. /\ q \in AskRecord /\ clock \in Nat /\ q.begun \in Nat /\ q.found \in Published \cup {NoKeys}
      /\ jwks.keys \in Published \cup {NoKeys} /\ jwks.exp \in Nat
  BY KnownAsk DEF AskRecord, JWKSRecord
<1>4. ok => Current(q.found, q.begun, since, gone)
  BY <1>1, KnownAsk DEF Fine
<1>5. clock <= q.begun + Timeout
  BY <1>1, KnownAsk DEF Fine, InTime, InFlight
<1> HIDE DEF q
<1>6. ok => Fresh(keys, q.token.kid, clock, since, gone)
  BY <1>3, <1>4, <1>5, FetchIsFresh
<1>7. w \in AskRecord /\ Fine(w, clock, oidc, since, gone)
  BY <1>3, <1>6, JudgedFine
<1>8. \A d \in Calls : x[d] \in AskRecord /\ Fine(x[d], clock, oidc, since, gone)
  <2> HIDE DEF w
  <2> QED BY <1>7 DEF CredInv, CredTypes
<1> HIDE DEF w, x
<1>9. ASSUME NEW d \in Calls PROVE asking'[d] \in AskRecord /\ Fine(asking'[d], clock, oidc, since, gone)
  <2>1. asking'[d] = IF x[d].pc = "waiting" THEN Goes(x[d], "lookup") ELSE x[d]
    BY <1>2, Zenon DEF Woken
  <2>2. "lookup" \in CredPCs \ {"answered", "fetched"} /\ ~InFlight([pc |-> "lookup"])
    BY DEF CredPCs, InFlight
  <2>3. x[d].begun <= clock /\ x[d].at <= clock
    BY <1>8 DEF Fine, InTime
  <2>4. Goes(x[d], "lookup") \in AskRecord /\ Fine(Goes(x[d], "lookup"), clock, oidc, since, gone)
    BY <1>8, <2>2, <2>3, AsksOnPC
  <2> QED BY <1>8, <2>1, <2>4
<1>10. asking' \in [Calls -> AskRecord]
  BY <1>2, <1>9 DEF Woken
<1>11. jwks' \in JWKSRecord
  BY <1>2, <1>3, CredNumbers DEF JWKSRecord
<1>12. Cached(jwks', clock, since, gone)
  <2>0. Cached(jwks, clock, since, gone) /\ History(clock, provider, since, gone)
    BY KnownAsk
  <2>1. jwks'.last = clock /\ jwks'.keys = keys /\ jwks'.failed = ~ok /\ jwks'.exp = IF ok THEN clock + TTL ELSE jwks.exp
    BY <1>2
  <2>2. CASE ~ok
    <3>1. jwks'.exp = jwks.exp /\ jwks'.keys = jwks.keys /\ jwks'.failed
      BY <2>1, <2>2
    <3>2. clock <= clock
      BY <1>3
    <3> HIDE DEF ok, keys
    <3> QED BY <2>0, <2>1, <3>1, <3>2, Zenon DEF Cached
  <2>3. CASE ok
    <3>1. jwks'.exp = clock + TTL /\ jwks'.keys = q.found /\ ~jwks'.failed
      BY <2>1, <2>3
    <3>2. Current(q.found, q.begun, since, gone)
      BY <1>4, <2>3
    <3> HIDE DEF ok, keys
    <3>3. ASSUME NEW kid \in DOMAIN q.found, q.found[kid].id \in DOMAIN gone
          PROVE  clock + TTL <= gone[q.found[kid].id] + TTL + Timeout
      <4>1. gone[q.found[kid].id] \in Nat
        BY <2>0, <3>3 DEF History
      <4>2. q.begun <= gone[q.found[kid].id]
        BY <3>2, <3>3 DEF Current
      <4> QED BY <4>1, <4>2, <1>3, <1>5, CredNumbers
    <3>4. ASSUME NEW kid \in DOMAIN since \ DOMAIN q.found PROVE clock <= since[kid] + Timeout
      <4>1. since[kid] \in Nat
        BY <2>0 DEF History
      <4>2. q.begun <= since[kid]
        BY <3>2 DEF Current
      <4> QED BY <4>1, <4>2, <1>3, <1>5, CredNumbers
    <3>5. clock + TTL <= clock + TTL /\ clock <= clock
      BY <1>3, CredNumbers
    <3> QED BY <2>1, <3>1, <3>3, <3>4, <3>5, Zenon DEF Cached
  <2> QED BY <2>2, <2>3
<1> QED BY <1>1, <1>9, <1>10, <1>11, <1>12, KnownAsk DEF CredInv, CredTypes

\* A token with more than the margin to live, or one whose minting took too long.
LEMMA IssuedFine ==
  ASSUME CredInv, NEW q \in AskRecord, NEW e \in Nat, NEW b \in Nat, b <= clock,
         e > clock + Margin \/ clock + Margin >= b + AppTTL
  PROVE  Issued(q, e, b) \in AskRecord /\ Fine(Issued(q, e, b), clock, oidc, since, gone)
<1> DEFINE a == Answered(q, "issued", FALSE)
           r == Issued(q, e, b)
<1>0. clock \in Nat /\ "issued" \in Answers
  BY DEF CredInv, CredTypes, Answers
<1>1. a \in AskRecord /\ a.pc = "answered" /\ a.answer = "issued" /\ a.at = clock /\ a.stale = FALSE
  BY <1>0, AnsweredRecord, Zenon
<1>2. r = [a EXCEPT !.until = e, !.begun = b]
  BY DEF Issued
<1> HIDE DEF a, r
<1>3. r \in AskRecord /\ r.pc = "answered" /\ r.answer = "issued" /\ r.at = clock /\ r.begun = b /\ r.until = e
  BY <1>1, <1>2 DEF AskRecord
<1>4. InTime(r, clock)
  <2>1. r.begun <= clock /\ r.at <= clock
    BY <1>0, <1>3
  <2> QED BY <1>3, <2>1 DEF InTime, InFlight
<1>5. Justified(r.token, r.answer, r.at, oidc, since, gone)
  BY <1>3 DEF Justified
<1>6. Right(r, oidc, since, gone)
  BY <1>3, <1>5 DEF Right
<1> QED BY <1>3, <1>4, <1>6 DEF Fine, r

LEMMA LockKeeps == ASSUME CredInv, NEW c \in Calls, LockApp(c) PROVE CredInv'
<1> DEFINE q == asking[c]
<1>1. UNCHANGED <<clock, provider, since, gone, oidc, jwks, left>>
  BY DEF LockApp
<1>2. CASE clock + Margin < app.exp
  <2>1. asking' = [asking EXCEPT ![c] = Issued(q, app.exp, clock)] /\ UNCHANGED app
    BY <1>2 DEF LockApp
  <2>2. app.exp \in Nat /\ app.exp > clock + Margin
    BY <1>2, KnownAsk, CredNumbers DEF AppRecord
  <2>2a. clock \in Nat /\ clock <= clock
    BY KnownAsk
  <2>3. Issued(q, app.exp, clock) \in AskRecord /\ Fine(Issued(q, app.exp, clock), clock, oidc, since, gone)
    BY <2>2, <2>2a, KnownAsk, IssuedFine
  <2> HIDE DEF q
  <2> QED BY <1>1, <2>1, <2>3, OneAsk DEF CredInv, CredTypes
<1>3. CASE ~(clock + Margin < app.exp)
  <2>1. asking' = [asking EXCEPT ![c] = Begins(q, "minting")] /\ app' = [app EXCEPT !.holder = c]
    BY <1>3 DEF LockApp
  <2>2. app' \in AppRecord
    BY <2>1, KnownAsk DEF AppRecord
  <2>3. Begins(q, "minting") \in AskRecord /\ Fine(Begins(q, "minting"), clock, oidc, since, gone)
    BY KnownAsk, BeginsFine
  <2> HIDE DEF q
  <2> QED BY <1>1, <2>1, <2>2, <2>3, OneAsk DEF CredInv, CredTypes
<1> QED BY <1>2, <1>3

\* A token is made between the beginning of the call and its answer: one that has
\* not more than the margin to live was minted for AppTTL less the margin.
LEMMA MintKeeps == ASSUME CredInv, NEW c \in Calls, mint(c) PROVE CredInv'
<1> DEFINE q == asking[c]
<1>1. UNCHANGED <<clock, provider, since, gone, oidc, jwks>> /\ q.pc = "minting"
  BY DEF mint
<1>2. CASE UNCHANGED left /\ \E made \in q.begun .. clock :
              /\ app' = [exp |-> made + AppTTL, holder |-> "none"]
              /\ asking' = [asking EXCEPT ![c] = Issued(q, made + AppTTL, q.begun)]
  <2>1. PICK made \in q.begun .. clock :
              /\ app' = [exp |-> made + AppTTL, holder |-> "none"]
              /\ asking' = [asking EXCEPT ![c] = Issued(q, made + AppTTL, q.begun)]
    BY <1>2
  <2>2. q.begun <= clock
    BY KnownAsk DEF Fine, InTime
  <2>3. q.begun \in Nat /\ clock \in Nat /\ q \in AskRecord
    BY KnownAsk
  <2> HIDE DEF q
  <2>4. made + AppTTL \in Nat /\ (made + AppTTL > clock + Margin \/ clock + Margin >= q.begun + AppTTL)
    BY <2>2, <2>3, CredNumbers
  <2>5. app' \in AppRecord
    BY <2>1, <2>4 DEF AppRecord
  <2>6. Issued(q, made + AppTTL, q.begun) \in AskRecord /\ Fine(Issued(q, made + AppTTL, q.begun), clock, oidc, since, gone)
    BY <2>2, <2>3, <2>4, IssuedFine
  <2> QED BY <1>1, <1>2, <2>1, <2>5, <2>6, OneAsk DEF CredInv, CredTypes
<1>3. CASE Failure /\ app' = [app EXCEPT !.holder = "none"] /\ asking' = [asking EXCEPT ![c] = Answered(q, "denied", FALSE)]
  <2>1. app' \in AppRecord
    BY <1>3, KnownAsk DEF AppRecord
  <2>2. left' \in LeftRecord
    BY <1>3, KnownAsk DEF LeftRecord, Failure
  <2>3. Justified(q.token, "denied", clock, oidc, since, gone) /\ "denied" \in Answers
    BY DEF Justified, Answers
  <2>4. q \in AskRecord /\ clock \in Nat
    BY KnownAsk
  <2> HIDE DEF q
  <2>5. Answered(q, "denied", FALSE) \in AskRecord
    BY <2>3, <2>4, AnsweredRecord, Zenon
  <2>6. Fine(Answered(q, "denied", FALSE), clock, oidc, since, gone)
    BY <2>3, <2>4, AnsweredFine
  <2> QED BY <1>1, <1>3, <2>1, <2>2, <2>5, <2>6, OneAsk DEF CredInv, CredTypes
<1> QED BY <1>2, <1>3, Zenon DEF mint

-----------------------------------------------------------------------------
\* A key set that is published makes the moments of publishing and withdrawal
\* later, never earlier.
Later(now, s, s2, g, g2) ==
  /\ \A kid \in DOMAIN s2 : s2[kid] = now \/ (kid \in DOMAIN s /\ s2[kid] = s[kid])
  /\ \A k \in DOMAIN g2 : g2[k] = now \/ (k \in DOMAIN g /\ g2[k] = g[k])

LEMMA RotateKeeps == ASSUME CredInv, Rotate PROVE CredInv'
<1>1. UNCHANGED <<clock, oidc, jwks, app, asking>> /\ left.rotations > 0 /\ left' = [left EXCEPT !.rotations = @ - 1]
  BY DEF Rotate
<1>2. PICK ks \in KeySets :
        /\ provider' = ks
        /\ since' = [kid \in DOMAIN ks |-> IF kid \in DOMAIN provider THEN since[kid] ELSE clock]
        /\ gone' = [k \in (DOMAIN gone \cup Ids(provider)) \ Ids(ks) |-> IF k \in Ids(provider) THEN clock ELSE gone[k]]
  BY DEF Rotate
<1>3. /\ clock \in Nat /\ History(clock, provider, since, gone) /\ Cached(jwks, clock, since, gone)
      /\ jwks \in JWKSRecord /\ left \in LeftRecord
  BY DEF CredInv, CredTypes
<1>4. CredTypes'
  <2>1. left' \in LeftRecord
    BY <1>1, <1>3 DEF LeftRecord
  <2> QED BY <1>1, <1>2, <2>1 DEF CredInv, CredTypes, Published
<1>5. Later(clock, since, since', gone, gone')
  <2>1. \A kid \in DOMAIN since' : since'[kid] = clock \/ (kid \in DOMAIN since /\ since'[kid] = since[kid])
    BY <1>2, <1>3 DEF History
  <2>2. \A k \in DOMAIN gone' : gone'[k] = clock \/ (k \in DOMAIN gone /\ gone'[k] = gone[k])
    BY <1>2
  <2> QED BY <2>1, <2>2 DEF Later
<1>6. History(clock, provider, since, gone)'
  <2>1. DOMAIN since' = DOMAIN provider'
    BY <1>2
  <2>2. \A kid \in DOMAIN since' : since'[kid] \in Nat
    BY <1>3, <1>5 DEF History, Later
  <2>3. \A k \in DOMAIN gone' : gone'[k] \in Nat
    BY <1>3, <1>5 DEF History, Later
  <2>4. \A k \in DOMAIN gone' : k \notin Ids(provider')
    BY <1>2
  <2> QED BY <2>1, <2>2, <2>3, <2>4 DEF History, Ids
<1>7. \A kid \in DOMAIN since' : since'[kid] \in Nat
  BY <1>6 DEF History
<1>8. \A k \in DOMAIN gone' : gone'[k] \in Nat
  BY <1>6 DEF History
<1>9. Cached(jwks, clock, since', gone')
  <2>1. jwks.exp \in Nat /\ jwks.last \in Nat /\ jwks.exp <= clock + TTL /\ jwks.last <= clock
    BY <1>3 DEF JWKSRecord, Cached
  <2>2. ASSUME NEW kid \in DOMAIN jwks.keys, jwks.keys[kid].id \in DOMAIN gone'
        PROVE  jwks.exp <= gone'[jwks.keys[kid].id] + TTL + Timeout
    <3> DEFINE k == jwks.keys[kid].id
    <3>1. CASE gone'[k] = clock
      BY <1>3, <2>1, <3>1, CredNumbers
    <3>2. CASE k \in DOMAIN gone /\ gone'[k] = gone[k]
      BY <1>3, <3>2 DEF Cached
    <3> QED BY <1>5, <2>2, <3>1, <3>2 DEF Later
  <2>3. ASSUME ~jwks.failed, jwks.exp > 0, NEW kid \in DOMAIN since' \ DOMAIN jwks.keys
        PROVE  jwks.last <= since'[kid] + Timeout
    <3>1. CASE since'[kid] = clock
      BY <1>3, <2>1, <3>1, CredNumbers
    <3>2. CASE kid \in DOMAIN since /\ since'[kid] = since[kid]
      BY <1>3, <2>3, <3>2 DEF Cached
    <3> QED BY <1>5, <2>3, <3>1, <3>2 DEF Later
  <2> QED BY <2>1, <2>2, <2>3 DEF Cached
<1>10. ASSUME NEW c \in Calls PROVE Fine(asking[c], clock, oidc, since', gone')
  <2> DEFINE q == asking[c]
  <2>1. q \in AskRecord /\ Fine(q, clock, oidc, since, gone) /\ q.begun \in Nat /\ q.at \in Nat
    BY DEF CredInv, CredTypes, AskRecord
  <2> HIDE DEF q
  <2>2. InTime(q, clock) /\ q.begun <= clock /\ q.at <= clock
    BY <2>1 DEF Fine, InTime
  <2>3. ASSUME Current(q.found, q.begun, since, gone) PROVE Current(q.found, q.begun, since', gone')
    <3>1. \A kid \in DOMAIN q.found : q.found[kid].id \in DOMAIN gone' => q.begun <= gone'[q.found[kid].id]
      BY <1>5, <2>2, <2>3 DEF Current, Later
    <3>2. \A kid \in DOMAIN since' \ DOMAIN q.found : q.begun <= since'[kid]
      BY <1>5, <2>2, <2>3 DEF Current, Later
    <3> QED BY <3>1, <3>2 DEF Current
  <2>4. ASSUME Justified(q.token, q.answer, q.at, oidc, since, gone)
        PROVE  Justified(q.token, q.answer, q.at, oidc, since', gone')
    <3> DEFINE k == q.token.key  kid == q.token.kid
    <3>1. ASSUME oidc = "jwks", q.token.alg \in {"RS", "ES"}, q.answer = "accepted", k \in DOMAIN gone'
          PROVE  q.at < gone'[k] + TTL + Timeout
      <4>1. CASE gone'[k] = clock
        BY <1>3, <2>1, <2>2, <4>1, CredNumbers
      <4>2. CASE k \in DOMAIN gone /\ gone'[k] = gone[k]
        BY <2>4, <3>1, <4>2 DEF Justified
      <4> QED BY <1>5, <3>1, <4>1, <4>2 DEF Later
    <3>2. ASSUME oidc = "jwks", q.token.alg \in {"RS", "ES"}, q.answer = "no key", kid \in DOMAIN since'
          PROVE  q.at < since'[kid] + MinRefresh + Timeout
      <4>1. CASE since'[kid] = clock
        BY <1>3, <2>1, <2>2, <4>1, CredNumbers
      <4>2. CASE kid \in DOMAIN since /\ since'[kid] = since[kid]
        BY <2>4, <3>2, <4>2 DEF Justified
      <4> QED BY <1>5, <3>2, <4>1, <4>2 DEF Later
    <3> QED BY <3>1, <3>2, Zenon DEF Justified
  <2>5. Right(q, oidc, since', gone')
    BY <2>1, <2>4 DEF Fine, Right
  <2> QED BY <2>1, <2>2, <2>3, <2>5 DEF Fine, q
<1> QED BY <1>1, <1>4, <1>6, <1>9, <1>10 DEF CredInv

LEMMA PassTimeKeeps == ASSUME CredInv, PassTime PROVE CredInv'
<1>1. UNCHANGED <<provider, since, gone, oidc, jwks, app, asking, left>> /\ clock' = clock + 1
  BY DEF PassTime
<1>2. clock \in Nat /\ jwks.exp \in Nat /\ jwks.last \in Nat /\ Cached(jwks, clock, since, gone)
  BY DEF CredInv, CredTypes, JWKSRecord
<1>3. CredTypes' /\ History(clock, provider, since, gone)'
  BY <1>1 DEF CredInv, CredTypes, History, Ids
<1>4. Cached(jwks, clock', since, gone)
  <2>1. jwks.exp <= clock' + TTL /\ jwks.last <= clock'
    BY <1>1, <1>2, CredNumbers DEF Cached
  <2> QED BY <1>2, <2>1, Zenon DEF Cached
<1>5. ASSUME NEW c \in Calls PROVE Fine(asking[c], clock', oidc, since, gone)
  <2> DEFINE q == asking[c]
  <2>1. q \in AskRecord /\ Fine(q, clock, oidc, since, gone) /\ q.begun \in Nat /\ q.at \in Nat
    BY DEF CredInv, CredTypes, AskRecord
  <2>2. InFlight(q) => clock < q.begun + Timeout
    BY DEF PassTime
  <2> HIDE DEF q
  <2>3. InTime(q, clock')
    <3>1. q.begun <= clock' /\ q.at <= clock'
      BY <1>1, <1>2, <2>1 DEF Fine, InTime
    <3>2. InFlight(q) => clock' <= q.begun + Timeout
      BY <1>1, <1>2, <2>1, <2>2, CredNumbers
    <3> QED BY <3>1, <3>2 DEF InTime
  <2> QED BY <2>1, <2>3 DEF Fine, q
<1> QED BY <1>1, <1>3, <1>4, <1>5 DEF CredInv

\* Every step of the callers, the provider and the clock keeps the invariant.
LEMMA CredInvNext == CredInv /\ [CredNext]_credVars => CredInv'
<1> SUFFICES ASSUME CredInv, [CredNext]_credVars PROVE CredInv' OBVIOUS
<1>1. CASE UNCHANGED credVars
  BY <1>1 DEF credVars, CredInv, CredTypes, History, Ids
<1>2. ASSUME NEW c \in Calls, AskCredential(c) \/ CallStep(c) \/ LockApp(c) \/ mint(c) PROVE CredInv'
  BY <1>2, AskKeeps, LookupKeeps, FetchKeeps, StoreKeeps, MintKeeps, LockKeeps, Zenon DEF CallStep
<1> QED BY <1>1, <1>2, RotateKeeps, PassTimeKeeps, Zenon DEF CredNext

\* The caches never hand out what is no longer valid: JWKS.Key honours a
\* withdrawn key for at most the life of the cache and one HTTP call, and turns
\* no kid away that has been published for longer than the refresh interval and
\* one HTTP call (jwks.go:93-137); GitHubApp.Token never returns a cached token
\* within the margin of its expiry, nor a new one unless minting it took nearly
\* its whole life, since nothing limits that call (githubapp.go:76-100).
THEOREM CachesStayFresh == CredSpec => []CredentialsAreFresh
<1>1. CredInit => CredInv
  BY CredInvInit
<1>2. CredInv /\ [CredNext]_credVars => CredInv'
  BY CredInvNext
<1>3. CredInv => CredentialsAreFresh
  <2> SUFFICES ASSUME CredInv, NEW c \in Calls
      PROVE  /\ ByKey(asking[c]) /\ ~asking[c].stale => Justified(asking[c].token, asking[c].answer, asking[c].at, oidc, since, gone)
             /\ (oidc = "jwks" /\ asking[c].token.alg \in {"RS", "ES"}) \/ ~ByKey(asking[c])
             /\ asking[c].pc = "answered" /\ asking[c].answer = "issued" => asking[c].until > asking[c].at + Margin
                                                                               \/ asking[c].at + Margin >= asking[c].begun + AppTTL
    BY Zenon DEF CredentialsAreFresh, KeysFollowProvider, TokensOutliveMargin, Justified
  <2> QED BY DEF CredInv, Fine, Right, ByKey, NeedsKey
<1> QED BY <1>1, <1>2, <1>3, PTL DEF CredSpec
=============================================================================
