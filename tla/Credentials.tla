---------------------------- MODULE Credentials -----------------------------
(***************************************************************************)
(* The two credential caches of the daemon, which its goroutines share.      *)
(* JWKS holds the signing keys of the identity provider: a call whose key is  *)
(* missing, or that finds the cache expired, fetches the key set, one at a    *)
(* time and outside the mutex, while the others wait for it; OIDCAuth then    *)
(* judges the token.  GitHubApp holds one installation token and mints the    *)
(* next one under its mutex.  Fetching a key set takes at most Timeout, the   *)
(* limit of its HTTP client; minting has no limit at all.                     *)
(***************************************************************************)
EXTENDS Naturals, Sequences, FiniteSets, TLC

CONSTANTS Calls,        \* goroutines that ask for a credential
          Workloads,    \* [tokens, rotations, failures]: the tokens that are brought,
                        \* each [alg, kid, key, iss, aud, exp, name] or App, and bounds
          KeySets,      \* what the provider may publish: kid -> [id, kty, sound]
          FirstKeys,    \* what it publishes at first
          Environments, \* [issuer, url, discover, secret]: how OIDC is configured
          TTL, MinRefresh, Timeout,
          AppTTL, Margin,  \* life of an installation token, and the margin it is renewed by
          MaxTime

App    == [alg |-> "app"]  \* a git command that needs the installation token
Tokens == {App} \cup UNION {w.tokens : w \in Workloads}

ASSUME CredentialsAssumption ==
  /\ Workloads \subseteq [tokens : SUBSET Tokens, rotations : Nat, failures : Nat]
  /\ {TTL, MinRefresh, Timeout, Margin, AppTTL} \subseteq Nat
  /\ TTL > 0 /\ MinRefresh > 0 /\ AppTTL > Margin

VARIABLES clock,
          provider,  \* the key set published now
          since,     \* history: kid -> since when it has been published
          gone,      \* history: key -> when it was withdrawn, for keys that were
          oidc,      \* "jwks", "secret" or "disabled"
          jwks,      \* [keys, exp, last, refreshing], and failed: the last fetch was in vain
          app,       \* the installation token: [exp, holder]
          asking,    \* call -> [pc, token, begun, found, answer, at, stale, until]
          left       \* what is left of the workload's bounds

credVars == <<clock, provider, since, gone, oidc, jwks, app, asking, left>>

NoKeys   == <<>>
Quiet    == [pc |-> "idle", token |-> App, begun |-> 0, found |-> NoKeys, answer |-> "", at |-> 0,
             stale |-> FALSE, until |-> 0]

(***************************************************************************)
(* OIDC                                                                      *)
(***************************************************************************)
DiscoverJWKSURL(env) == env.discover
buildOIDCAuth(env) ==
  IF ~env.issuer THEN "disabled"
  ELSE IF env.url \/ DiscoverJWKSURL(env) THEN "jwks"
  ELSE IF env.secret THEN "secret" ELSE "disabled"

\* One key that cannot be used fails the whole set, and so does an empty one.
publicKey(k)  == k.sound /\ k.kty \in {"RS", "ES"}
parseJWKS(ks) == ks # NoKeys /\ \A kid \in DOMAIN ks : publicKey(ks[kid])

verifyAsymmetric(t, k) == t.alg = k.kty /\ t.key = k.id
validHMAC(t)           == oidc = "secret" /\ t.key = "shared secret"
\* The claims are read after the signature was checked.
claims(t)              == t.iss /\ t.aud /\ t.exp > clock
Identified(t)          == claims(t) /\ t.name # ""

NeedsKey(t) == oidc = "jwks" /\ t.alg \in {"RS", "ES"}

(***************************************************************************)
(* Calls                                                                     *)
(***************************************************************************)
CredInit ==
  /\ clock = 0 /\ provider = FirstKeys
  /\ since = [kid \in DOMAIN provider |-> 0] /\ gone = <<>>
  /\ \E env \in Environments : oidc = buildOIDCAuth(env)
  /\ jwks = [keys |-> NoKeys, exp |-> 0, last |-> 0, refreshing |-> FALSE, failed |-> FALSE]
  /\ app = [exp |-> 0, holder |-> "none"]
  /\ asking = [c \in Calls |-> Quiet]
  /\ left \in Workloads

Goes(q, p)     == [q EXCEPT !.pc = p]
Begins(q, p)   == [q EXCEPT !.pc = p, !.begun = clock]
Fetched(q, ks) == [q EXCEPT !.pc = "fetched", !.found = ks]
Answered(q, a, stale) == [q EXCEPT !.pc = "answered", !.answer = a, !.at = clock, !.stale = stale,
                                       !.found = NoKeys, !.begun = 0]
Issued(q, exp, begun) == [Answered(q, "issued", FALSE) EXCEPT !.until = exp, !.begun = begun]

\* ChainAuth: the bootstrap token first, then OIDC.
Presented(t) ==
  LET q == [Quiet EXCEPT !.token = t] IN
  CASE t = App            -> Goes(q, "locking")
    [] t.alg = "opaque"   -> Answered(q, IF t.name = "admin" THEN "accepted" ELSE "denied", FALSE)
    [] NeedsKey(t)        -> Goes(q, "lookup")
    [] t.alg = "HS"       -> Answered(q, IF validHMAC(t) /\ Identified(t) THEN "accepted" ELSE "denied", FALSE)
    [] OTHER              -> Answered(q, "denied", FALSE)

AskCredential(c) ==
  /\ asking[c].pc \in {"idle", "answered"}
  /\ \E t \in left.tokens : asking' = [asking EXCEPT ![c] = Presented(t)]
  /\ UNCHANGED <<clock, provider, since, gone, oidc, jwks, app, left>>

\* What Key returned, and the rest of OIDCAuth.Identify.
Judged(q, keys, stale) ==
  IF q.token.kid \notin DOMAIN keys THEN Answered(q, "no key", stale)
  ELSE Answered(q, IF verifyAsymmetric(q.token, keys[q.token.kid]) /\ Identified(q.token) THEN "accepted" ELSE "denied", stale)

\* JWKS.Key under the mutex, up to the fetch.
Lookup(c) ==
  LET q == asking[c]  valid == clock < jwks.exp IN
  /\ q.pc = "lookup"
  /\ \/ /\ valid /\ (q.token.kid \in DOMAIN jwks.keys \/ clock < jwks.last + MinRefresh)
        /\ asking' = [asking EXCEPT ![c] = Judged(q, jwks.keys, jwks.failed)]
        /\ UNCHANGED jwks
     \/ /\ ~(valid /\ (q.token.kid \in DOMAIN jwks.keys \/ clock < jwks.last + MinRefresh))
        /\ IF jwks.refreshing THEN asking' = [asking EXCEPT ![c] = Goes(q, "waiting")] /\ UNCHANGED jwks
           ELSE /\ asking' = [asking EXCEPT ![c] = Begins(q, "fetching")]
                /\ jwks' = [jwks EXCEPT !.refreshing = TRUE]
  /\ UNCHANGED <<clock, provider, since, gone, oidc, app, left>>

Failure == left.failures > 0 /\ left' = [left EXCEPT !.failures = @ - 1]

\* The provider answers, or the call fails.
fetchJWKS(c) ==
  /\ asking[c].pc = "fetching"
  /\ \/ /\ asking' = [asking EXCEPT ![c] = Fetched(@, IF parseJWKS(provider) THEN provider ELSE NoKeys)]
        /\ UNCHANGED left
     \/ Failure /\ asking' = [asking EXCEPT ![c] = Fetched(@, NoKeys)]
  /\ UNCHANGED <<clock, provider, since, gone, oidc, jwks, app>>

\* Everybody who waits looks again.
Woken(x) == [c \in Calls |-> IF x[c].pc = "waiting" THEN Goes(x[c], "lookup") ELSE x[c]]

\* Mutant of StoreKeys: keys are added to the ones known before.
StoreKeysMerging(c) ==
  LET q == asking[c] IN
  /\ q.pc = "fetched"
  /\ jwks' = [keys |-> q.found @@ jwks.keys, exp |-> IF q.found = NoKeys THEN jwks.exp ELSE clock + TTL, last |-> clock,
              refreshing |-> FALSE, failed |-> q.found = NoKeys]
  /\ asking' = Woken([asking EXCEPT ![c] = Judged(q, jwks'.keys, q.found = NoKeys)])
  /\ UNCHANGED <<clock, provider, since, gone, oidc, app, left>>

\* Mutant of StoreKeys: an error returns before the waiters are released.
StoreKeysStuck(c) ==
  LET q == asking[c]  ok == q.found # NoKeys IN
  /\ q.pc = "fetched"
  /\ IF ok THEN jwks' = [keys |-> q.found, exp |-> clock + TTL, last |-> clock, refreshing |-> FALSE, failed |-> FALSE]
     ELSE UNCHANGED jwks
  /\ asking' = IF ok THEN Woken([asking EXCEPT ![c] = Judged(q, q.found, FALSE)])
               ELSE [asking EXCEPT ![c] = Answered(q, "denied", TRUE)]
  /\ UNCHANGED <<clock, provider, since, gone, oidc, app, left>>

\* JWKS.Key after the fetch: a failed one leaves the keys and their expiry, and
\* this call, unlike those that wait, takes its key from them even so.
StoreKeys(c) ==
  LET q == asking[c]  ok == q.found # NoKeys
      keys == IF ok THEN q.found ELSE jwks.keys
  IN
  /\ q.pc = "fetched"
  /\ jwks' = [keys |-> keys, exp |-> IF ok THEN clock + TTL ELSE jwks.exp, last |-> clock,
              refreshing |-> FALSE, failed |-> ~ok]
  /\ asking' = Woken([asking EXCEPT ![c] = Judged(q, keys, ~ok)])
  /\ UNCHANGED <<clock, provider, since, gone, oidc, app, left>>

\* GitHubApp.Token: the cached token is judged and the next one minted under the mutex.
LockApp(c) ==
  /\ asking[c].pc = "locking" /\ app.holder = "none"
  /\ IF clock + Margin < app.exp
     THEN asking' = [asking EXCEPT ![c] = Issued(@, app.exp, clock)] /\ UNCHANGED app
     ELSE asking' = [asking EXCEPT ![c] = Begins(@, "minting")] /\ app' = [app EXCEPT !.holder = c]
  /\ UNCHANGED <<clock, provider, since, gone, oidc, jwks, left>>

\* GitHub answers after any time, or never: nothing limits the call.  It made the
\* token at some moment of it; one without an expiry is taken to live from now on.
mint(c) ==
  /\ asking[c].pc = "minting"
  /\ \/ /\ \E made \in asking[c].begun .. clock :
              /\ app' = [exp |-> made + AppTTL, holder |-> "none"]
              /\ asking' = [asking EXCEPT ![c] = Issued(@, made + AppTTL, @.begun)]
        /\ UNCHANGED left
     \/ /\ Failure
        /\ app' = [app EXCEPT !.holder = "none"]
        /\ asking' = [asking EXCEPT ![c] = Answered(@, "denied", FALSE)]
  /\ UNCHANGED <<clock, provider, since, gone, oidc, jwks>>

(***************************************************************************)
(* The provider and time                                                     *)
(***************************************************************************)
Ids(ks) == {ks[kid].id : kid \in DOMAIN ks}

Rotate ==
  /\ left.rotations > 0 /\ left' = [left EXCEPT !.rotations = @ - 1]
  /\ \E ks \in KeySets \ {provider} :
        /\ provider' = ks
        /\ since' = [kid \in DOMAIN ks |-> IF kid \in DOMAIN provider THEN since[kid] ELSE clock]
        /\ gone' = [k \in (DOMAIN gone \cup Ids(provider)) \ Ids(ks) |-> IF k \in Ids(provider) THEN clock ELSE gone[k]]
  /\ UNCHANGED <<clock, oidc, jwks, app, asking>>

InFlight(q) == q.pc \in {"fetching", "fetched"}

PassTime ==
  /\ clock < MaxTime
  /\ \A c \in Calls : InFlight(asking[c]) => clock < asking[c].begun + Timeout
  /\ clock' = clock + 1
  /\ UNCHANGED <<provider, since, gone, oidc, jwks, app, asking, left>>

CallStep(c) == Lookup(c) \/ fetchJWKS(c) \/ StoreKeys(c)

CredNext == (\E c \in Calls : AskCredential(c) \/ CallStep(c) \/ LockApp(c) \/ mint(c)) \/ Rotate \/ PassTime

\* Goroutines run on, fetching a key set times out, and sync.Mutex starves nobody;
\* minting need never end.
CredFairness == \A c \in Calls : WF_credVars(CallStep(c)) /\ SF_credVars(LockApp(c))

CredSpec == CredInit /\ [][CredNext]_credVars /\ CredFairness

(***************************************************************************)
(* Properties                                                                *)
(***************************************************************************)
ByKey(q) == q.pc = "answered" /\ NeedsKey(q.token)

\* A key the provider withdrew is honoured for at most the life of the cache and
\* one HTTP call, and a kid it has published for longer than the refresh interval
\* and one HTTP call is not turned away, except after a fetch that failed: then
\* the keys known before stand in (JWKS.Key, jwks.go:93-137).
KeysFollowProvider ==
  \A c \in Calls : LET q == asking[c] IN
    ByKey(q) /\ ~q.stale =>
      /\ q.answer = "accepted" /\ q.token.key \in DOMAIN gone => q.at < gone[q.token.key] + TTL + Timeout
      /\ q.answer = "no key" /\ q.token.kid \in DOMAIN since => q.at < since[q.token.kid] + MinRefresh + Timeout

\* No git command is given an installation token that is about to expire, whoever
\* minted it and however long the command queued for the mutex (githubapp.go:88),
\* unless it minted the token itself and that took nearly the token's whole life.
TokensOutliveMargin ==
  \A c \in Calls : LET q == asking[c] IN
    q.pc = "answered" /\ q.answer = "issued" => q.until > q.at + Margin \/ q.at + Margin >= q.begun + AppTTL

\* Both caches hand out what is still valid.
CredentialsAreFresh == KeysFollowProvider /\ TokensOutliveMargin

Settled(c) == asking[c].pc \in {"idle", "answered"}

\* Whoever brings a token to be judged is answered: neither a failed fetch nor a
\* mint that hangs leaves it waiting (JWKS.Key's done channel and its own mutex),
\* unless the provider goes on publishing key sets that cannot be read: then calls
\* that come later may overtake one that waits for ever.  A git command is answered
\* as long as no mint hangs: one that fails gives Token's mutex back.
EveryCallAnswered ==
  /\ \A c \in Calls : []<>(Settled(c) \/ asking[c].token = App \/ ~parseJWKS(provider))
  /\ (\A d \in Calls : []<>(asking[d].pc # "minting")) => \A c \in Calls : []<>(Settled(c) \/ asking[c].token # App)

\* What the code does not give, and no run checks: http.DefaultClient has no timeout
\* (githubapp.go:76), main.go:484 sets no other and the watcher's context has no
\* deadline, so that a mint GitHub never answers holds up every git command.
EveryCommandAnswered == \A c \in Calls : []<>(Settled(c) \/ asking[c].token # App)
=============================================================================
