------------------------------ MODULE Exchanger ------------------------------
(***************************************************************************)
(* The token exchanger of ExtProc: a cache of exchanged tokens per subject *)
(* and resource, a singleflight group in front of the broker, a circuit    *)
(* breaker around the call, the fallback to a token past its fresh window  *)
(* during an outage, and the client assertion that a background goroutine  *)
(* renews.                                                                 *)
(***************************************************************************)
EXTENDS Naturals, FiniteSets, FiniteSetsExt

CONSTANTS
  CacheKeys,        \* tokenCacheKey: subject token and resource
  Clients,          \* goroutines inside Exchange
  ExpiresIn,        \* values of expires_in that the broker reports
  MinExpiryMargin,  \* minExpiryMargin, in ticks
  ReAuthCooldown,   \* reAuthCooldownTTL
  DefaultTTL,
  MaxTTL,
  AssertionLife,    \* lifetime of a client assertion
  RefreshBefore,    \* remaining lifetime below which it is renewed
  MaxFailures,      \* consecutive failures that open the breaker
  ResetTimeout,
  BrokerErrors,     \* the failures of a call that an instance considers
  MaxClock          \* bound: ticks of the clock

\* 4xx, 4xx with error_uri, 429, 429 with error_uri, 5xx, no answer, an answer that cannot be used, and two local ones.
Errors == {"rejected", "reauth", "throttled", "throttled_reauth", "server_error", "network",
           "invalid_response", "assertion_expired", "circuit_open"}

ASSUME ExchangerAssumption ==
  /\ {MinExpiryMargin, ReAuthCooldown, DefaultTTL, MaxTTL, AssertionLife, RefreshBefore, MaxClock} \subseteq Nat
  /\ ExpiresIn \subseteq Nat /\ BrokerErrors \subseteq Errors \ {"assertion_expired", "circuit_open"} /\ {MaxFailures, ResetTimeout} \subseteq Nat \ {0}

VARIABLES
  clock,
  assertionExp,  \* assertionState.expiresAt, or Unbounded
  tokens,        \* the cache
  exchanges,     \* the running call of sfGroup, per key
  clients,       \* what each goroutine waits for
  breaker,
  rejections,    \* history: re-authentication answers of the broker, per key, modulo 3
  served         \* history: the cache entry the last step answered from

exchangerVars == <<clock, assertionExp, tokens, exchanges, clients, breaker, rejections, served>>

Unbounded == MaxClock + AssertionLife + 1
Unserved == [key |-> "none"]
NoToken == [kind |-> "none"]
\* cachedToken; issued, life and seen are history: when, for how long, and after how many rejections.
CachedToken == [kind : {"token"}, expires : Nat, stale : Nat, issued : Nat, life : Nat, seen : Nat]
CachedReAuth == [kind : {"reauth"}, expires : Nat]

NoExchange == [pc |-> "none", gen |-> 0, err |-> "none"]

isExpired(e) == clock > e.expires
isAssertionExpired == clock > assertionExp

(* Only infrastructure failures fall back to a token past its window. *)
isTransientBrokerError(err) == err \in {"throttled", "server_error", "network", "invalid_response", "circuit_open"}
HasRecovery(err) == err \in {"reauth", "throttled_reauth"}
(* What the breaker counts: a local error is no BrokerExchangeError. *)
isServerError(err) == err \in {"server_error", "network", "invalid_response", "assertion_expired"}

computeTTL(expiresIn) ==
  LET margin == Max({MinExpiryMargin, expiresIn \div 10})
      fresh == Max({IF expiresIn > margin THEN expiresIn - margin ELSE 0, expiresIn \div 2})
  IN  [fresh |-> Min({fresh, MaxTTL}), life |-> Min({expiresIn, MaxTTL})]
UnknownTTL == [fresh |-> Min({DefaultTTL, MaxTTL}), life |-> Min({DefaultTTL, MaxTTL})]

Cached(k, w) ==
  [kind |-> "token", expires |-> clock + w.fresh, stale |-> clock + Min({w.life + ReAuthCooldown, MaxTTL}),
   issued |-> clock, life |-> w.life, seen |-> rejections[k]]

(* The lookup of the fast path, repeated inside the flight. *)
Hit(k) == tokens[k].kind # "none" /\ ~isExpired(tokens[k]) /\ ~isAssertionExpired
Serve(k) == served' = IF tokens[k].kind = "token" THEN [key |-> k, token |-> tokens[k]] ELSE Unserved
ServeNothing == served' = Unserved

IdleClient == [key |-> "none", joined |-> FALSE]
Waiting(k) == {c \in Clients : clients[c] = [key |-> k, joined |-> TRUE]}

(* Exchange: a hit is answered at once (with a recorded rejection too); after a miss the read lock is given up. *)
Exchange(c, k) ==
  /\ clients[c] = IdleClient
  /\ IF Hit(k)
     THEN Serve(k) /\ UNCHANGED clients
     ELSE ServeNothing /\ clients' = [clients EXCEPT ![c] = [key |-> k, joined |-> FALSE]]
  /\ UNCHANGED <<clock, assertionExp, tokens, exchanges, breaker, rejections>>

(* DoChan: the caller joins or starts the flight of its key; the one it missed may have ended since. *)
DoChan(c) ==
  /\ clients[c] # IdleClient /\ ~clients[c].joined
  /\ clients' = [clients EXCEPT ![c].joined = TRUE]
  /\ exchanges' = [exchanges EXCEPT ![clients[c].key] = IF @ = NoExchange THEN [@ EXCEPT !.pc = "recheck"] ELSE @]
  /\ ServeNothing /\ UNCHANGED <<clock, assertionExp, tokens, breaker, rejections>>

(* singleflight hands the result to everyone who waits; awaitResult lets a canceled caller go. *)
EndFlight(k) ==
  /\ exchanges' = [exchanges EXCEPT ![k] = NoExchange]
  /\ clients' = [c \in Clients |-> IF c \in Waiting(k) THEN IdleClient ELSE clients[c]]

awaitResult(c) ==
  /\ clients[c].joined /\ clients' = [clients EXCEPT ![c] = IdleClient]
  /\ ServeNothing /\ UNCHANGED <<clock, assertionExp, tokens, exchanges, breaker, rejections>>

(* gobreaker, with MaxRequests 1: an open circuit turns half-open when its timeout has passed. *)
Circuit == IF breaker.state = "open" /\ clock >= breaker.until THEN "half" ELSE breaker.state
Generation == IF Circuit = breaker.state THEN breaker.gen ELSE (breaker.gen + 1) % 4
MaxRequests == 1
Probes == Cardinality({k \in CacheKeys : exchanges[k].pc = "calling" /\ exchanges[k].gen = Generation})
Admits == Circuit \in {"closed", "disabled"} \/ (Circuit = "half" /\ Probes < MaxRequests)
Entered == [breaker EXCEPT !.state = Circuit, !.gen = Generation, !.failures = IF Circuit = "half" THEN 0 ELSE @]
Trips(n) == n >= MaxFailures
afterRequest(k, failed) ==
  IF Circuit = "disabled" THEN breaker
  ELSE IF exchanges[k].gen # Generation THEN Entered
  ELSE IF ~failed THEN [Entered EXCEPT !.state = "closed", !.failures = 0, !.gen = IF Circuit = "half" THEN (@ + 1) % 4 ELSE @]
  ELSE IF Circuit = "half" \/ Trips(breaker.failures + 1)
       THEN [state |-> "open", failures |-> 0, gen |-> (Generation + 1) % 4, until |-> clock + ResetTimeout]
       ELSE [Entered EXCEPT !.failures = @ + 1]

(* The re-check inside the flight, then Execute: the breaker admits the call or refuses it. *)
Recheck(k) ==
  /\ exchanges[k].pc = "recheck"
  /\ IF Hit(k) THEN Serve(k) /\ EndFlight(k) /\ UNCHANGED breaker
     ELSE /\ ServeNothing /\ breaker' = Entered /\ UNCHANGED clients
          /\ exchanges' = [exchanges EXCEPT ![k] = IF Admits THEN [pc |-> "calling", gen |-> Generation, err |-> "none"]
                                                   ELSE [pc |-> "failing", gen |-> 0, err |-> "circuit_open"]]
  /\ UNCHANGED <<clock, assertionExp, tokens, rejections>>

(* doExchangeAndCache: the assertion is read before the request is sent, and the broker may answer anything. *)
Issue(k, w) ==
  /\ tokens' = [tokens EXCEPT ![k] = IF w.life = 0 THEN NoToken ELSE Cached(k, w)]
  /\ breaker' = afterRequest(k, FALSE) /\ EndFlight(k) /\ UNCHANGED rejections

\* Mutant: the answer to re-authenticate is passed on and not recorded.
ReAuthEntry_Unrecorded(k, err) == tokens[k]
ReAuthEntry(k, err) == IF HasRecovery(err) THEN [kind |-> "reauth", expires |-> clock + ReAuthCooldown] ELSE tokens[k]
Failed(k, err) ==
  /\ tokens' = [tokens EXCEPT ![k] = ReAuthEntry(k, err)]
  /\ breaker' = afterRequest(k, isServerError(err))
  /\ rejections' = [rejections EXCEPT ![k] = IF HasRecovery(err) THEN (@ + 1) % 3 ELSE @]
  /\ exchanges' = [exchanges EXCEPT ![k] = [pc |-> "failing", gen |-> 0, err |-> err]] /\ UNCHANGED clients

doExchange(k) ==
  /\ exchanges[k].pc = "calling"
  /\ IF isAssertionExpired THEN Failed(k, "assertion_expired")
     ELSE \/ \E e \in ExpiresIn : Issue(k, computeTTL(e))
          \/ Issue(k, UnknownTTL)
          \/ \E err \in BrokerErrors : Failed(k, err)
  /\ ServeNothing /\ UNCHANGED <<clock, assertionExp>>

StaleAllowed(k, err) ==
  /\ isTransientBrokerError(err) /\ ~isAssertionExpired
  /\ tokens[k].kind = "token" /\ clock < tokens[k].stale
serveStaleOrErr(k) ==
  /\ exchanges[k].pc = "failing"
  /\ IF StaleAllowed(k, exchanges[k].err) THEN Serve(k) ELSE ServeNothing
  /\ EndFlight(k)
  /\ UNCHANGED <<clock, assertionExp, tokens, breaker, rejections>>

(* The background goroutine: eviction, and renewal of the assertion, which may fail. *)
Evictable(e) == e.kind # "none" /\ isExpired(e) /\ (e.kind = "token" => e.stale < clock)
evictExpired ==
  /\ \E k \in CacheKeys : Evictable(tokens[k])
  /\ tokens' = [k \in CacheKeys |-> IF Evictable(tokens[k]) THEN NoToken ELSE tokens[k]]
  /\ ServeNothing /\ UNCHANGED <<clock, assertionExp, exchanges, clients, breaker, rejections>>

refreshClientAssertion == assertionExp' = clock + AssertionLife
maybeRefreshAssertion ==
  /\ assertionExp # Unbounded /\ assertionExp < clock + RefreshBefore
  /\ refreshClientAssertion
  /\ ServeNothing /\ UNCHANGED <<clock, tokens, exchanges, clients, breaker, rejections>>

ClockTick ==
  /\ clock < MaxClock /\ clock' = clock + 1
  /\ ServeNothing /\ UNCHANGED <<assertionExp, tokens, exchanges, clients, breaker, rejections>>

(* NewTokenExchanger obtains the first assertion before anything is served; a provider may report no expiry, and the *)
(* breaker may be configured off.                                                                                       *)
ExchangerInit ==
  /\ clock = 0 /\ assertionExp \in {AssertionLife, Unbounded}
  /\ tokens = [k \in CacheKeys |-> NoToken] /\ exchanges = [k \in CacheKeys |-> NoExchange]
  /\ clients = [c \in Clients |-> IdleClient]
  /\ breaker \in [state : {"closed", "disabled"}, failures : {0}, gen : {0}, until : {0}]
  /\ rejections = [k \in CacheKeys |-> 0] /\ served = Unserved

ExchangerNext ==
  \/ \E c \in Clients : DoChan(c) \/ awaitResult(c) \/ \E k \in CacheKeys : Exchange(c, k)
  \/ \E k \in CacheKeys : Recheck(k) \/ doExchange(k) \/ serveStaleOrErr(k)
  \/ evictExpired \/ maybeRefreshAssertion \/ ClockTick

(* Cache, flights, callers and breaker hold what their types allow, and everyone who waits has a flight to wait for. *)
ExchangerTypeInvariant ==
  /\ \A k \in CacheKeys : tokens[k] \in CachedToken \cup CachedReAuth \cup {NoToken}
  /\ \A k \in CacheKeys : Waiting(k) # {} => exchanges[k] # NoExchange
  /\ breaker.state \in {"closed", "open", "half", "disabled"} /\ breaker.failures < MaxFailures

(* A token is served from the cache no longer than its reported lifetime and the cooldown, and never longer than       *)
(* cache.max_ttl, however often the broker fails while it is being served: the window is fixed when the token arrives. *)
StaleWindowIsBounded ==
  served # Unserved => clock <= served.token.issued + Min({served.token.life + ReAuthCooldown, MaxTTL})

(* Once the broker has answered that the user must authenticate again, no token issued before that answer is served: *)
(* not by the fast path, not by the re-check of a flight, and not as a fallback for a failure that comes later.       *)
ReAuthOverridesToken == served # Unserved => served.token.seen = rejections[served.key]

(* Nothing is served from the cache once the client assertion has expired: the caller learns that the service cannot authenticate. *)
NothingServedUnauthenticated == served # Unserved => clock <= assertionExp

(* An open circuit lets no request through until its timeout, and a half-open one only a single probe, whichever keys the requests are for. *)
BreakerLimitsCalls ==
  breaker.state = "half" => Cardinality({k \in CacheKeys : exchanges[k].pc = "calling" /\ exchanges[k].gen = breaker.gen}) <= 1

(* Eviction never takes a token that the fallback could still serve: a step that empties an entry either learned of a *)
(* token that is not to be cached or finds the fallback's window closed.                                               *)
EvictionSparesFallback ==
  [][\A k \in CacheKeys : (tokens[k].kind = "token" /\ tokens'[k].kind = "none") =>
        exchanges'[k] # exchanges[k] \/ tokens[k].stale < clock]_exchangerVars

==============================================================================
