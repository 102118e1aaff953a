------------------------- MODULE ClientAssertions -------------------------
(***************************************************************************)
(* How the broker authenticates a client by a signed assertion             *)
(* (private_key_jwt): the client's key set is cached and fetched again     *)
(* when it is old or when an assertion names a key that is not in it; the  *)
(* assertion's claims are checked against the clock; and its jti is spent  *)
(* in a store that forgets expired ones.  One client, whose key set is     *)
(* published at its jwks_uri and may change at any time.                   *)
(***************************************************************************)
EXTENDS Naturals, FiniteSets

CONSTANTS
  Verifications,  \* goroutines in Verify
  KIDs,           \* keys of the client
  Assertions,     \* signed assertions: [kid, jti, exp]
  Nothing,
  KeySetTTL,      \* KeySetCacheTTL
  MinRefetch,     \* KeySetMinRefetchInterval
  FetchTime,      \* timeout of a fetch
  Skew,           \* ClockSkew
  MaxLifetime     \* MaxAssertionLifetime

ASSUME AssertionTimes == Skew \in Nat /\ \A a \in Assertions : a.exp \in Nat

VARIABLES
  time,
  published,   \* the key set at the jwks_uri
  withdrawn,   \* when a key was last taken out of it, or Nothing
  keyEntry,    \* the cache entry of the client, or Nothing
  fetching,    \* the flight of fetch, or Nothing
  refreshing,  \* the flight of refresh, or Nothing
  verify,      \* the verifications
  replays,     \* consumed jtis with their expiry
  spent,       \* history: when each assertion was accepted last, and how often (up to 2)
  lastRefetch, \* history: when an unknown kid last made the broker fetch
  allowance    \* bounds: the assertions offered; calls, changes of the key set, evictions and ticks to come

assertionVars == <<time, published, withdrawn, keyEntry, fetching, refreshing, verify, replays, spent,
                   lastRefetch, allowance>>
keySource == <<published, withdrawn>>
keyCache == <<keyEntry, fetching, refreshing, lastRefetch>>
spending == <<replays, spent>>
Spend(bound) == allowance[bound] > 0 /\ allowance' = [allowance EXCEPT ![bound] = @ - 1]

Verification == [pc : {"none", "keys", "joining", "fetching", "refresh", "rejoining", "refreshing", "lookup", "claims",
                       "consume", "accepted", "rejected", "unavailable"},
                 assertion : Assertions \cup {Nothing}, keys : SUBSET KIDs, again : BOOLEAN]
NoVerification == [pc |-> "none", assertion |-> Nothing, keys |-> {}, again |-> FALSE]
Over == {"none", "accepted", "rejected", "unavailable"}

At(v, pc) == verify[v].pc = pc
Step(v, pc) == verify' = [verify EXCEPT ![v].pc = pc]
Conclude(v, pc) == verify' = [verify EXCEPT ![v] = [NoVerification EXCEPT !.pc = pc]]

(* Verify gets an assertion whose type, algorithm and header are in order. *)
Verify(v) ==
  /\ Spend("calls")
  /\ verify[v].pc \in Over
  /\ \E a \in allowance.offered : verify' = [verify EXCEPT ![v] = [NoVerification EXCEPT !.pc = "keys", !.assertion = a]]
  /\ UNCHANGED <<time, keySource, keyCache, spending>>
(* One with a foreign type, algorithm, or no kid is rejected at once.      *)
Malformed(v) ==
  /\ Spend("calls")
  /\ verify[v].pc = "none" /\ Conclude(v, "rejected")
  /\ UNCHANGED <<time, keySource, keyCache, spending>>

(* ------------------------------ key sets ------------------------------- *)

UpToDate(entry) == entry # Nothing /\ time - entry.fetchedAt < KeySetTTL

(* With a set of keys in hand Verify looks up the kid; when it is missing  *)
(* it asks RefreshForKID, which reads the cache again before it refreshes. *)
WithKeys(call, keys) ==
  [call EXCEPT !.keys = keys,
               !.pc = IF call.assertion.kid \in keys THEN "lookup"
                      ELSE IF call.again THEN "rejoining" ELSE "refresh"]

KeysFor(v) ==
  /\ verify[v].pc \in {"keys", "refresh"}
  /\ verify' = [verify EXCEPT ![v] =
       LET call == [@ EXCEPT !.again = At(v, "refresh")]
       IN  IF UpToDate(keyEntry) THEN WithKeys(call, keyEntry.keys) ELSE [call EXCEPT !.pc = "joining"]]
  /\ UNCHANGED <<allowance, time, keySource, keyCache, spending>>

Flight == [stage : {"checking", "requested"}, keys : SUBSET KIDs, since : Nat]
NewFlight(keys) == [stage |-> "checking", keys |-> keys, since |-> time]

\* The fetch runs once for all who wait.
JoinFetch(v) ==
  /\ At(v, "joining") /\ Step(v, "fetching")
  /\ fetching' = IF fetching = Nothing THEN NewFlight({}) ELSE fetching
  /\ UNCHANGED <<allowance, time, keySource, keyEntry, refreshing, lastRefetch, spending>>
\* So does the refresh; its first caller's keys answer when there is no entry.
JoinRefresh(v) ==
  /\ At(v, "rejoining") /\ Step(v, "refreshing")
  /\ refreshing' = IF refreshing = Nothing THEN NewFlight(verify[v].keys) ELSE refreshing
  /\ UNCHANGED <<allowance, time, keySource, keyEntry, fetching, lastRefetch, spending>>

Fetched(keys) ==
  verify' = [v \in Verifications |-> IF At(v, "fetching") THEN WithKeys(verify[v], keys) ELSE verify[v]]
Refreshed(keys) ==
  verify' = [v \in Verifications |-> IF At(v, "refreshing") THEN [verify[v] EXCEPT !.keys = keys, !.pc = "lookup"]
                                     ELSE verify[v]]
Unavailable(pc) ==
  verify' = [v \in Verifications |-> IF At(v, pc) THEN [NoVerification EXCEPT !.pc = "unavailable"] ELSE verify[v]]

\* The flight looks at the cache again before it asks the client.
FetchBegins ==
  /\ fetching # Nothing /\ fetching.stage = "checking"
  /\ IF UpToDate(keyEntry) THEN fetching' = Nothing /\ Fetched(keyEntry.keys)
     ELSE fetching' = [stage |-> "requested", keys |-> published, since |-> time] /\ UNCHANGED verify
  /\ UNCHANGED <<allowance, time, keySource, keyEntry, refreshing, lastRefetch, spending>>

(* The entry is replaced; when it was there its lastRefetchAt stays.       *)
StoreCacheEntry(keys, last) ==
  [keys |-> keys, fetchedAt |-> time, lastRefetchAt |-> IF keyEntry = Nothing THEN last ELSE keyEntry.lastRefetchAt]

FetchFails == Unavailable("fetching")
FetchEnds ==
  /\ fetching # Nothing /\ fetching.stage = "requested" /\ fetching' = Nothing
  /\ \/ keyEntry' = StoreCacheEntry(fetching.keys, time) /\ Fetched(fetching.keys)
     \/ FetchFails /\ UNCHANGED keyEntry
  /\ UNCHANGED <<allowance, time, keySource, refreshing, lastRefetch, spending>>

TooSoon == time - keyEntry.lastRefetchAt < MinRefetch
MarkRefetch == [keyEntry EXCEPT !.lastRefetchAt = time]
(* RefreshForKID: no entry, or one refetched of late, answers; else the    *)
(* refetch is entered before the client is asked.                          *)
RefreshBegins ==
  /\ refreshing # Nothing /\ refreshing.stage = "checking"
  /\ IF keyEntry = Nothing \/ TooSoon
     THEN /\ refreshing' = Nothing /\ Refreshed(IF keyEntry = Nothing THEN refreshing.keys ELSE keyEntry.keys)
          /\ UNCHANGED <<keyEntry, lastRefetch>>
     ELSE /\ refreshing' = [stage |-> "requested", keys |-> published, since |-> time]
          /\ keyEntry' = MarkRefetch /\ lastRefetch' = time /\ UNCHANGED verify
  /\ UNCHANGED <<allowance, time, keySource, fetching, spending>>
RefreshEnds ==
  /\ refreshing # Nothing /\ refreshing.stage = "requested" /\ refreshing' = Nothing
  /\ \/ keyEntry' = StoreCacheEntry(refreshing.keys, refreshing.since) /\ Refreshed(refreshing.keys)
     \/ Unavailable("refreshing") /\ UNCHANGED keyEntry
  /\ UNCHANGED <<allowance, time, keySource, fetching, lastRefetch, spending>>

(* Entries of other clients push this one out of a full cache.             *)
EvictEntry ==
  /\ Spend("evictions")
  /\ keyEntry # Nothing /\ keyEntry' = Nothing
  /\ UNCHANGED <<time, keySource, fetching, refreshing, lastRefetch, verify, spending>>

(* ------------------------------- claims -------------------------------- *)

(* An eligible key of the set verifies the signature, or not.              *)
LookupKeyID(v) ==
  /\ At(v, "lookup")
  /\ IF verify[v].assertion.kid \in verify[v].keys THEN Step(v, "claims") ELSE Conclude(v, "rejected")
  /\ UNCHANGED <<allowance, time, keySource, keyCache, spending>>

InTime(a) == a.exp + Skew >= time /\ a.exp <= time + MaxLifetime + Skew
(* validateClaims: issuer, subject, audience and jti hold or not; the      *)
(* expiry must be neither past nor too far ahead.                          *)
ValidateClaims(v) ==
  /\ At(v, "claims")
  /\ \/ InTime(verify[v].assertion) /\ verify' = [verify EXCEPT ![v].pc = "consume", ![v].keys = {}, ![v].again = FALSE]
     \/ Conclude(v, "rejected")
  /\ UNCHANGED <<allowance, time, keySource, keyCache, spending>>

\* Mutant: the record is kept to the expiry, without the skew.
Consumed_Unskewed(a) == [jti |-> a.jti, expires |-> a.exp]
Consumed(a) == [jti |-> a.jti, expires |-> a.exp + Skew]
(* Consume inserts the jti unless it is there; an error leaves it open     *)
(* whether it was inserted.                                                *)
Consume(v) ==
  LET a == verify[v].assertion
      known == \E r \in replays : r.jti = a.jti
  IN  /\ At(v, "consume")
      /\ \/ known /\ Conclude(v, "rejected") /\ UNCHANGED spending
         \/ /\ ~known /\ Conclude(v, "accepted") /\ replays' = replays \cup {Consumed(a)}
            /\ spent' = [spent EXCEPT ![a] = [at |-> time, times |-> IF @.times < 2 THEN @.times + 1 ELSE 2]]
         \/ /\ Conclude(v, "unavailable") /\ UNCHANGED spent
            /\ replays' \in {replays, replays \cup (IF known THEN {} ELSE {Consumed(a)})}
      /\ UNCHANGED <<allowance, time, keySource, keyCache>>

(* The minutely sweep.                                                     *)
DeleteExpired ==
  /\ replays' = {r \in replays : r.expires >= time} /\ replays' # replays
  /\ UNCHANGED <<allowance, time, keySource, keyCache, verify, spent>>

(* ---------------------------- surroundings ----------------------------- *)

InTimeout(flight) == IF flight = Nothing THEN TRUE ELSE time < flight.since + FetchTime
Elapse ==
  /\ Spend("ticks")
  /\ InTimeout(fetching) /\ InTimeout(refreshing)
  /\ time' = time + 1
  /\ UNCHANGED <<keySource, keyCache, verify, spending>>

\* The client takes a key out of its set, or publishes one.
Rotate ==
  /\ Spend("changes")
  /\ \E k \in KIDs :
       \/ k \in published /\ published' = published \ {k} /\ withdrawn' = [withdrawn EXCEPT ![k] = time]
       \/ k \notin published /\ withdrawn[k] = Nothing /\ published' = published \cup {k} /\ UNCHANGED withdrawn
  /\ UNCHANGED <<time, keyCache, verify, spending>>

AssertionInit(keys, entry, bounds) ==
  /\ allowance = bounds
  /\ time = 0 /\ published = keys /\ withdrawn = [k \in KIDs |-> Nothing]
  /\ keyEntry = entry /\ fetching = Nothing /\ refreshing = Nothing /\ lastRefetch = Nothing
  /\ verify = [v \in Verifications |-> NoVerification]
  /\ replays = {} /\ spent = [a \in Assertions |-> [at |-> 0, times |-> 0]]
VerificationStep(v) ==
  \/ Verify(v) \/ Malformed(v) \/ KeysFor(v) \/ JoinFetch(v) \/ JoinRefresh(v)
  \/ LookupKeyID(v) \/ ValidateClaims(v) \/ Consume(v)
AssertionNext ==
  \/ \E v \in Verifications : VerificationStep(v)
  \/ FetchBegins \/ FetchEnds \/ RefreshBegins \/ RefreshEnds \/ EvictEntry
  \/ DeleteExpired \/ Elapse \/ Rotate
AssertionSpec(keys, entry, bounds) == AssertionInit(keys, entry, bounds) /\ [][AssertionNext]_assertionVars

(* ------------------------------ properties ----------------------------- *)

\* Calls and flights have their types; who waits for a flight has one to wait for.
AssertionTypeInvariant ==
  /\ verify \in [Verifications -> Verification]
  /\ {fetching, refreshing} \subseteq Flight \cup {Nothing}
  /\ (\E v \in Verifications : At(v, "fetching")) <=> fetching # Nothing
  /\ (\E v \in Verifications : At(v, "refreshing")) <=> refreshing # Nothing

(* An assertion is accepted once.  Only a verification that was held up    *)
(* between the check of the expiry and the spending until the expiry and   *)
(* the skew had passed can accept it again, after the sweep forgot it.     *)
SpentOnce == \A a \in Assertions : spent[a].times > 1 => spent[a].at > a.exp + Skew

(* Assertions that name unknown keys make the broker fetch a client's key  *)
(* set at most once per MinRefetch, also when fetches fail and entries are *)
(* evicted.                                                                *)
RefetchIsLimited ==
  [][lastRefetch' # lastRefetch => lastRefetch = Nothing \/ lastRefetch' >= lastRefetch + MinRefetch]_assertionVars

(* A verification gets no key the client has withdrawn for longer than the *)
(* time to live of a cached set and the fetch that brought it: an old set  *)
(* does not stand in for a fetch that fails.                               *)
WithdrawnKeyFades ==
  [][\A v \in Verifications : \A k \in verify'[v].keys \ verify[v].keys :
       k \in published \/ time < withdrawn[k] + KeySetTTL + FetchTime]_assertionVars
=============================================================================
