------------------------------ MODULE JWKSCache ------------------------------
(***************************************************************************)
(* The published key set of one replica: BuildJWKS of the token-signing    *)
(* keys, and PublicJWKSet of the CIMD client keys, which shares its        *)
(* protocol.  A request reads the version of the key set, uses the cached  *)
(* set of that version or joins the rebuild of the cache's generation.     *)
(* Keys are created, promoted and removed by this replica, which then      *)
(* invalidates its cache, and by others, which do not.  A rebuild that     *)
(* stores the public half of a legacy key changes the version itself, and  *)
(* so does a change in the other key domain: both share one version.       *)
(***************************************************************************)
EXTENDS Naturals, Sequences, FiniteSets

CONSTANTS
  KIDs,
  Breakable,  \* keys whose stored public JWK may turn out unusable
  Legacy,     \* keys that may come without a stored public JWK
  Requests,   \* goroutines inside BuildJWKS
  Nil,
  MaxVersion, \* bound: changes of the key set
  MaxExpiry   \* bound: how often the cached set expires or a key is activated

VARIABLES
  past,        \* the key set at each version; past[v + 1] is that of version v
  cache,       \* jwksSet, its freshness, jwksVersion, jwksGeneration
  flight,      \* the rebuild of each generation, or Nil
  request,
  invalidations, \* local changes that have not yet invalidated the cache
  ticks,         \* expiries and activations so far
  strict,        \* PublicJWKSet, which fails on a broken key where BuildJWKS skips it
  broken         \* keys whose stored public JWK cannot be used

vars == <<past, cache, flight, request, invalidations, ticks, strict, broken>>

MaxGeneration == 2 * MaxVersion
Generations == 0..MaxGeneration

(* The active keys, those without a stored public JWK, the one that signs, *)
(* and all that have signed while this was the version.                    *)
KeySet == [keys : SUBSET KIDs, legacy : SUBSET KIDs, signing : KIDs, signers : SUBSET KIDs]
Sets == (SUBSET KIDs) \cup {Nil}
KeySetVersion == Len(past) - 1
Latest == past[Len(past)]

Outcome == [set : Sets, err : {"none", "invalidated", "failed"}]
Failed == [set |-> Nil, err |-> "failed"]
Invalidated == [set |-> Nil, err |-> "invalidated"]
Built(set) == [set |-> set, err |-> "none"]
Cache == [set : Sets, fresh : BOOLEAN, version : 0..MaxVersion, generation : Generations]
Flight == [pc : {"list", "backfill", "check", "store", "done"}, version : 0..MaxVersion,
           listed : 0..MaxVersion, legacy : SUBSET KIDs, set : SUBSET KIDs, outcome : Outcome]
Request == [pc : {"idle", "again", "read", "waiting", "delivered", "done"}, since : 0..MaxVersion,
            version : 0..MaxVersion, generation : Generations, outcome : Outcome]

(* ------------------------------- BuildJWKS ----------------------------- *)

Rebuild(pc, v, o) == [pc |-> pc, version |-> v, listed |-> 0, legacy |-> {}, set |-> {}, outcome |-> o]

\* The request as it enters the loop, or returns: its locals are forgotten.
Fresh(pc, since, o) == [pc |-> pc, since |-> since, version |-> 0, generation |-> 0, outcome |-> o]
Answer(q, o) == Fresh("done", IF o = Failed THEN 0 ELSE q.since, o)
Retry(q) == Fresh("again", q.since, Failed)

(* Every turn of the loop begins with a look at the version; "since" is    *)
(* that of the first.                                                      *)
ReadVersion(r) ==
  LET q == request[r]
      v == KeySetVersion
  IN  /\ q.pc \in {"idle", "again"}
      /\ \/ request' = [request EXCEPT ![r] = [q EXCEPT !.pc = "read", !.version = v,
                                                !.since = IF q.pc = "idle" THEN v ELSE @]]
         \/ request' = [request EXCEPT ![r] = Answer(q, Failed)]
      /\ UNCHANGED <<past, cache, flight, invalidations, ticks>>

\* Mutant: a set is used whatever version it was built for.
Usable_AnyVersion(c, v) == c.set # Nil /\ c.fresh
Usable(c, v) == c.set # Nil /\ c.version = v /\ c.fresh

\* The cache as a request that read version v leaves it.
Adopt(c, v) ==
  IF c.version # v
  THEN [c EXCEPT !.generation = @ + 1, !.set = Nil, !.version = v]
  ELSE c

(* The section under jwksMu (the look under the read lock before it is a   *)
(* fast path to the same outcome): use the cache, or join the flight of    *)
(* its generation.                                                         *)
Lookup(r) ==
  LET q == request[r]
      c == Adopt(cache, q.version)
      g == c.generation
  IN  /\ q.pc = "read"
      /\ \/ /\ Usable(cache, q.version)
            /\ request' = [request EXCEPT ![r] = Answer(q, Built(cache.set))]
            /\ UNCHANGED <<cache, flight>>
         \/ /\ ~Usable(cache, q.version) /\ cache.version > q.version
            /\ request' = [request EXCEPT ![r] = Retry(q)]
            /\ UNCHANGED <<cache, flight>>
         \/ /\ ~Usable(cache, q.version) /\ cache.version <= q.version
            /\ cache' = c
            /\ flight' = IF flight[g] # Nil THEN flight
                         ELSE [flight EXCEPT ![g] = Rebuild("list", q.version, Failed)]
            /\ request' = [request EXCEPT ![r].pc = "waiting", ![r].generation = g]
      /\ UNCHANGED <<past, invalidations, ticks>>

(* ------------------------- rebuildJWKS, buildJWKS ---------------------- *)

At(g, pc) == flight[g] # Nil /\ flight[g].pc = pc

Finish(g, o) == flight' = [flight EXCEPT ![g] = Rebuild("done", 0, o)]

(* buildJWKS lists the active keys; the legacy ones among them are still   *)
(* to be derived and stored.                                               *)
ListKeys(g) ==
  /\ At(g, "list")
  /\ flight' = [flight EXCEPT ![g].pc = "backfill", ![g].listed = KeySetVersion, ![g].legacy = Latest.legacy,
                              ![g].set = (Latest.keys \ Latest.legacy) \ broken]
  /\ UNCHANGED <<past, cache, request, invalidations, ticks>>

Publish(g, k) == flight' = [flight EXCEPT ![g].legacy = @ \ {k}, ![g].set = @ \cup {k}]
\* The key is left out: PublicJWKSet fails, BuildJWKS goes on without it.
LeaveOut(g, k) == IF strict THEN Finish(g, Failed) ELSE flight' = [flight EXCEPT ![g].legacy = @ \ {k}]

(* publicJWKForSigningKey of one legacy key: derive the public JWK and     *)
(* store it, which the trigger on signing_keys counts as a change of the   *)
(* key set.                                                                *)
Backfill(g, k) ==
  /\ At(g, "backfill") /\ k \in flight[g].legacy
  /\ \/ k \in Latest.legacy /\ Len(past) <= MaxVersion            \* stored
        /\ past' = Append(past, [Latest EXCEPT !.legacy = @ \ {k}, !.signers = {Latest.signing}])
        /\ Publish(g, k)
     \/ k \in Latest.keys \ Latest.legacy /\ UNCHANGED past          \* another rebuild did
        /\ (Publish(g, k) \/ LeaveOut(g, k))                        \* or the read of it fails
     \/ UNCHANGED past /\ LeaveOut(g, k)                 \* not derived, or removed meanwhile
     \/ ~strict /\ UNCHANGED past /\ Publish(g, k)       \* not stored, published all the same
  /\ UNCHANGED <<cache, request, invalidations, ticks>>

(* The listed keys always include one that signs (EffectiveCurrent of the  *)
(* rows that were read), so an empty set fails as well.                    *)
BuildFails(f) ==
  LET rows == past[f.listed + 1]
  IN  IF strict THEN f.set = {} \/ rows.keys \cap broken # {} ELSE rows.signing \notin f.set

BuildDone(g) ==
  /\ At(g, "backfill") /\ flight[g].legacy = {}
  /\ IF BuildFails(flight[g]) THEN Finish(g, Failed) ELSE flight' = [flight EXCEPT ![g].pc = "check"]
  /\ UNCHANGED <<past, cache, request, invalidations, ticks>>

SameVersion(f) == KeySetVersion = f.version

(* rebuildJWKS reads the version a second time. *)
CheckVersion(g) ==
  /\ At(g, "check")
  /\ IF SameVersion(flight[g]) THEN flight' = [flight EXCEPT ![g].pc = "store"] ELSE Finish(g, Invalidated)
  /\ UNCHANGED <<past, cache, request, invalidations, ticks>>

OwnGeneration(g) == cache.generation = g

(* Under jwksMu: stored only in the generation it was built for. *)
StoreSet(g) ==
  /\ At(g, "store")
  /\ \/ /\ OwnGeneration(g)
        /\ cache' = [cache EXCEPT !.set = flight[g].set, !.fresh = TRUE]
        /\ Finish(g, Built(flight[g].set))
     \/ ~OwnGeneration(g) /\ Finish(g, Invalidated) /\ UNCHANGED cache
  /\ UNCHANGED <<past, request, invalidations, ticks>>

(* A storage error or jwksRebuildTimeout ends the rebuild. *)
RebuildFails(g) ==
  /\ At(g, "list") \/ At(g, "backfill") \/ At(g, "check")
  /\ Finish(g, Failed)
  /\ UNCHANGED <<past, cache, request, invalidations, ticks>>

(* singleflight forgets the flight and hands its result to all who joined. *)
Deliver(g) ==
  /\ At(g, "done")
  /\ flight' = [flight EXCEPT ![g] = Nil]
  /\ request' = [r \in Requests |->
       IF request[r].pc = "waiting" /\ request[r].generation = g
       THEN [request[r] EXCEPT !.pc = "delivered", !.outcome = flight[g].outcome] ELSE request[r]]
  /\ UNCHANGED <<past, cache, invalidations, ticks>>

\* Mutant: a failed rebuild is tried again.
Superseded_OrFailed(q) == q.generation # cache.generation \/ q.outcome.err # "none"
Superseded(q) == q.generation # cache.generation \/ q.outcome.err = "invalidated"

(* The waiting request looks at the generation again before it returns. *)
Consume(r) ==
  LET q == request[r]
  IN  /\ q.pc = "delivered"
      /\ request' = [request EXCEPT ![r] = IF Superseded(q) THEN Retry(q) ELSE Answer(q, q.outcome)]
      /\ UNCHANGED <<past, cache, flight, invalidations, ticks>>

\* The request's context ends; the flight goes on.
GiveUp(r) ==
  /\ request[r].pc \in {"waiting", "delivered"}
  /\ request' = [request EXCEPT ![r] = Answer(request[r], Failed)]
  /\ UNCHANGED <<past, cache, flight, invalidations, ticks>>

(* ------------------------------ environment ---------------------------- *)

(* What a change makes of the key set; the key that signs is never         *)
(* removed.  To promote the key that signs already leaves the set as it    *)
(* is, as does any change in the other key domain.                         *)
Changes(s) ==
  LET Changed(keys, signing) == [keys |-> keys, legacy |-> s.legacy \cap keys, signing |-> signing, signers |-> {signing}]
  IN  {Changed(s.keys \cup {k}, s.signing) : k \in KIDs \ s.keys}
        \cup {Changed(s.keys, k) : k \in s.keys}
        \cup {Changed(s.keys \ {k}, s.signing) : k \in s.keys \ {s.signing}}

(* A key is created, promoted or removed; the version changes in the same  *)
(* transaction.                                                            *)
KeySetChanges ==
  /\ Len(past) <= MaxVersion
  /\ \E s \in Changes(Latest) : past' = Append(past, s)
  /\ \/ invalidations' = invalidations + 1     \* by this replica
     \/ UNCHANGED invalidations                \* by another one
  /\ UNCHANGED <<cache, flight, request, ticks>>

\* The grace period of a key ends: another key signs, the version stays.
KeyActivates ==
  /\ ticks < MaxExpiry
  /\ \E k \in Latest.keys \ {Latest.signing} :
       past' = [past EXCEPT ![Len(past)].signing = k, ![Len(past)].signers = @ \cup {k}]
  /\ ticks' = ticks + 1
  /\ UNCHANGED <<cache, flight, request, invalidations>>

InvalidateJWKSCache ==
  /\ invalidations > 0
  /\ invalidations' = invalidations - 1
  /\ cache' = [cache EXCEPT !.generation = @ + 1, !.set = Nil, !.fresh = FALSE]
  /\ UNCHANGED <<past, flight, request, ticks>>

Expire ==
  /\ cache.fresh /\ ticks < MaxExpiry
  /\ cache' = [cache EXCEPT !.fresh = FALSE]
  /\ ticks' = ticks + 1
  /\ UNCHANGED <<past, flight, request, invalidations>>

Init ==
  /\ \E keys \in SUBSET KIDs, legacy \in SUBSET KIDs, k \in KIDs :
       /\ legacy \subseteq keys \cap Legacy /\ k \in keys
       /\ past = <<[keys |-> keys, legacy |-> legacy, signing |-> k, signers |-> {k}]>>
  /\ cache = [set |-> Nil, fresh |-> FALSE, version |-> 0, generation |-> 0]
  /\ flight = [g \in Generations |-> Nil]
  /\ request = [r \in Requests |-> Fresh("idle", 0, Failed)]
  /\ invalidations = 0 /\ ticks = 0 /\ strict \in BOOLEAN /\ broken \in SUBSET Breakable

RequestStep(r) == (ReadVersion(r) \/ Lookup(r) \/ Consume(r)) /\ UNCHANGED <<strict, broken>>
RebuildStep(g) ==
  /\ \/ ListKeys(g) \/ (\E k \in KIDs : Backfill(g, k)) \/ BuildDone(g)
     \/ CheckVersion(g) \/ StoreSet(g) \/ Deliver(g)
  /\ UNCHANGED <<strict, broken>>

Next ==
  \/ \E r \in Requests : RequestStep(r)
  \/ \E g \in Generations : RebuildStep(g)
  \/ /\ \/ \E r \in Requests : GiveUp(r)
        \/ \E g \in Generations : RebuildFails(g)
        \/ KeySetChanges \/ KeyActivates \/ InvalidateJWKSCache \/ Expire
     /\ UNCHANGED <<strict, broken>>

(* ------------------------------ properties ----------------------------- *)

(* Every record of the two caches and of the database has its fields' types, *)
(* and generations and versions stay within what the changes can produce.  *)
TypeInvariant ==
  /\ past \in Seq(KeySet) /\ Len(past) \in 1..(MaxVersion + 1)
  /\ cache \in Cache
  /\ \A g \in Generations : flight[g] \in Flight \cup {Nil}
  /\ \A r \in Requests : request[r] \in Request
  /\ invalidations \in 0..MaxVersion /\ ticks \in 0..MaxExpiry /\ strict \in BOOLEAN /\ broken \subseteq Breakable

(* The set is that of version v: all its keys, save the broken ones and    *)
(* perhaps those whose public JWK was not stored yet, and no other.        *)
SetOf(set, v) ==
  /\ past[v + 1].keys \ (broken \cup past[v + 1].legacy) \subseteq set
  /\ set \subseteq past[v + 1].keys \ broken

(* A key set handed out by BuildJWKS is the key set of one version, and    *)
(* not of one older than the version current when the request arrived:     *)
(* neither the cache nor a shared rebuild lets a verifier that asks after  *)
(* a key was added (removed) get a set without (with) it.                  *)
ServedSetIsFresh ==
  \A r \in Requests : request[r].pc = "done" /\ request[r].outcome.set # Nil =>
    \E v \in request[r].since..KeySetVersion : SetOf(request[r].outcome.set, v)

(* The cached set is that of the version it is filed under, however the    *)
(* rebuilds, invalidations and changes of the key set interleaved.         *)
CachedSetIsOfItsVersion ==
  cache.set # Nil => SetOf(cache.set, cache.version)

(* The cached set holds a key that signed at its version: buildJWKS fails  *)
(* rather than publish a set whose signing key could not be processed.     *)
SigningKeyPublished ==
  cache.set # Nil => cache.set \cap past[cache.version + 1].signers # {}

(* A request that is in the loop leaves it once the key set stops          *)
(* changing, although its own rebuild may change the version.              *)
RequestReturns ==
  \A r \in Requests : request[r].pc = "read" ~> request[r].pc = "done"

=============================================================================
