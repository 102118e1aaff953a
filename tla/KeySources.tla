----------------------------- MODULE KeySources -----------------------------
(***************************************************************************)
(* Where the broker takes the keys of others from, and publishes them:     *)
(* the adapter of an upstream jwks_uri, the adapter of a key-set file in   *)
(* the trust directory, and PublishJWKS, which serves the upstream keys    *)
(* alone (proxy mode) or with the broker's own (hybrid mode).              *)
(* The upstream adapter keeps the set that httprc fetched last.  httprc,   *)
(* which is external, fetches it again when the time it derived from the   *)
(* answer has come; requests that find no usable set join one refresh of   *)
(* their own.  Fetches of both kinds may overlap.                          *)
(***************************************************************************)
EXTENDS Naturals, Sequences

CONSTANTS
  KeyRequests,   \* goroutines inside PublishJWKS
  MinRefresh, MaxRefresh, \* jwks_min_refresh and jwks_max_refresh
  FetchLimit     \* fetchTimeout

VARIABLES
  sourceTime,
  sources,   \* when the upstream host, and the file, got each of their sets
  ownKeys,   \* key identifiers of the broker's own set; the empty set in proxy mode
  resource,  \* of httprc: number of the set fetched last (0: none) and the time of the next fetch
  health,    \* lastSuccessAt is set, nextRefreshAt, lastErr is set; the controller is shut down
  fetch,     \* the fetch of the httprc worker, and that of the refresh requests join
  asks,      \* the requests
  fileKeys,  \* current, lastSuccessAt, lastErr, next tick of the loop; what reread has read
  quota      \* bounds: requests, new sets, changes of the own keys, and ticks to come

sourceVars == <<sourceTime, sources, ownKeys, resource, health, fetch, asks, fileKeys, quota>>

ASSUME RefreshTimes == MinRefresh \in 1..MaxRefresh /\ FetchLimit \in Nat

Fetchers == {"worker", "caller"}
\* Every set has a key of its own, and the second of a host reuses an identifier of the broker.
KidsOf(n) == IF n = 2 THEN {"k2", "own"} ELSE {"k1"}
NewSet(h) == Len(sources[h])
Uses(b) == quota[b] > 0 /\ quota' = [quota EXCEPT ![b] = @ - 1]

NoFetch == [pc |-> "idle", set |-> 0, began |-> 0, failed |-> FALSE]
NoAsk == [pc |-> "idle", set |-> 0, kids |-> {}, cause |-> FALSE, error |-> ""]

(* ---------------------------- health, staleness ------------------------ *)

\* Mutant: the set is served whatever happened to its refresh.
staleError_Never(h) == ~h.succeeded /\ h.failing
\* staleErrorLocked, for the time of the call.
staleError(h) == h.failing /\ (~h.succeeded \/ sourceTime > h.next)
resourceReady == resource.set # 0

recordSuccess == health' = [health EXCEPT !.succeeded = TRUE, !.next = resource.next, !.failing = FALSE]
recordFailure == health' = [health EXCEPT !.failing = TRUE]
\* A request that runs while a failure stands, or is recorded, has a cause to fail.
Blame(calls) == [r \in KeyRequests |-> IF calls[r].pc = "idle" THEN calls[r] ELSE [calls[r] EXCEPT !.cause = TRUE]]

(* -------------------------------- fetches ------------------------------ *)

Fetching(f, pc) == fetch[f].pc = pc
Begin(f) == [fetch EXCEPT ![f] = [NoFetch EXCEPT !.pc = "asked", !.began = sourceTime]]

\* httprc's worker, when the next fetch is due.
WorkerBegins ==
  /\ ~health.stopped /\ Fetching("worker", "idle") /\ resource.next <= sourceTime
  /\ fetch' = Begin("worker")
  /\ UNCHANGED <<sourceTime, sources, ownKeys, resource, health, asks, fileKeys, quota>>

(* The host answers: the next fetch is set from its cache headers within   *)
(* the bounds, whatever the answer is worth.                               *)
HostAnswers(f) ==
  /\ Fetching(f, "asked")
  /\ fetch' = [fetch EXCEPT ![f].pc = "answered", ![f].set = NewSet("host")]
  /\ \E d \in MinRefresh..MaxRefresh : resource' = [resource EXCEPT !.next = sourceTime + d]
  /\ UNCHANGED <<sourceTime, sources, ownKeys, health, asks, fileKeys, quota>>

\* trackingTransformer: success is recorded before httprc keeps the set.
Transform(f) ==
  /\ Fetching(f, "answered")
  /\ recordSuccess
  /\ fetch' = [fetch EXCEPT ![f].pc = "parsed"]
  /\ UNCHANGED <<sourceTime, sources, ownKeys, resource, asks, fileKeys, quota>>
KeepSet(f) ==
  /\ Fetching(f, "parsed")
  /\ resource' = [resource EXCEPT !.set = fetch[f].set]
  /\ fetch' = IF f = "worker" THEN [fetch EXCEPT ![f] = NoFetch] ELSE [fetch EXCEPT ![f].pc = "ending"]
  /\ UNCHANGED <<sourceTime, sources, ownKeys, health, asks, fileKeys, quota>>

(* No answer, a bad one, or the controller is gone: the error sink, or the *)
(* refresh itself, records the failure.  Without an answer the worker      *)
(* tries again within the bounds.                                          *)
FetchBreaks(f) ==
  /\ Fetching(f, "asked") \/ Fetching(f, "answered")
  /\ recordFailure /\ asks' = Blame(asks)
  /\ fetch' = IF f = "worker" THEN [fetch EXCEPT ![f] = NoFetch]
              ELSE [fetch EXCEPT ![f].pc = "ending", ![f].failed = TRUE]
  /\ IF Fetching(f, "asked") THEN \E d \in MinRefresh..MaxRefresh : resource' = [resource EXCEPT !.next = sourceTime + d]
     ELSE UNCHANGED resource
  /\ UNCHANGED <<sourceTime, sources, ownKeys, fileKeys, quota>>

(* ------------------------- GetKeySet, PublishJWKS ---------------------- *)

PublishJWKS(r) ==
  /\ asks[r].pc \in {"idle", "done"} /\ Uses("requests")
  /\ asks' = [asks EXCEPT ![r] = [NoAsk EXCEPT !.pc = "check", !.cause = health.failing]]
  /\ UNCHANGED <<sourceTime, sources, ownKeys, resource, health, fetch, fileKeys>>

Preflight(r) ==
  /\ asks[r].pc = "check"
  /\ asks' = [asks EXCEPT ![r].pc = IF ~resourceReady \/ staleError(health) THEN "join" ELSE "serve"]
  /\ UNCHANGED <<sourceTime, sources, ownKeys, resource, health, fetch, fileKeys, quota>>

\* startRefresh: one refresh at a time, whoever needs it; without a controller it fails at once.
startRefresh(r) ==
  /\ asks[r].pc = "join"
  /\ IF ~Fetching("caller", "idle")
     THEN UNCHANGED <<fetch, health>> /\ asks' = [asks EXCEPT ![r].pc = "await", ![r].cause = @ \/ fetch["caller"].failed]
     ELSE IF health.stopped
     THEN /\ fetch' = [fetch EXCEPT !["caller"] = [NoFetch EXCEPT !.pc = "ending", !.failed = TRUE]]
          /\ recordFailure /\ asks' = Blame([asks EXCEPT ![r].pc = "await"])
     ELSE fetch' = Begin("caller") /\ UNCHANGED health /\ asks' = [asks EXCEPT ![r].pc = "await"]
  /\ UNCHANGED <<sourceTime, sources, ownKeys, resource, fileKeys, quota>>

Refused(q, error) == [q EXCEPT !.pc = "done", !.error = error]
\* The refresh ends: all who wait have its result.
JoinedRefreshEnds ==
  /\ Fetching("caller", "ending")
  /\ asks' = [r \in KeyRequests |->
       IF asks[r].pc # "await" THEN asks[r]
       ELSE IF fetch["caller"].failed THEN Refused(asks[r], "unavailable") ELSE [asks[r] EXCEPT !.pc = "serve"]]
  /\ fetch' = [fetch EXCEPT !["caller"] = NoFetch]
  /\ UNCHANGED <<sourceTime, sources, ownKeys, resource, health, fileKeys, quota>>
\* awaitRefresh: the request's context ends, the refresh goes on.
ContextEnds(r) ==
  /\ asks[r].pc = "await"
  /\ asks' = [asks EXCEPT ![r] = [Refused(@, "unavailable") EXCEPT !.cause = TRUE]]
  /\ UNCHANGED <<sourceTime, sources, ownKeys, resource, health, fetch, fileKeys, quota>>

\* The second look, then the set httprc holds.
GetKeySet(r) ==
  /\ asks[r].pc = "serve"
  /\ asks' = [asks EXCEPT ![r] = IF staleError(health) \/ ~resourceReady THEN Refused(@, "unavailable")
                                 ELSE [@ EXCEPT !.pc = "merge", !.set = resource.set]]
  /\ UNCHANGED <<sourceTime, sources, ownKeys, resource, health, fetch, fileKeys, quota>>
\* The broker's own keys are read after the upstream set; no identifier may be in both.
mergeWithKidCheck(r) ==
  LET kids == KidsOf(asks[r].set)
  IN  /\ asks[r].pc = "merge"
      /\ asks' = [asks EXCEPT ![r] =
           IF kids \cap ownKeys # {} THEN Refused(@, "kid_conflict") ELSE [@ EXCEPT !.pc = "done", !.kids = kids \cup ownKeys]]
      /\ UNCHANGED <<sourceTime, sources, ownKeys, resource, health, fetch, fileKeys, quota>>

Shutdown ==
  /\ ~health.stopped /\ Uses("shutdowns")
  /\ health' = [health EXCEPT !.stopped = TRUE]
  /\ fetch' = [fetch EXCEPT !["worker"] = NoFetch]
  /\ UNCHANGED <<sourceTime, sources, ownKeys, resource, asks, fileKeys>>

(* ------------------------------- key-set file -------------------------- *)

\* The loop reads the file when its ticker fires: the set, or 0 when the document is refused.
ReadFile ==
  /\ fileKeys.read = "none" /\ fileKeys.due <= sourceTime
  /\ \E got \in {"set", "error"} :
       fileKeys' = [fileKeys EXCEPT !.read = got, !.got = NewSet("file"), !.due = @ + MinRefresh]
  /\ UNCHANGED <<sourceTime, sources, ownKeys, resource, health, fetch, asks, quota>>
\* reread, under the lock.
Reread ==
  /\ fileKeys.read # "none"
  /\ fileKeys' = IF fileKeys.read = "error" THEN [fileKeys EXCEPT !.read = "none", !.failing = TRUE]
                 ELSE [fileKeys EXCEPT !.read = "none", !.set = fileKeys.got, !.at = sourceTime, !.failing = FALSE]
  /\ UNCHANGED <<sourceTime, sources, ownKeys, resource, health, fetch, asks, quota>>
\* Whether GetKeySet of the file fails closed.
Expired(k) == k.failing /\ sourceTime - k.at > MaxRefresh

(* ------------------------------ environment ---------------------------- *)

SetReplaced(h) ==
  /\ Uses("sets") /\ NewSet(h) < 2
  /\ sources' = [sources EXCEPT ![h] = Append(@, sourceTime)]
  /\ UNCHANGED <<sourceTime, ownKeys, resource, health, fetch, asks, fileKeys>>
OwnKeysChange ==
  /\ ownKeys # {} /\ Uses("own")
  /\ ownKeys' = {"own", "added"} \ (ownKeys \cap {"own"})
  /\ UNCHANGED <<sourceTime, sources, resource, health, fetch, asks, fileKeys>>

SourceTick ==
  /\ Uses("ticks")
  /\ sourceTime' = sourceTime + 1
  /\ UNCHANGED <<sources, ownKeys, resource, health, fetch, asks, fileKeys>>
(* Time waits for a fetch that has reached its timeout, for the worker     *)
(* once there is a set to keep fresh, and for the loop of the file.        *)
FetchesInTime ==
  /\ \A f \in Fetchers : Fetching(f, "idle") \/ sourceTime < fetch[f].began + FetchLimit
  /\ health.succeeded /\ ~health.stopped /\ Fetching("worker", "idle") => sourceTime < resource.next
LoopInTime == fileKeys.read = "none" /\ sourceTime < fileKeys.due

SourceInit(own, limits) ==
  /\ sourceTime = 0 /\ sources = [h \in {"host", "file"} |-> <<0>>] /\ ownKeys = own /\ quota = limits
  /\ resource = [set |-> 0, next |-> 0]
  /\ health = [succeeded |-> FALSE, next |-> 0, failing |-> FALSE, stopped |-> FALSE]
  /\ fetch = [f \in Fetchers |-> NoFetch] /\ asks = [r \in KeyRequests |-> NoAsk]
  /\ fileKeys = [set |-> 1, at |-> 0, failing |-> FALSE, due |-> MinRefresh, read |-> "none", got |-> 1]

UpstreamNext ==
  \/ WorkerBegins \/ JoinedRefreshEnds \/ Shutdown
  \/ \E f \in Fetchers : HostAnswers(f) \/ Transform(f) \/ KeepSet(f) \/ FetchBreaks(f)
  \/ \E r \in KeyRequests : PublishJWKS(r) \/ Preflight(r) \/ startRefresh(r) \/ ContextEnds(r)
       \/ GetKeySet(r) \/ mergeWithKidCheck(r)
  \/ SetReplaced("host") \/ OwnKeysChange \/ (FetchesInTime /\ SourceTick)
FileSetNext == ReadFile \/ Reread \/ SetReplaced("file") \/ (LoopInTime /\ SourceTick)

(* ------------------------------ properties ----------------------------- *)

(* The adapters' state has its shape, and the answers are sets of keys or  *)
(* errors, never both.                                                     *)
SourceTypeInvariant ==
  /\ resource.set \in 0..NewSet("host") /\ resource.next \in Nat
  /\ health \in [succeeded : BOOLEAN, next : Nat, failing : BOOLEAN, stopped : BOOLEAN]
  /\ fileKeys.set \in 1..NewSet("file")
  /\ \A f \in Fetchers : fetch[f].pc \in {"idle", "asked", "answered", "parsed", "ending"}
  /\ \A r \in KeyRequests : asks[r].pc = "done" => (asks[r].error = "") # (asks[r].kids = {})

\* The set was no longer its source's newest before the given time.
GoneBefore(h, set, t) == set < NewSet(h) /\ sources[h][set + 1] < t

(* While the refresh is running, keys the upstream withdrew are not served *)
(* longer than the longest interval and the time of two fetches: a failing *)
(* upstream makes the adapter fail closed, however the worker's fetches    *)
(* and the requests' refresh overlap.  The exception is the moment between *)
(* the record of a success and httprc's keeping of the new set.            *)
UpstreamSetFades ==
  [][\A r \in KeyRequests :
       /\ asks[r].pc = "serve" /\ asks'[r].pc = "merge" /\ ~health.stopped
       /\ sourceTime > MaxRefresh + 2 * FetchLimit /\ ~\E f \in Fetchers : Fetching(f, "parsed")
       => ~GoneBefore("host", asks'[r].set, sourceTime - (MaxRefresh + 2 * FetchLimit))]_sourceVars

(* A publication fails only when a fetch failed while it ran, or before it *)
(* without a success since, when the refresh it joined had failed, its own *)
(* context ended, or a key identifier is taken twice: a set that is due    *)
(* for a refresh is no reason, and after a successful refresh there is a   *)
(* set to serve.                                                           *)
FailureHasCause ==
  \A r \in KeyRequests : asks[r].pc = "done" /\ asks[r].error = "unavailable" => asks[r].cause

(* The keys of a file are not trusted longer than the maximum refresh      *)
(* interval after they were replaced, even when it cannot be read again.   *)
FileSetFades ==
  ~Expired(fileKeys) /\ sourceTime > MaxRefresh => ~GoneBefore("file", fileKeys.set, sourceTime - MaxRefresh)

=============================================================================
