--------------------------- MODULE ApprovalSync ----------------------------
(***************************************************************************)
(* How a decision taken in the broker reaches the gate of one ExtProc      *)
(* instance.  Every commit on tool_approvals bumps one version and sends a *)
(* NOTIFY (migration 026); each broker replica LISTENs on a connection it  *)
(* may lose, and wakes its long polls through a coalescing broadcaster.    *)
(* ExtProc keeps one long poll open, installs full snapshots in a cache,   *)
(* and its gate decides tool calls from that cache, reading the broker     *)
(* itself on a miss.  One (principal, agent) pair, one tool, one agent     *)
(* session.                                                                *)
(*                                                                         *)
(* Time is abstract: `fresh' says the last confirmation is within          *)
(* max_staleness, and idle eviction waits for the in-flight calls of the   *)
(* pair, because idleTTL (5m) exceeds every request timeout (5s).          *)
(***************************************************************************)
EXTENDS ApprovalStore

CONSTANTS
    Brokers,     \* broker replicas
    Calls,       \* tool calls being gated concurrently
    MaxApprovals,\* bound on rows
    MaxVersion,  \* bound on commits
    MaxFaults    \* bound on lost connections, failed requests and evictions

VARIABLES
    table,       \* tool_approvals
    version,     \* approval_sync_state.version
    changed,     \* history: the version of each row's last change
    listening,   \* per replica: the LISTEN connection is up
    signal,      \* per replica: broadcasts on their way, local and NOTIFY
    coalescing,  \* per replica: ApprovalSyncBroadcaster.coalescePending
    poll,        \* the syncer's request
    cache,       \* the ExtProc approval cache
    call,        \* per gated call: where it is
    used,        \* history: the once approvals that let a call through
    faults

brokerVars == <<table, version, changed, listening, signal, coalescing>>
syncVars == <<brokerVars, poll, cache, call, used, faults>>

NoPoll == [pc |-> "idle", at |-> "none", etag |-> 0, session |-> FALSE, version |-> 0,
           list |-> <<>>, subscribed |-> FALSE, woken |-> FALSE, missed |-> FALSE]
NoCall == [pc |-> "idle", session |-> FALSE, version |-> 0, list |-> <<>>, record |-> 0]
EmptyCache == [present |-> FALSE, records |-> <<>>, version |-> 0, etag |-> 0,
               fresh |-> FALSE, session |-> FALSE]

SyncInit ==
    /\ table = <<>> /\ version = 1 /\ changed = <<>>
    /\ listening = [b \in Brokers |-> TRUE]
    /\ signal = [b \in Brokers |-> {}]
    /\ coalescing = [b \in Brokers |-> FALSE]
    /\ poll = NoPoll /\ cache = EmptyCache
    /\ call = [c \in Calls |-> NoCall]
    /\ used = {} /\ faults = 0

(* Where a request may be served: at a replica that may hold the long poll, *)
(* or at any other.                                                        *)
Sites == Brokers \union {"elsewhere"}

Subscribed(b) == poll.at = b /\ poll.subscribed

Fault == faults < MaxFaults /\ faults' = faults + 1

-----------------------------------------------------------------------------
(* A commit: the row, the version bump and the NOTIFY are one transaction; *)
(* the serving replica then broadcasts locally.                            *)
Commit(b, rows, i) ==
    /\ table' = rows
    /\ version' = version + 1
    /\ changed' = [j \in DOMAIN rows |-> IF j = i THEN version + 1 ELSE changed[j]]
    /\ signal' = [x \in Brokers |->
                    signal[x] \union (IF x = b THEN {"local"} ELSE {})
                              \union (IF listening[x] THEN {"notify"} ELSE {})]
    /\ poll' = [poll EXCEPT !.missed =
                  @ \/ \E x \in Brokers : Subscribed(x) /\ x # b /\ ~listening[x]]
    /\ UNCHANGED <<listening, coalescing>>

CommitRow(b, i, result) ==
    /\ result.err = "ok"
    /\ version < MaxVersion
    /\ Commit(b, [table EXCEPT ![i] = result.row], i)
    /\ UNCHANGED <<cache, call, used, faults>>

UserApproves(b, i, p) == CommitRow(b, i, Approve(table[i], p))
UserDenies(b, i, p) == CommitRow(b, i, Deny(table[i], p))
UserRevokes(b, i) == CommitRow(b, i, RevokePermanent(table[i]))

-----------------------------------------------------------------------------
(* The replicas' wake-up path.                                              *)
Broadcast(b, source) ==
    /\ source \in signal[b]
    /\ signal' = [signal EXCEPT ![b] = @ \ {source}]
    /\ coalescing' = [coalescing EXCEPT ![b] = TRUE]
    /\ UNCHANGED <<table, version, changed, listening, poll, cache, call, used, faults>>

notifyAll(b) ==
    /\ coalescing[b]
    /\ coalescing' = [coalescing EXCEPT ![b] = FALSE]
    /\ poll' = IF Subscribed(b)
                 THEN [poll EXCEPT !.woken = TRUE] ELSE poll
    /\ UNCHANGED <<table, version, changed, listening, signal, cache, call, used, faults>>

(* The LISTEN connection breaks; NOTIFYs sent meanwhile are gone.           *)
ListenLost(b) ==
    /\ listening[b] /\ Fault
    /\ listening' = [listening EXCEPT ![b] = FALSE]
    /\ signal' = [signal EXCEPT ![b] = @ \ {"notify"}]
    /\ poll' = [poll EXCEPT !.missed =
                  @ \/ (Subscribed(b) /\ "notify" \in signal[b])]
    /\ UNCHANGED <<table, version, changed, coalescing, cache, call, used>>

listenOnce(b) ==
    /\ ~listening[b]
    /\ listening' = [listening EXCEPT ![b] = TRUE]
    /\ UNCHANGED <<table, version, changed, signal, coalescing, poll, cache, call, used, faults>>

-----------------------------------------------------------------------------
(* GET /api/approvals.  GetSyncState reads the version first, the rows      *)
(* second, in two statements.                                              *)
Snapshot(session) ==
    [i \in ListAllActive(table, session) |->
        [status |-> table[i].status, persistence |-> table[i].persistence,
         consumed |-> FALSE, reserved |-> FALSE]]

\* Mutant: the rows are read first.
GetSyncState_RowsFirst(request) ==
    IF request.pc = "version"
      THEN [request EXCEPT !.pc = "list", !.list = Snapshot(request.session)]
      ELSE [request EXCEPT !.pc = "install", !.version = version]
GetSyncState(request) ==
    IF request.pc = "version"
      THEN [request EXCEPT !.pc = "list", !.version = version]
      ELSE [request EXCEPT !.pc = "install", !.list = Snapshot(request.session)]
Reading(request) == request.pc \in {"version", "list"}

(* The long-poll handler with an ETag: subscribe, compare, wait.            *)
StartPoll(b) ==
    /\ poll.pc = "idle"
    /\ poll' = [NoPoll EXCEPT !.at = b, !.etag = cache.etag, !.session = cache.session,
                              !.pc = IF cache.etag = 0 THEN "version" ELSE "first"]
    /\ UNCHANGED <<brokerVars, cache, call, used, faults>>

Answering == [NoPoll EXCEPT !.pc = "version", !.at = poll.at, !.session = poll.session]

\* Mutant: the version is compared before the channel is registered.
Preparation_CompareFirst == [first |-> "compare", second |-> "subscribe"]
Preparation == [first |-> "subscribe", second |-> "compare"]

PreparePoll ==
    /\ poll.pc \in DOMAIN Preparation
    /\ LET next == IF poll.pc = "first" THEN "second" ELSE "wait"
       IN  poll' = CASE Preparation[poll.pc] = "subscribe" ->
                          [poll EXCEPT !.pc = next, !.subscribed = TRUE]
                     [] Preparation[poll.pc] = "compare" /\ version = poll.etag ->
                          [poll EXCEPT !.pc = next]
                     [] OTHER -> Answering
    /\ UNCHANGED <<brokerVars, cache, call, used, faults>>

Wake ==
    /\ poll.pc = "wait" /\ poll.woken
    /\ poll' = Answering
    /\ UNCHANGED <<brokerVars, cache, call, used, faults>>

PollReads ==
    /\ Reading(poll) /\ poll' = GetSyncState(poll)
    /\ UNCHANGED <<brokerVars, cache, call, used, faults>>

(* The timer fires: 304, and the cache counts as confirmed unless a         *)
(* targeted read has already seen a newer version.                         *)
MarkSynced == [cache EXCEPT !.fresh = @ \/ cache.etag >= cache.version]

NotModified ==
    /\ poll.pc = "wait"
    /\ poll' = NoPoll
    /\ cache' = MarkSynced
    /\ UNCHANGED <<brokerVars, call, used, faults>>

(* A broken connection, an error status or the poll context's deadline.     *)
PollFails ==
    /\ poll.pc # "idle" /\ Fault
    /\ poll' = NoPoll
    /\ UNCHANGED <<brokerVars, cache, call, used>>

-----------------------------------------------------------------------------
(* Installing a snapshot: older versions are refused, what is known locally *)
(* about a record that is still listed is kept.                            *)
acceptVersion(v) == v >= cache.version

snapshotRecords(list) ==
    [i \in DOMAIN list |->
        IF cache.present /\ i \in DOMAIN cache.records
          THEN [list[i] EXCEPT !.consumed = cache.records[i].consumed,
                               !.reserved = ~cache.records[i].consumed /\ cache.records[i].reserved]
          ELSE list[i]]

Granting(records) == {i \in DOMAIN records : records[i].status = "approved"}
Withdrawn(i) == table[i].status = "denied" \/ table[i].consumed

\* Mutant: the ETag of the answer is not kept.
Replace_NoETag(list, v) ==
    IF acceptVersion(v)
      THEN [cache EXCEPT !.present = DOMAIN list # {}, !.records = snapshotRecords(list),
                         !.version = v, !.fresh = TRUE]
      ELSE cache
Replace(list, v) ==
    IF acceptVersion(v)
      THEN [cache EXCEPT !.present = DOMAIN list # {}, !.records = snapshotRecords(list),
                         !.version = v, !.etag = v, !.fresh = TRUE]
      ELSE cache

ReplaceForPrincipal(list, v) ==
    [cache EXCEPT !.present = DOMAIN list # {}, !.records = snapshotRecords(list),
                  !.version = v, !.fresh = TRUE]

PollInstalls ==
    /\ poll.pc = "install"
    /\ cache' = Replace(poll.list, poll.version)
    /\ poll' = NoPoll
    /\ UNCHANGED <<brokerVars, call, used, faults>>

-----------------------------------------------------------------------------
(* Cache.Match: a fresh entry only; a permanent denial wins, otherwise one  *)
(* of the matchable approvals is taken and a once approval is reserved.     *)
Matchable(c, i) ==
    /\ c.records[i].status = "approved"
    /\ ~c.records[i].consumed /\ ~c.records[i].reserved
    /\ c.records[i].persistence = "session" => c.session

Usable(c) == IF c.present /\ c.fresh THEN DOMAIN c.records ELSE {}
PermanentDenials(c) ==
    {i \in Usable(c) : c.records[i].status = "denied" /\ c.records[i].persistence = "permanent"}
Candidates(c) == {i \in Usable(c) : Matchable(c, i)}

(* enforceDecision on cache c after a match; `miss' when nothing matches.   *)
Enforce(c, me, miss) ==
    \/ /\ PermanentDenials(c) # {}
       /\ call' = [call EXCEPT ![me] = NoCall] /\ cache' = c
    \/ /\ PermanentDenials(c) = {}
       /\ \E i \in Candidates(c) :
            IF c.records[i].persistence = "once"
              THEN /\ cache' = [c EXCEPT !.records[i].reserved = TRUE]
                   /\ call' = [call EXCEPT ![me] = [NoCall EXCEPT !.pc = "consume", !.record = i]]
              ELSE cache' = c /\ call' = [call EXCEPT ![me] = NoCall]
    \/ /\ PermanentDenials(c) = {} /\ Candidates(c) = {}
       /\ cache' = c /\ call' = [call EXCEPT ![me] = miss]

(* Gate.Evaluate.                                                           *)
Evaluate(me) ==
    /\ call[me].pc = "idle"
    /\ Enforce([cache EXCEPT !.session = TRUE], me,
               [NoCall EXCEPT !.pc = "version", !.session = TRUE])
    /\ UNCHANGED <<brokerVars, poll, used, faults>>

GateReads(me) ==
    /\ Reading(call[me]) /\ call' = [call EXCEPT ![me] = GetSyncState(@)]
    /\ UNCHANGED <<brokerVars, poll, cache, used, faults>>

GateReadFails(me) ==
    /\ call[me].pc \in {"version", "list", "install"} /\ Fault
    /\ call' = [call EXCEPT ![me] = NoCall]
    /\ UNCHANGED <<brokerVars, poll, cache, used>>

GateInstalls(me) ==
    /\ call[me].pc = "install"
    /\ IF acceptVersion(call[me].version)
         THEN /\ cache' = ReplaceForPrincipal(call[me].list, call[me].version)
              /\ call' = [call EXCEPT ![me] = [NoCall EXCEPT !.pc = "rematch"]]
         ELSE /\ call' = [call EXCEPT ![me] = NoCall]
              /\ UNCHANGED cache
    /\ UNCHANGED <<brokerVars, poll, used, faults>>

GateRematches(me) ==
    /\ call[me].pc = "rematch"
    /\ Enforce(cache, me, [NoCall EXCEPT !.pc = "create"])
    /\ UNCHANGED <<brokerVars, poll, used, faults>>

(* A confirmed miss opens a prompt, or finds the one already open.          *)
GateCreates(me, b) ==
    /\ call[me].pc = "create"
    /\ LET created == Create(table, "tool")
       IN  IF created.id \in DOMAIN table
             THEN UNCHANGED <<brokerVars, poll>>
             ELSE /\ Len(table) < MaxApprovals /\ version < MaxVersion
                  /\ Commit(b, created.table, created.id)
    /\ call' = [call EXCEPT ![me] = NoCall]
    /\ UNCHANGED <<cache, used, faults>>

GateCreateFails(me) ==
    /\ call[me].pc = "create"
    /\ call' = [call EXCEPT ![me] = NoCall]
    /\ UNCHANGED <<brokerVars, poll, cache, used, faults>>

(* Consuming a once approval: an approval already consumed answers success, *)
(* anything else that is not consumable, and a lost answer, an error.       *)
ConsumeApproval(i) ==
    IF table[i].consumed THEN Result(table[i], "alreadyConsumed") ELSE Consume(table[i])

\* Mutant: the call proceeds when the broker cannot be reached.
ConsumeError_Proceeds == "confirm"
ConsumeError == "release"

GateConsumes(me, b) ==
    /\ call[me].pc = "consume"
    /\ LET i == call[me].record
           result == ConsumeApproval(i)
       IN  /\ \/ /\ result.err = "ok" /\ version < MaxVersion
                 /\ Commit(b, [table EXCEPT ![i] = result.row], i)
              \/ result.err # "ok" /\ UNCHANGED <<brokerVars, poll>>
           /\ \/ /\ call' = [call EXCEPT ![me].pc =
                               IF result.err = "notFound" THEN ConsumeError ELSE "confirm"]
                 /\ UNCHANGED faults
              \/ Fault /\ call' = [call EXCEPT ![me].pc = ConsumeError]
    /\ UNCHANGED <<cache, used>>

ConsumeFails(me) ==
    /\ call[me].pc = "consume" /\ Fault
    /\ call' = [call EXCEPT ![me].pc = ConsumeError]
    /\ UNCHANGED <<brokerVars, poll, cache, used>>

settled(record, consumed) ==
    [record EXCEPT !.reserved = FALSE, !.consumed = @ \/ consumed]

setReservation(i, consumed) ==
    IF cache.present /\ i \in DOMAIN cache.records
      THEN [cache EXCEPT !.records[i] = settled(@, consumed)]
      ELSE cache

Release(me) ==
    /\ call[me].pc = "release"
    /\ cache' = setReservation(call[me].record, FALSE)
    /\ call' = [call EXCEPT ![me] = NoCall]
    /\ UNCHANGED <<brokerVars, poll, used, faults>>

(* ... and the call proceeds.                                              *)
ConfirmConsumed(me) ==
    /\ call[me].pc = "confirm"
    /\ cache' = setReservation(call[me].record, TRUE)
    /\ used' = used \union {call[me].record}
    /\ call' = [call EXCEPT ![me] = NoCall]
    /\ UNCHANGED <<brokerVars, poll, faults>>

-----------------------------------------------------------------------------
(* Time and faults.                                                         *)
GoStale ==
    /\ cache.fresh /\ Fault
    /\ cache' = [cache EXCEPT !.fresh = FALSE]
    /\ UNCHANGED <<brokerVars, poll, call, used>>

(* idle_ttl without a call of the pair, or of the session.                  *)
evictIdle ==
    /\ \A c \in Calls : call[c].pc = "idle"
    /\ Fault
    /\ \/ cache.present /\ cache' = [cache EXCEPT !.present = FALSE, !.records = <<>>]
       \/ /\ cache.session
          /\ cache' = [cache EXCEPT !.session = FALSE,
               !.records = [i \in {j \in DOMAIN @ : @[j].persistence # "session"} |-> @[i]]]
    /\ UNCHANGED <<brokerVars, poll, call, used>>

BrokerRestarts(b) ==
    /\ Fault
    /\ listening' = [listening EXCEPT ![b] = FALSE]
    /\ signal' = [signal EXCEPT ![b] = {}]
    /\ coalescing' = [coalescing EXCEPT ![b] = FALSE]
    /\ poll' = IF poll.at = b THEN NoPoll ELSE poll
    /\ UNCHANGED <<table, version, changed, cache, call, used>>

SyncPolls ==
    \/ \E b \in Brokers : StartPoll(b)
    \/ PreparePoll \/ Wake \/ PollReads \/ NotModified \/ PollInstalls

Wakeups == \E b \in Brokers : (\E s \in {"local", "notify"} : Broadcast(b, s)) \/ notifyAll(b)

SyncNext ==
    \/ \E b \in Sites, i \in DOMAIN table :
        \/ \E p \in Persistences : UserApproves(b, i, p)
        \/ \E p \in {"none", "permanent"} : UserDenies(b, i, p)
        \/ UserRevokes(b, i)
    \/ Wakeups
    \/ SyncPolls \/ PollFails
    \/ \E b \in Brokers : ListenLost(b) \/ listenOnce(b) \/ BrokerRestarts(b)
    \/ \E c \in Calls :
        \/ Evaluate(c) \/ GateReads(c) \/ GateReadFails(c) \/ GateInstalls(c)
        \/ GateRematches(c) \/ GateCreateFails(c)
        \/ \E b \in Sites : GateCreates(c, b) \/ GateConsumes(c, b)
        \/ ConsumeFails(c) \/ Release(c) \/ ConfirmConsumed(c)
    \/ GoStale \/ evictIdle

SyncSpec == SyncInit /\ [][SyncNext]_syncVars

(* Goroutines run, timers fire and the LISTEN loop reconnects.              *)
SyncFairness == WF_syncVars(SyncPolls) /\ WF_syncVars(Wakeups)
-----------------------------------------------------------------------------
(* The type of the state.                                                   *)
SyncTypeInvariant ==
    /\ version \in 1 .. MaxVersion /\ DOMAIN changed = DOMAIN table
    /\ used \subseteq DOMAIN table
    /\ DOMAIN cache.records \subseteq DOMAIN table
    /\ cache.etag <= cache.version /\ cache.version <= version
    /\ \A c \in Calls : call[c].record \in 0 .. Len(table)

(* A waiting long poll is never asleep on a change it could have been told  *)
(* about: unless the replica's LISTEN connection was down when the change   *)
(* was announced, a wake-up is on its way (subscribe before compare).       *)
NoLostWakeup ==
    poll.pc = "wait" /\ version # poll.etag
        => \/ poll.woken \/ poll.missed
           \/ coalescing[poll.at] \/ signal[poll.at] # {}

(* The cache never lags behind the version it claims: an approval that was  *)
(* withdrawn is granted by the cache only while the withdrawal is newer     *)
(* than the cached version (the version is read before the rows).           *)
CacheVersionIsHonest ==
    \A i \in Granting(cache.records) :
        Withdrawn(i) => changed[i] > cache.version

(* A once approval that let a call through is consumed in the broker, also  *)
(* when answers were lost and calls retried.                               *)
UsesAreConsumed == \A i \in used : table[i].consumed

(* Whatever notifications, connections or replicas are lost, once the       *)
(* commits stop (MaxVersion stops them) the syncer's ETag reaches the last  *)
(* version for good: a missed wake-up costs at most one long-poll timeout.  *)
CacheCatchesUp == <>[](cache.etag = version)

(* A withdrawal the cache has once taken over is not undone by a snapshot   *)
(* that arrives late: adrs/036 promises that the ETag regression rule       *)
(* prevents a delayed response from restoring a revoked approval.           *)
RevokedIsNotRestored ==
    [][\A i \in DOMAIN cache.records :
         cache.records[i].status = "denied" => i \notin Granting(cache'.records)]_syncVars
=============================================================================
