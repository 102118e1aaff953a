-------------------------- MODULE ApprovalRecords --------------------------
(***************************************************************************)
(* The broker's approval service: concurrent requests, served by several   *)
(* broker replicas, create, decide, consume and revoke the prompts of one  *)
(* (principal, agent) pair.  A mutating request reads the row, checks it   *)
(* in Go, and only then runs its UPDATE; whatever another request did in   *)
(* between is seen by the UPDATE's WHERE clause and explained by a second  *)
(* read.  Creation is serialised by a mutex per replica, so replicas race. *)
(***************************************************************************)
EXTENDS ApprovalStore

CONSTANTS
    Tools,        \* deduplication keys of the pair
    Requests,     \* request goroutines
    Brokers,      \* broker replicas
    MaxPending,   \* tool_approvals.max_pending
    MaxRows,      \* bound on rows ever created
    MaxUncounted  \* bound on failing pending-count queries

NoRequest == "noRequest"

ASSUME RecordsAssumption ==
    /\ MaxPending \in Nat \ {0}
    /\ IsFiniteSet(Brokers)
    /\ NoRequest \notin Requests

VARIABLES
    serving,      \* the replicas that are up
    approvals,    \* the table tool_approvals
    request,      \* per goroutine: where it is and what it knows
    creationMu,   \* per replica: the goroutine holding Service.creationMu
    uncounted     \* creations let through because the count query failed

recordsVars == <<serving, approvals, request, creationMu, uncounted>>

Idle == [pc |-> "idle", op |-> "none", row |-> 0, with |-> "none", at |-> NoRequest,
         status |-> 0]

RecordsInit ==
    /\ serving \in (SUBSET Brokers) \ {{}}
    /\ approvals = <<>>
    /\ request = [r \in Requests |-> Idle]
    /\ creationMu = [b \in Brokers |-> NoRequest]
    /\ uncounted = 0

Step(r, pc) == request' = [request EXCEPT ![r].pc = pc]

-----------------------------------------------------------------------------
(* Checks on the row read first; a request of another principal has been    *)
(* refused before.                                                         *)
EnsureApprovable(row) ==
    CASE row.status # "pending" -> "notPending"
      [] row.status = "pending" /\ row.expired -> "gone"
      [] OTHER -> "ok"

DenyCheck(row) ==
    CASE row.status # "pending" -> "notPending"
      [] row.status = "pending" /\ row.expired -> "gone"
      [] OTHER -> "ok"

ConsumeCheck(row) ==
    CASE row.consumed -> "alreadyConsumed"
      [] ~row.consumed /\ (row.status # "approved" \/ row.persistence # "once") -> "notConsumable"
      [] OTHER -> "ok"

RevokeCheck(row) == IF row.persistence = "permanent" THEN "ok" ELSE "notRevocable"

Check(op, row) ==
    CASE op = "approve" -> EnsureApprovable(row)
      [] op = "deny" -> DenyCheck(row)
      [] op = "consume" -> ConsumeCheck(row)
      [] op = "revoke" -> RevokeCheck(row)

(* The second read, after an UPDATE that matched no row.                    *)
\* Mutant: a decision that lost a race is reported as already resolved.
resolveApprovalMutationError_Resolved(row) == "notPending"
resolveApprovalMutationError(row) ==
    IF row.status = "pending" /\ row.expired THEN "gone" ELSE "notPending"

RaceLost(op, row) ==
    CASE op = "consume" -> IF row.consumed THEN "alreadyConsumed" ELSE "notFound"
      [] op = "revoke" -> "notRevocable"
      [] OTHER -> resolveApprovalMutationError(row)

(* The HTTP status of an outcome.                                           *)
mapDomainError(err) ==
    CASE err = "notFound" -> 404
      [] err = "forbidden" -> 403
      [] err = "gone" -> 410
      [] err = "notPending" -> 409

Status(op, err) ==
    CASE err \in {"ok", "existing"} -> 200
      [] err = "created" -> 201
      [] err = "rateLimited" -> 429
      [] op = "consume" /\ err = "alreadyConsumed" -> 200
      [] err \in {"notConsumable", "notRevocable"} -> 422
      [] OTHER -> mapDomainError(err)

Finish(r, op, err, i) ==
    request' = [request EXCEPT ![r] =
        [Idle EXCEPT !.pc = "done", !.op = op, !.row = i, !.status = Status(op, err)]]

Store(op, row, persistence) ==
    CASE op = "approve" -> Approve(row, persistence)
      [] op = "deny" -> Deny(row, persistence)
      [] op = "consume" -> Consume(row)
      [] op = "revoke" -> RevokePermanent(row)

MemStore(op, row, persistence) ==
    CASE op = "approve" -> MemApprove(row, persistence)
      [] op = "deny" -> MemDeny(row, persistence)
      [] op = "consume" -> MemConsume(row)
      [] op = "revoke" -> MemRevokePermanent(row)

(* What each handler lets through to the service.                           *)
ApproveRequests == {"approve"} \X Persistences
DenyRequests == {"deny"} \X {"none", "permanent"}
ConsumeRequests == {"consume"} \X {"none"}
RevokeRequests == {"revoke"} \X {"none"}
MutationRequests ==
    ApproveRequests \union DenyRequests \union ConsumeRequests \union RevokeRequests

-----------------------------------------------------------------------------
(* The first half of ApproveApproval, DenyApproval, ConsumeApproval and     *)
(* RevokePermanentApproval: read the row, refuse what it rules out.         *)
Begin(r, i, ask) ==
    /\ request[r].pc = "idle"
    /\ LET err == Check(ask[1], approvals[i])
       IN  IF err = "ok"
             THEN request' = [request EXCEPT ![r] =
                    [Idle EXCEPT !.pc = "update", !.op = ask[1], !.row = i, !.with = ask[2]]]
             ELSE Finish(r, ask[1], err, i)
    /\ UNCHANGED <<approvals, creationMu, uncounted>>

ApproveApproval(r, i) == \E ask \in ApproveRequests : Begin(r, i, ask)
DenyApproval(r, i) == \E ask \in DenyRequests : Begin(r, i, ask)
ConsumeApproval(r, i) == \E ask \in ConsumeRequests : Begin(r, i, ask)
RevokePermanentApproval(r, i) == \E ask \in RevokeRequests : Begin(r, i, ask)

(* The row belongs to somebody else.                                        *)
BeginForeign(r, i) ==
    /\ request[r].pc = "idle"
    /\ Finish(r, "foreign", "forbidden", i)
    /\ UNCHANGED <<approvals, creationMu, uncounted>>

\* Mutant: the decision overwrites the row as it was read.
Update_Blind(r) ==
    /\ request[r].pc = "update"
    /\ LET row == approvals[request[r].row]
           new == CASE request[r].op = "approve" -> Decide(row, "approved", request[r].with)
                    [] request[r].op = "consume" -> [row EXCEPT !.consumed = TRUE]
                    [] OTHER -> Decide(row, "denied", request[r].with)
       IN  approvals' = [approvals EXCEPT ![request[r].row] = new]
    /\ Finish(r, request[r].op, "ok", request[r].row)
    /\ UNCHANGED <<creationMu, uncounted>>
Update(r) ==
    /\ request[r].pc = "update"
    /\ LET stored == Store(request[r].op, approvals[request[r].row], request[r].with)
       IN  /\ approvals' = [approvals EXCEPT ![request[r].row] = stored.row]
           /\ IF stored.err = "ok" THEN Finish(r, request[r].op, "ok", request[r].row)
                                 ELSE Step(r, "reload")
    /\ UNCHANGED <<creationMu, uncounted>>

Reload(r) ==
    /\ request[r].pc = "reload"
    /\ Finish(r, request[r].op, RaceLost(request[r].op, approvals[request[r].row]),
              request[r].row)
    /\ UNCHANGED <<approvals, creationMu, uncounted>>

-----------------------------------------------------------------------------
(* CreatePendingApproval, under the replica's creationMu.                   *)
LockCreation(r, b, tool) ==
    /\ request[r].pc = "idle"
    /\ creationMu[b] = NoRequest
    /\ Len(approvals) + Cardinality({c \in Brokers : creationMu[c] # NoRequest}) < MaxRows
    /\ creationMu' = [creationMu EXCEPT ![b] = r]
    /\ request' = [request EXCEPT ![r] =
         [Idle EXCEPT !.pc = "find", !.op = "create", !.with = tool, !.at = b]]
    /\ UNCHANGED <<approvals, uncounted>>

Answer(r, err, i) ==
    /\ Finish(r, "create", err, i)
    /\ creationMu' = [creationMu EXCEPT ![request[r].at] = NoRequest]

(* A token bucket that refuses (`limited') makes the service look once more *)
(* before it answers 429.                                                  *)
FindExisting(r, limited) ==
    /\ request[r].pc \in {"find", "again"}
    /\ LET existing == FindPendingByKey(approvals, request[r].with)
       IN  CASE existing # {} -> Answer(r, "existing", CHOOSE i \in existing : TRUE)
             [] existing = {} /\ request[r].pc = "again" -> Answer(r, "rateLimited", 0)
             [] OTHER -> Step(r, IF limited THEN "again" ELSE "count") /\ UNCHANGED creationMu
    /\ UNCHANGED <<approvals, uncounted>>

\* Mutant: one prompt too many is let in.
AtLimit_OffByOne == CountPendingByPrincipalAndAgent(approvals) > MaxPending
AtLimit == CountPendingByPrincipalAndAgent(approvals) >= MaxPending

CountPending(r) ==
    /\ request[r].pc = "count"
    /\ IF AtLimit THEN Answer(r, "rateLimited", 0)
                  ELSE Step(r, "insert") /\ UNCHANGED creationMu
    /\ UNCHANGED <<approvals, uncounted>>

(* A failing count query is logged and the creation goes on.                *)
CountFails(r) ==
    /\ request[r].pc = "count"
    /\ uncounted < MaxUncounted
    /\ uncounted' = uncounted + 1
    /\ Step(r, "insert")
    /\ UNCHANGED <<approvals, creationMu>>

Insert(r) ==
    /\ request[r].pc = "insert"
    /\ LET created == Create(approvals, request[r].with)
       IN  /\ approvals' = created.table
           /\ Answer(r, IF created.id > Len(approvals) THEN "created" ELSE "existing",
                     created.id)
    /\ UNCHANGED uncounted

-----------------------------------------------------------------------------
(* The handler's answer, and the time that passes.                          *)
Return(r) ==
    /\ request[r].pc = "done"
    /\ request' = [request EXCEPT ![r] = Idle]
    /\ UNCHANGED <<approvals, creationMu, uncounted>>

Expire(i) ==
    /\ ~approvals[i].expired
    /\ approvals[i].status = "pending"
    /\ approvals' = [approvals EXCEPT ![i].expired = TRUE]
    /\ UNCHANGED <<request, creationMu, uncounted>>

RecordsNext ==
  /\ UNCHANGED serving
  /\ \/ \E r \in Requests :
           \/ \E i \in DOMAIN approvals :
                 \/ ApproveApproval(r, i) \/ DenyApproval(r, i) \/ ConsumeApproval(r, i)
                 \/ RevokePermanentApproval(r, i) \/ BeginForeign(r, i)
           \/ Update(r) \/ Reload(r)
           \/ \E b \in serving, tool \in Tools : LockCreation(r, b, tool)
           \/ \E limited \in BOOLEAN : FindExisting(r, limited)
           \/ CountPending(r) \/ CountFails(r) \/ Insert(r)
           \/ Return(r)
       \/ \E i \in DOMAIN approvals : Expire(i)

RecordsSpec == RecordsInit /\ [][RecordsNext]_recordsVars

-----------------------------------------------------------------------------
(* The type of the state.                                                   *)
RecordsTypeInvariant ==
    /\ \A i \in DOMAIN approvals :
         approvals[i] \in [tool : Tools, status : {"pending", "approved", "denied"},
                          persistence : Persistences \union {"none"},
                          consumed : BOOLEAN, expired : BOOLEAN]
    /\ \A r \in Requests : request[r].row \in 0 .. Len(approvals)
    /\ creationMu \in [Brokers -> Requests \union {NoRequest}]
    /\ uncounted \in 0 .. MaxUncounted /\ serving \subseteq Brokers

(* However many prompts are requested at once, the pending prompts of a     *)
(* pair exceed max_pending by at most one per further replica and by the    *)
(* creations whose count query failed: creationMu makes count and insert    *)
(* one step within a replica, nothing does across replicas.                *)
PendingBounded ==
    CountPendingByPrincipalAndAgent(approvals)
        <= MaxPending + Cardinality(serving) - 1 + uncounted

(* A creation never hands out a prompt nobody can answer: when it answers,  *)
(* the row it names is pending, unexpired and not retired, also when the    *)
(* deduplication index still held an expired one.                          *)
CreateAnswersOpenPrompt ==
    [][\A r \in Requests :
         request[r].pc # "done" /\ request'[r].op = "create" /\ request'[r].status \in {200, 201}
           => LET row == approvals'[request'[r].row]
              IN  row.status = "pending" /\ ~row.expired /\ ~row.consumed]_recordsVars

(* The status a client reads stays true, whatever raced with the request:   *)
(* 409 only for a resolved prompt, 410 only for one that lapsed, 200 from   *)
(* consume only for a used-up approval, and an approval that exists is      *)
(* never reported missing.                                                 *)
AnswersStayTrue ==
    \A r \in Requests :
        LET row == approvals[request[r].row]
        IN  /\ request[r].status = 409 => row.status # "pending"
            /\ request[r].status = 410 => row.status = "pending" /\ row.expired
            /\ request[r].op = "consume" /\ request[r].status = 200 => row.consumed
            /\ request[r].status # 404

\* What a client is told of the store's answer.
Outcome(op, row, result) ==
    CASE result.err = "ok" -> Status(op, "ok")
      [] result.err = "notFound" -> Status(op, RaceLost(op, row))
      [] OTHER -> 500

(* The two stores are interchangeable: whatever happened to the row since a *)
(* request checked it, both leave the same row and lead to the same answer, *)
(* and both create and list the same prompts.                              *)
StoresAgree ==
    /\ \A r \in Requests : request[r].pc = "update" =>
         LET op  == request[r].op
             row == approvals[request[r].row]
             pg  == Store(op, row, request[r].with)
             mem == MemStore(op, row, request[r].with)
         IN  pg.row = mem.row /\ Outcome(op, row, pg) = Outcome(op, row, mem)
    /\ \A tool \in Tools : Create(approvals, tool) = MemCreate(approvals, tool)
    /\ \A active \in BOOLEAN :
         ListAllActive(approvals, active) = MemListAllActive(approvals, active)

-----------------------------------------------------------------------------
(* Each row, seen from outside.                                             *)
Life(i) ==
    IF i \notin DOMAIN approvals
      THEN "absent"
      ELSE CASE approvals[i].status = "pending" ->
                  IF approvals[i].expired THEN "lapsed" ELSE "open"
             [] approvals[i].status = "approved" ->
                  IF approvals[i].consumed THEN "spent" ELSE approvals[i].persistence
             [] OTHER -> "denied"

\* The life of each row, as ApprovalLifecycle sees it.
Lifecycle ==
    INSTANCE ApprovalLifecycle WITH
        Ids <- 1 .. MaxRows,
        life <- [i \in 1 .. MaxRows |-> Life(i)]

(* The service and its stores implement the abstract lifecycle of an        *)
(* approval: decided at most once, never reopened, only a once approval is  *)
(* ever spent and only a permanent one withdrawn.                          *)
ImplementsLifecycle == Lifecycle!LifecycleSpec
=============================================================================
