--------------------------- MODULE AgentRegistry ---------------------------
(* Agents as administrators create, update, reconcile and delete them.  A    *)
(* request resolves its permission sets, reads and checks, and only then     *)
(* writes, so that other requests fall in between; the unique keys and the   *)
(* locked permission sets of the store decide.  A reconciliation by external *)
(* identifier creates or updates, whichever the store says it must.          *)
EXTENDS PermissionSets

CONSTANT MultiAgent

\* A body: identifiers are "omitted", "null" or a value; the rest as in a row.
ValidBody(b) ==
    /\ \E p \in PSets : b.sets[p] # ""
    /\ b.client \in ClientIDs => b.uris = {}

\* History: a running reconciliation remembers that its agent went away.
Noticed(d, cs) == [c \in Callers |->
    IF cs[c].op = "reconcile" /\ GetByExternalID(db, cs[c].x) # {} /\ GetByExternalID(d, cs[c].x) = {}
    THEN [cs[c] EXCEPT !.removed = TRUE] ELSE cs[c]]

\* The handler converts the permission sets first; a missing one is a 400.
StartAgentCall(c, op, x, a, b) ==
    LET need == Declared(b) IN
    /\ Idle(c) /\ ValidBody(b) /\ ValidateIDs(need, GetByIDs(need))
    /\ Call(c, [op |-> op, pc |-> IF Fetched(need) = {} THEN "read" ELSE "fill", x |-> x, agent |-> a, body |-> b,
                got |-> GetByIDs(need), fetched |-> Fetched(need), row |-> NoAgent,
                removed |-> FALSE, blocked |-> FALSE])
    /\ UNCHANGED <<db, setVars>>

CreateAgent(c, b) == b.client # "null" /\ StartAgentCall(c, "create", None, 0, b)
UpdateAgent(c, a, b) == StartAgentCall(c, "update", None, a, b)

\* The selector and an external_id in the body must agree; client_id null is refused.
ReconcileAgent(c, x, b) ==
    b.ext \in {"omitted", x} /\ b.client # "null" /\ StartAgentCall(c, "reconcile", x, 0, b)

AgentCallFill(c) ==
    /\ calls[c].op \in {"create", "update", "reconcile"} /\ calls[c].pc = "fill"
    /\ FillCache(calls[c].got, calls[c].fetched)
    /\ Call(c, [calls[c] EXCEPT !.pc = "read", !.fetched = {}, !.got = [p \in PSets |-> NoSet]])
    /\ UNCHANGED <<db, deployment>>

----------------------------------------------------------------------------
\* From body to row, and the checks that read the store.

Sent(v) == IF v \in {"omitted", "null"} THEN None ELSE v
ConvertAgent(b) == [b EXCEPT !.ext = Sent(@), !.canon = Sent(@), !.client = Sent(@)]

\* Omitted identities are preserved (ADR 017); a reconciliation cannot clear client_id.
updateCandidate(old, b) ==
    [b EXCEPT !.ext = Sent(@), !.canon = IF @ = "omitted" THEN old.canon ELSE Sent(@),
              !.client = IF @ = "omitted" THEN old.client ELSE Sent(@)]

validateServiceRequirementsCoverage(e) ==
    LET sets == GetByIDs(Declared(e)) IN
    \A v \in Svcs : e.reqs[v] # "" => \E p \in Declared(e) : sets[p].scopes[v] # ""

checkClientIDUniqueness(e, a) == MultiAgent \/ e.client = None \/ ~ExistsOtherWithClientID(db, e.client, a)

Checks(e, a) ==
    CASE e.client # None /\ e.uris # {} -> "validation"
      [] ~(e.client # None /\ e.uris # {}) /\ ~validateServiceRequirementsCoverage(e) -> "validation"
      [] ~(e.client # None /\ e.uris # {}) /\ validateServiceRequirementsCoverage(e) /\ ~checkClientIDUniqueness(e, a)
           -> "conflict"
      [] OTHER -> "ok"

sameDefinition(old, e) == old = e

\* Another agent than the selector's stands in the way, or a set is missing.
Blocked(x, e) ==
    \/ \E o \in AgentIDs : db.agents[o] # NoAgent /\ db.agents[o].ext # x
                           /\ (SharesKey(e, db.agents[o]) \/ (e.client # None /\ e.client = db.agents[o].client))
    \/ \E p \in Declared(e) : db.sets[p] = NoSet

\* What is left of an answered reconciliation.
Answered(r, code, blocked) ==
    [op |-> "reconcile", pc |-> "done", x |-> r.x, answer |-> code, blocked |-> blocked, removed |-> r.removed]
Finish(c, code, blocked) ==
    IF calls[c].op = "reconcile" THEN Call(c, Answered(calls[c], code, blocked)) ELSE Return(c)

\* An agent without service requirements needs no coverage, so no read.
ReadDone(e) ==
    /\ IF \E v \in Svcs : e.reqs[v] # "" THEN FillCache(GetByIDs(Declared(e)), Fetched(Declared(e))) ELSE UNCHANGED psCache
    /\ UNCHANGED <<db, deployment>>

\* reconcileExisting and Update up to the write.
ToUpdate(c, a, pc) ==
    LET r == calls[c]
        old == db.agents[a]
        e == updateCandidate(old, IF r.op = "reconcile" THEN [r.body EXCEPT !.ext = r.x] ELSE r.body)
        ok == Checks(e, a)
    IN  /\ CASE ok # "ok" -> Finish(c, ok, Blocked(r.x, e))
             [] ok = "ok" /\ r.op = "reconcile" /\ sameDefinition(old, e) -> Finish(c, "unchanged", FALSE)
             [] OTHER -> Call(c, [r EXCEPT !.pc = pc, !.agent = a, !.row = e])
        /\ ReadDone(e)

\* reconcileNew and Create up to the write; a taken client_id is a conflict
\* like one the store finds, and makes a reconciliation read again.
ToInsert(c) ==
    LET r == calls[c]
        e == ConvertAgent(IF r.op = "reconcile" THEN [r.body EXCEPT !.ext = r.x] ELSE r.body)
        ok == Checks(e, 0)
    IN  /\ CASE ok = "ok" -> Call(c, [r EXCEPT !.pc = "insert", !.row = e])
             [] ok = "conflict" /\ r.op = "reconcile" -> Call(c, [r EXCEPT !.pc = "again", !.row = NoAgent, !.blocked = Blocked(r.x, e)])
             [] OTHER -> Finish(c, ok, FALSE)
        /\ ReadDone(e)

AgentCallRead(c) ==
    LET r == calls[c]
        held == GetByExternalID(db, r.x)
    IN  /\ r.op \in {"create", "update", "reconcile"} /\ r.pc = "read"
        /\ CASE r.op = "update" /\ db.agents[r.agent] # NoAgent -> ToUpdate(c, r.agent, "commit")
             [] r.op = "update" /\ db.agents[r.agent] = NoAgent -> Return(c) /\ UNCHANGED <<db, setVars>>
             [] r.op = "reconcile" /\ held # {} -> ToUpdate(c, CHOOSE a \in held : TRUE, "commit")
             [] OTHER -> ToInsert(c)

----------------------------------------------------------------------------
\* The writes.

Fresh == CHOOSE a \in AgentIDs : a \notin db.minted /\ \A o \in AgentIDs : o \notin db.minted => a <= o

NewRefs(d) == UNION {Declared(d.agents[a]) \ Declared(db.agents[a]) : a \in AgentIDs}
Written(c, d, r) == db' = d /\ calls' = Joined(NewRefs(d), Noticed(d, [calls EXCEPT ![c] = r]))

AfterWrite(c, code, blocked) ==
    IF calls[c].op = "reconcile" THEN Answered(calls[c], code, blocked) ELSE NoCall

\* Mutant: a lost race for the identity is not tried again.
reconcileNew_Once(c) ==
    LET r == calls[c]
        a == Fresh
        w == StoreOp(pgAgentCreate(db, a, r.row), memAgentCreate(db, a, r.row))
        blocked == Blocked(r.x, r.row)
    IN  /\ db.minted # AgentIDs
        /\ IF w.code = "ok" THEN Written(c, [w.db EXCEPT !.minted = @ \union {a}], AfterWrite(c, "created", FALSE))
           ELSE Written(c, w.db, AfterWrite(c, w.code, blocked))

\* Create, and reconcileNew, which reads once more after any conflict.
reconcileNew(c) ==
    LET r == calls[c]
        a == Fresh
        w == StoreOp(pgAgentCreate(db, a, r.row), memAgentCreate(db, a, r.row))
        blocked == Blocked(r.x, r.row)
    IN  /\ db.minted # AgentIDs
        /\ CASE w.code = "ok" -> Written(c, [w.db EXCEPT !.minted = @ \union {a}], AfterWrite(c, "created", FALSE))
             [] w.code # "ok" /\ r.op = "reconcile" -> Written(c, db, [r EXCEPT !.pc = "again", !.row = NoAgent, !.blocked = blocked])
             [] OTHER -> Written(c, db, NoCall)

AgentInsert(c) ==
    calls[c].op \in {"create", "reconcile"} /\ calls[c].pc = "insert" /\ reconcileNew(c) /\ UNCHANGED setVars

\* The conflict stands when nobody holds the selector.
ReconcileAgain(c) ==
    LET r == calls[c]
        held == GetByExternalID(db, r.x)
    IN  /\ Busy(c, "reconcile", "again")
        /\ IF held = {} THEN Finish(c, "conflict", r.blocked) /\ UNCHANGED <<db, setVars>>
           ELSE ToUpdate(c, CHOOSE a \in held : TRUE, "recommit")

\* persistUpdate; a reconciliation that finds its agent gone creates it, once.
AgentCommit(c) ==
    LET r == calls[c]
        w == StoreOp(pgAgentUpdate(db, r.agent, r.row), memAgentUpdate(db, r.agent, r.row))
        code == IF w.code = "ok" THEN "updated" ELSE w.code
    IN  /\ calls[c].op \in {"update", "reconcile"} /\ r.pc \in {"commit", "recommit"}
        /\ IF r.op = "reconcile" /\ w.code = "not_found"
           THEN IF r.pc = "commit" THEN ToInsert(c)
                ELSE Call(c, Answered(r, "conflict", r.blocked)) /\ UNCHANGED <<db, setVars>>
           ELSE Written(c, w.db, AfterWrite(c, code, Blocked(r.x, r.row))) /\ UNCHANGED setVars

ReconcileDone(c) == Busy(c, "reconcile", "done") /\ Return(c) /\ UNCHANGED <<db, setVars>>

\* The store fails before it writes; a reconciliation does not read again then.
AgentWriteFails(c) ==
    /\ calls[c].op \in {"create", "update", "reconcile"} /\ calls[c].pc \in {"insert", "commit", "recommit"}
    /\ Finish(c, "error", FALSE) /\ UNCHANGED <<db, setVars>>

DeleteAgent(c, a) ==
    LET d == StoreOp(pgAgentDelete(db, a), memAgentDelete(db, a)).db IN
    /\ Idle(c) /\ db.agents[a] # NoAgent
    /\ db' = d /\ calls' = Noticed(d, calls) /\ UNCHANGED setVars

AgentCallNext(c) ==
    \/ AgentCallFill(c) \/ AgentCallRead(c) \/ AgentInsert(c) \/ ReconcileAgain(c) \/ AgentCommit(c) \/ AgentWriteFails(c)
    \/ ReconcileDone(c)

----------------------------------------------------------------------------
\* No two agents share an external identifier, a canonical identifier or a
\* client URI, whatever requests overlap: the store's unique keys hold where
\* the checks of the service, made earlier, may be out of date.
UniqueIdentities ==
    \A a, b \in AgentIDs : (a # b /\ db.agents[a] # NoAgent /\ db.agents[b] # NoAgent) =>
        LET r == db.agents[a]
            s == db.agents[b]
        IN  r.uris \cap s.uris = {} /\ (r.ext = s.ext => r.ext = None) /\ (r.canon = s.canon => r.canon = None)

\* A reconciliation answers a conflict only for a reason of its own: another
\* agent holds one of its keys, a permission set is gone, or the agent it was
\* to reconcile was removed while it ran.  Two first calls for the same agent
\* never make one another fail.
ConflictIsReal ==
    \A c \in Callers : (Busy(c, "reconcile", "done") /\ calls[c].answer = "conflict") =>
        calls[c].blocked \/ calls[c].removed

\* The hand-kept indexes of the memory store follow its rows through every
\* sequence of creations, updates and deletions, so that it refuses and finds
\* exactly what PostgreSQL refuses and finds.
MemoryIndexesMatch == deployment = "memory" => db.mem = IndexesOf(db)

\* With PostgreSQL a row is never written, by whatever request, with a
\* reference to a permission set that is already gone: the cache a request
\* validated against may be stale, the locks of its transaction are not.
WritesReferenceExisting ==
    [][deployment = "postgres" => \A a \in AgentIDs :
          /\ db'.agents[a] # db.agents[a] => \A p \in Declared(db'.agents[a]) : db.sets[p] # NoSet
          /\ db'.grants[a].entries # db.grants[a].entries => \A p \in Granted(db'.grants[a]) : db.sets[p] # NoSet]_delegationVars
=============================================================================
