--------------------------- MODULE PermissionSets ---------------------------
(* The permission-set service of one replica: rows in the store, a cache of  *)
(* them with a time to live, and administrators who change or delete sets    *)
(* while other requests read them.  A read takes what the cache holds,       *)
(* fetches the rest and fills the cache in a later step, so that an          *)
(* invalidation can fall in between; what the replica then serves is what a  *)
(* replica that missed another replica's change serves.                      *)
EXTENDS DelegationStore

CONSTANTS Callers, SetBodies

VARIABLES db, psCache, calls, deployment

setVars == <<psCache, deployment>>
delegationVars == <<db, psCache, calls, deployment>>

NoCall == [op |-> "none"]
Idle(c) == calls[c] = NoCall
Busy(c, op, pc) == calls[c].op = op /\ calls[c].pc = pc
Call(c, r) == calls' = [calls EXCEPT ![c] = r]
Return(c) == Call(c, NoCall)

StoreOp(pg, mem) == IF deployment = "postgres" THEN pg ELSE mem

\* GetByIDs: hits are copied from the cache, misses are read from the rows.
GetByIDs(need) == [p \in PSets |-> IF p \notin need THEN NoSet ELSE IF psCache[p] # NoSet THEN psCache[p] ELSE db.sets[p]]
Fetched(need) == {p \in need : psCache[p] = NoSet /\ db.sets[p] # NoSet}
FillCache(got, fetched) == psCache' = [p \in PSets |-> IF p \in fetched THEN got[p] ELSE psCache[p]]

ValidateIDs(need, got) == \A p \in need : got[p] # NoSet

invalidate(p) == psCache' = [psCache EXCEPT ![p] = NoSet]

\* evictionLoop, or a reader that finds the entry past its time to live.
evictExpired(p) == psCache[p] # NoSet /\ invalidate(p) /\ UNCHANGED <<db, calls, deployment>>

----------------------------------------------------------------------------
\* Administrators.  A body carries "omitted", "null" or a value as canon.

validateCommon(b) == \E v \in Svcs : b.scopes[v] # ""

\* The identifier is fresh: nothing remembers it.
CreateSet(c, p, b) ==
    /\ Idle(c) /\ validateCommon(b) /\ b.canon # "null"
    /\ db.sets[p] = NoSet /\ psCache[p] = NoSet
    /\ \A a \in AgentIDs : p \notin Declared(db.agents[a]) \union Granted(db.grants[a])
    /\ \A o \in Callers : Idle(o)
    /\ LET row == [b EXCEPT !.canon = IF b.canon = "omitted" THEN None ELSE b.canon] IN
       db' = StoreOp(pgSetCreate(db, p, row), memSetCreate(db, p, row)).db
    /\ invalidate(p) /\ UNCHANGED <<calls, deployment>>

\* The handler reads the present set through the cache; without one the answer is 404.
UpdateSet(c, p, b) ==
    /\ Idle(c) /\ validateCommon(b)
    /\ GetByIDs({p})[p] # NoSet
    /\ Call(c, [op |-> "ps_update", pc |-> "fill", ps |-> p, body |-> b, got |-> GetByIDs({p}), fetched |-> Fetched({p})])
    /\ UNCHANGED <<db, setVars>>

UpdateSetFill(c) ==
    /\ Busy(c, "ps_update", "fill") /\ FillCache(calls[c].got, calls[c].fetched)
    /\ LET r == calls[c] IN Call(c, [op |-> "ps_update", pc |-> "write", ps |-> r.ps, body |-> r.body, canon |-> r.got[r.ps].canon])
    /\ UNCHANGED <<db, deployment>>

\* What a canonical_id that the body omits becomes.
UpdatedSet(b, known) ==
    [b EXCEPT !.canon = CASE b.canon = "omitted" /\ known = None -> "keep" [] b.canon = "omitted" /\ known # None -> known
                          [] b.canon = "null" -> None [] OTHER -> b.canon]

\* A rewritten row fails the serializable transaction that has counted already.
Disturbed(p) == [c \in Callers |-> IF Busy(c, "ps_delete", "delete") /\ calls[c].ps = p
                                   THEN [calls[c] EXCEPT !.rewritten = TRUE] ELSE calls[c]]

UpdateSetWrite(c) ==
    LET r == calls[c]
        e == UpdatedSet(r.body, r.canon)
        w == StoreOp(pgSetUpdate(db, r.ps, e), memSetUpdate(db, r.ps, e))
    IN  /\ Busy(c, "ps_update", "write") /\ db' = w.db
        /\ calls' = IF w.code # "ok" THEN [calls EXCEPT ![c] = NoCall]
                    ELSE [Disturbed(r.ps) EXCEPT ![c] = [op |-> "ps_update", pc |-> "invalidate", ps |-> r.ps]]
        /\ UNCHANGED setVars

Invalidate(c) ==
    /\ Busy(c, "ps_update", "invalidate") \/ Busy(c, "ps_delete", "invalidate")
    /\ invalidate(calls[c].ps) /\ Return(c) /\ UNCHANGED <<db, deployment>>

\* The service counts first; with PostgreSQL the repository counts again, in
\* the transaction that deletes.
Unreferenced(p) ==
    CountAgentsReferencingPermissionSet(db, p) = 0 /\ CountGrantsReferencingPermissionSet(db, p) = 0

DeleteSet(c, p) ==
    /\ Idle(c) /\ db.sets[p] # NoSet /\ Unreferenced(p)
    /\ Call(c, [op |-> "ps_delete", pc |-> StoreOp("count", "delete"), ps |-> p, tries |-> 1,
                rewritten |-> FALSE, joined |-> FALSE])
    /\ UNCHANGED <<db, setVars>>

DeleteSetCount(c) ==
    /\ Busy(c, "ps_delete", "count")
    /\ IF Unreferenced(calls[c].ps)
       THEN Call(c, [calls[c] EXCEPT !.pc = "delete", !.joined = FALSE])
       ELSE Return(c)
    /\ UNCHANGED <<db, setVars>>

\* Serialization failures are retried, three attempts in all.
MaxRetries == 3

DeleteSetRow(c) ==
    LET r == calls[c] IN
    /\ Busy(c, "ps_delete", "delete")
    /\ IF r.rewritten /\ deployment = "postgres"
       THEN /\ IF r.tries < MaxRetries
               THEN Call(c, [r EXCEPT !.pc = "count", !.tries = @ + 1, !.rewritten = FALSE]) ELSE Return(c)
            /\ UNCHANGED db
       ELSE db' = StoreOp(pgSetDelete(db, r.ps), memSetDelete(db, r.ps)).db
            /\ Call(c, [op |-> "ps_delete", pc |-> "invalidate", ps |-> r.ps])
    /\ UNCHANGED setVars

\* History: a write that adds a reference to a set while its deletion is past
\* the count joins it.
Joined(refs, cs) == [c \in Callers |-> IF cs[c].op = "ps_delete" /\ cs[c].pc = "delete" /\ cs[c].ps \in refs
                                       THEN [cs[c] EXCEPT !.joined = TRUE] ELSE cs[c]]

SetAdminNext(c) ==
    \/ \E p \in PSets, b \in SetBodies : CreateSet(c, p, b) \/ UpdateSet(c, p, b)
    \/ \E p \in PSets : DeleteSet(c, p)
    \/ UpdateSetFill(c) \/ UpdateSetWrite(c) \/ Invalidate(c) \/ DeleteSetCount(c) \/ DeleteSetRow(c)

----------------------------------------------------------------------------
\* A deletion spares a referenced set: when a row goes while agents or active
\* grants name it, they began to name it after the deletion had counted.  The
\* counts of the service and of the serializable transaction are what is left
\* of the guarantee in this race.
DeleteSparesReferenced ==
    [][\A p \in PSets : (db.sets[p] # NoSet /\ db'.sets[p] = NoSet) =>
          \/ \A a \in AgentIDs : p \notin Declared(db.agents[a]) /\ (IsActive(db.grants[a]) => p \notin Granted(db.grants[a]))
          \/ \E c \in Callers : Busy(c, "ps_delete", "delete") /\ calls[c].ps = p /\ calls[c].joined]_delegationVars
=============================================================================
