------------------------------ MODULE Consents ------------------------------
(* The grants of one user: a submission is validated against the agent and   *)
(* the permission sets as they were read, against the user's connected       *)
(* services, and then stored, while administrators change both.  The refresh *)
(* sessions that revocation also ends are the subject of RefreshChains.      *)
EXTENDS AgentRegistry

VARIABLE connected

consentVars == <<delegationVars, connected>>

Mandatory(f) == {k \in DOMAIN f : f[k] = "mandatory"}
Present(f) == {k \in DOMAIN f : f[k] # ""}

----------------------------------------------------------------------------
\* GrantConsent.  A body lists sets ("asked") with the services included in each.

\* The handler refuses a valid_until in the past; an unknown agent is a 404 and
\* an unresolved set an error, before anything is written.
GrantConsent(c, a, b) ==
    /\ Idle(c) /\ db.agents[a] # NoAgent /\ ValidateIDs(b.asked, GetByIDs(b.asked))
    /\ Call(c, [op |-> "grant", pc |-> IF Fetched(b.asked) = {} THEN "validate" ELSE "fill", agent |-> a,
                seen |-> db.agents[a], body |-> b, got |-> GetByIDs(b.asked), fetched |-> Fetched(b.asked)])
    /\ UNCHANGED <<db, setVars, connected>>

GrantFill(c) ==
    /\ Busy(c, "grant", "fill") /\ FillCache(calls[c].got, calls[c].fetched)
    /\ Call(c, [calls[c] EXCEPT !.pc = "validate", !.fetched = {}])
    /\ UNCHANGED <<db, deployment, connected>>

\* Every set is resolved, and every included service is one of its set's.
validateScopeInclusionWithResolved(b, sets) ==
    \A p \in b.asked : sets[p] # NoSet /\ \A v \in b.entries[p] : sets[p].scopes[v] # ""


\* Declared sets only, all mandatory ones, none of these empty; the included
\* services are among those the agent requires, if it requires any, and hold
\* the ones that the requirement or the scope makes mandatory.
validateGrantStructureWithResolved(agent, b, sets) ==
    LET required == Present(agent.reqs)
        valid(p) == {v \in Present(sets[p].scopes) : required = {} \/ v \in required}
        forced(p) == {v \in valid(p) : agent.reqs[v] = "mandatory" \/ sets[p].scopes[v] = "mandatory"}
    IN  /\ b.asked # {} /\ \A p \in b.asked : agent.sets[p] # ""
        /\ \A p \in PSets : agent.sets[p] = "mandatory" => p \in b.asked /\ b.entries[p] # {}
        /\ \A p \in b.asked : b.entries[p] \subseteq valid(p) /\ forced(p) \subseteq b.entries[p]

ValidateSubmission(b, active) == \A p \in b.asked : b.entries[p] \subseteq active

\* UserGrant.Validate: no entry is empty.
ValidGrant(b) == \A p \in b.asked : b.entries[p] # {}

grantMatchesRequest(grant, b) == grant.entries = b.entries /\ grant.until = b.until

\* The second resolution, the validators, and the lookup of the present grant.
GrantValidate(c) ==
    LET r == calls[c]
        sets == GetByIDs(r.body.asked)
        old == db.grants[r.agent]
        ok == /\ validateScopeInclusionWithResolved(r.body, sets)
              /\ validateGrantStructureWithResolved(r.seen, r.body, sets)
              /\ ValidateSubmission(r.body, connected)
        row == [id |-> old.id, entries |-> r.body.entries, until |-> r.body.until]
    IN  /\ Busy(c, "grant", "validate")
        /\ IF ok /\ ValidGrant(r.body) /\ ~(old # NoGrant /\ grantMatchesRequest(old, r.body))
           THEN Call(c, [op |-> "grant", pc |-> "write", agent |-> r.agent, seen |-> r.seen, got |-> sets,
                         row |-> row, active |-> connected])
           ELSE Return(c)
        /\ FillCache(sets, Fetched(r.body.asked)) /\ UNCHANGED <<db, deployment, connected>>

ActiveRefs(grant) == IF IsActive(grant) THEN Granted(grant) ELSE {}
NewGrantRefs(d) == UNION {ActiveRefs(d.grants[a]) \ ActiveRefs(db.grants[a]) : a \in AgentIDs}

GrantWrite(c) ==
    LET r == calls[c]
        fresh == [r.row EXCEPT !.id = db.issued + 1]
        made == StoreOp(pgGrantCreate(db, r.agent, fresh), memGrantCreate(db, r.agent, fresh))
        kept == StoreOp(pgGrantUpdate(db, r.agent, r.row), memGrantUpdate(db, r.agent, r.row))
        w == IF r.row.id = 0 THEN made ELSE kept
        d == [w.db EXCEPT !.issued = IF r.row.id = 0 /\ w.code = "ok" THEN @ + 1 ELSE @]
    IN  /\ Busy(c, "grant", "write") /\ (r.row.id = 0 => db.issued < MaxGrants)
        /\ db' = d /\ calls' = Joined(NewGrantRefs(d), [calls EXCEPT ![c] = NoCall])
        /\ UNCHANGED <<setVars, connected>>

\* The store fails before it writes: the user is told so, nothing is stored.
GrantWriteFails(c) == Busy(c, "grant", "write") /\ Return(c) /\ UNCHANGED <<db, setVars, connected>>

RevokeConsent(c, a) ==
    /\ Idle(c) /\ db.grants[a] # NoGrant
    /\ db' = StoreOp(pgGrantDelete(db, a), memGrantDelete(db, a)).db
    /\ UNCHANGED <<calls, setVars, connected>>

\* Time passes a grant's valid_until.
GrantExpires(a) ==
    /\ db.grants[a].until = "later" /\ db' = [db EXCEPT !.grants[a].until = "past"]
    /\ UNCHANGED <<calls, setVars, connected>>

Reconnect(v) == connected' = (IF v \in connected THEN connected \ {v} ELSE connected \union {v}) /\ UNCHANGED delegationVars

GrantCallNext(c) == GrantFill(c) \/ GrantValidate(c) \/ GrantWrite(c) \/ GrantWriteFails(c)

----------------------------------------------------------------------------
\* What the user sees.

\* GetAgentConsentDetail and the response built from it: the declared sets that
\* resolve, and the services the agent requires, or those of its sets.
resolvePermissionSets(agent) == {p \in Declared(agent) : GetByIDs(Declared(agent))[p] # NoSet}

\* Mutant: the page shows services the agent does not require.
buildResponse_EveryService(agent) ==
    LET sets == GetByIDs(Declared(agent))
        shown == resolvePermissionSets(agent)
    IN [sets |-> [p \in shown |-> Present(sets[p].scopes)], services |-> UNION {Present(sets[p].scopes) : p \in shown}]

buildResponse(agent) ==
    LET sets == GetByIDs(Declared(agent))
        shown == resolvePermissionSets(agent)
    IN [sets |-> [p \in shown |-> Present(sets[p].scopes)],
        services |-> IF Present(agent.reqs) # {} THEN Present(agent.reqs)
                     ELSE UNION {Present(sets[p].scopes) : p \in shown}]

VerifyAgentAccess(a) ==
    CASE db.grants[a] = NoGrant -> "denied" [] db.grants[a].until = "past" -> "expired" [] OTHER -> "ok"

GetAgentDelegations == {a \in AgentIDs : IsActive(db.grants[a]) /\ db.agents[a] # NoAgent}

----------------------------------------------------------------------------
\* The rows, the cache and the running calls are well formed.
ConsentTypeInvariant ==
    /\ db.sets \in [PSets -> SetRow] /\ db.agents \in [AgentIDs -> AgentRow] /\ db.grants \in [AgentIDs -> GrantRow]
    /\ db.minted \subseteq AgentIDs /\ \A a \in AgentIDs : db.agents[a] # NoAgent => a \in db.minted
    /\ psCache \in [PSets -> SetRow] /\ connected \subseteq Svcs
    /\ \A c \in Callers : calls[c].op \in {"none", "ps_update", "ps_delete", "create", "update", "reconcile", "grant"}

\* A grant is written only as the agent and the sets that were read permit it:
\* sets the agent declares, all mandatory ones among them, each with services
\* that the set offers and the agent may use, none of the mandatory ones left
\* out, and all of them connected by the user at the time.
OnlyPermittedGrants ==
    \A c \in Callers : Busy(c, "grant", "write") =>
        LET r == calls[c]
            usable == IF Present(r.seen.reqs) = {} THEN Svcs ELSE Present(r.seen.reqs)
        IN  /\ Granted(r.row) # {}
            /\ Mandatory(r.seen.sets) \subseteq Granted(r.row) /\ Granted(r.row) \subseteq Declared(r.seen)
            /\ \A p \in Granted(r.row) : LET offered == Present(r.got[p].scopes) \cap usable IN
                   /\ r.row.entries[p] \subseteq offered \cap r.active
                   /\ offered \cap (Mandatory(r.seen.reqs) \union Mandatory(r.got[p].scopes)) \subseteq r.row.entries[p]

\* The consent page and the validator agree: a user who connects everything
\* and grants all that the page shows of an agent is not refused, as long as
\* every set that the page marks mandatory shows a service.
FullConsentIsAccepted ==
    \A a \in AgentIDs : db.agents[a] # NoAgent =>
        LET agent == db.agents[a]
            page == buildResponse(agent)
            choice == [p \in PSets |-> IF p \in DOMAIN page.sets THEN page.sets[p] \cap page.services ELSE {}]
            b == [asked |-> {p \in PSets : choice[p] # {}}, entries |-> choice, until |-> "none"]
            sets == GetByIDs(b.asked)
        IN  (Mandatory(agent.sets) \subseteq b.asked /\ b.asked # {}) =>
                /\ validateScopeInclusionWithResolved(b, sets) /\ validateGrantStructureWithResolved(agent, b, sets)
                /\ ValidateSubmission(b, Svcs) /\ ValidGrant(b)

\* With PostgreSQL the list of delegations a user sees is the list of agents
\* that token requests are let through for: no grant outlives its agent.
ListingMatchesAccess ==
    deployment = "postgres" => GetAgentDelegations = {a \in AgentIDs : VerifyAgentAccess(a) = "ok"}
=============================================================================
