-------------------------- MODULE DelegationStore --------------------------
(* The tables behind delegation, permission sets, agents and the grants of   *)
(* one user, as PostgreSQL and the memory store keep them.  Each operation   *)
(* is one transaction or one critical section, so one step: it answers a     *)
(* code and the database it leaves.  Names, descriptions and URLs are left   *)
(* out, and so are the services themselves, which are assumed to stay.       *)
(* "mem" holds the indexes of the memory store, all empty in PostgreSQL.     *)
EXTENDS Naturals, FiniteSets

CONSTANTS PSets, Svcs, ExternalIDs, CanonicalIDs, ClientIDs, ClientURIs, MaxAgents, MaxGrants

None == "none"
AgentIDs == 1..MaxAgents
GrantIDs == 1..MaxGrants
Requirement == {"", "optional", "mandatory"}

SetRow == [canon : CanonicalIDs \union {None}, scopes : [Svcs -> Requirement]]
NoSet == [canon |-> None, scopes |-> [v \in Svcs |-> ""]]

AgentRow == [ext : ExternalIDs \union {None}, canon : CanonicalIDs \union {None},
             client : ClientIDs \union {None}, uris : SUBSET ClientURIs,
             sets : [PSets -> Requirement], reqs : [Svcs -> Requirement], text : {1, 2}]
NoAgent == [ext |-> None, canon |-> None, client |-> None, uris |-> {},
            sets |-> [p \in PSets |-> ""], reqs |-> [v \in Svcs |-> ""], text |-> 1]

GrantRow == [id : {0} \union GrantIDs, entries : [PSets -> SUBSET Svcs], until : {"none", "later", "past"}]
NoGrant == [id |-> 0, entries |-> [p \in PSets |-> {}], until |-> "none"]

Declared(agent) == {p \in PSets : agent.sets[p] # ""}
Granted(grant) == {p \in PSets : grant.entries[p] # {}}
IsActive(grant) == grant # NoGrant /\ grant.until # "past"

NoIndexes == [ext |-> [x \in ExternalIDs |-> 0], canon |-> [n \in CanonicalIDs |-> 0],
              client |-> [k \in ClientIDs |-> {}], uri |-> [u \in ClientURIs |-> 0],
              pair |-> [a \in AgentIDs |-> 0], agent |-> [a \in AgentIDs |-> {}],
              set |-> [n \in CanonicalIDs |-> None]]

Answer(code, d) == [code |-> code, db |-> d]

----------------------------------------------------------------------------
\* PostgreSQL.

\* SELECT ... FOR SHARE on the referenced rows, inside the writing transaction.

verifyPermissionSetExistenceInTx(d, ps) == \A p \in ps : d.sets[p] # NoSet

\* The unique indexes on external_id, canonical_id and client_uri; client_id
\* has none, because agents of the multi-agent mode share it.

SharesKey(e, r) == (e.ext # None /\ e.ext = r.ext) \/ (e.canon # None /\ e.canon = r.canon) \/ e.uris \cap r.uris # {}

Holders(d, e, a) == {o \in AgentIDs \ {a} : d.agents[o] # NoAgent /\ SharesKey(e, d.agents[o])}

pgAgentCreate(d, a, e) ==
    IF ~verifyPermissionSetExistenceInTx(d, Declared(e)) \/ d.agents[a] # NoAgent \/ Holders(d, e, a) # {}
    THEN Answer("conflict", d)
    ELSE Answer("ok", [d EXCEPT !.agents[a] = e])

pgAgentUpdate(d, a, e) ==
    CASE d.agents[a] = NoAgent -> Answer("not_found", d)
      [] d.agents[a] # NoAgent /\ (Holders(d, e, a) # {} \/ ~verifyPermissionSetExistenceInTx(d, Declared(e)))
           -> Answer("conflict", d)
      [] OTHER -> Answer("ok", [d EXCEPT !.agents[a] = e])

\* The foreign key of user_grants cascades.

pgAgentDelete(d, a) == Answer("ok", [d EXCEPT !.agents[a] = NoAgent, !.grants[a] = NoGrant])

ExistsOtherWithClientID(d, k, a) == \E o \in AgentIDs \ {a} : d.agents[o].client = k

GetByExternalID(d, x) == {a \in AgentIDs : d.agents[a].ext = x}

\* INSERT ... ON CONFLICT (principal, agent_id) DO UPDATE: an existing row keeps its identifier.
pgGrantCreate(d, a, g) ==
    CASE ~verifyPermissionSetExistenceInTx(d, Granted(g)) -> Answer("conflict", d)
      [] verifyPermissionSetExistenceInTx(d, Granted(g)) /\ d.agents[a] = NoAgent -> Answer("not_found", d)
      [] OTHER -> Answer("ok", [d EXCEPT !.grants[a] =
                                  [g EXCEPT !.id = IF d.grants[a] = NoGrant THEN g.id ELSE d.grants[a].id]])

pgGrantUpdate(d, a, g) ==
    CASE d.grants[a].id # g.id -> Answer("not_found", d)
      [] d.grants[a].id = g.id /\ ~verifyPermissionSetExistenceInTx(d, Granted(g)) -> Answer("conflict", d)
      [] OTHER -> Answer("ok", [d EXCEPT !.grants[a] = g])

pgGrantDelete(d, a) ==
    IF d.grants[a] = NoGrant THEN Answer("not_found", d) ELSE Answer("ok", [d EXCEPT !.grants[a] = NoGrant])

CountAgentsReferencingPermissionSet(d, p) == Cardinality({a \in AgentIDs : p \in Declared(d.agents[a])})

\* Expired grants do not count.

CountGrantsReferencingPermissionSet(d, p) ==
    Cardinality({a \in AgentIDs : IsActive(d.grants[a]) /\ p \in Granted(d.grants[a])})

SetHolders(d, p, e) == {o \in PSets \ {p} : e.canon # None /\ d.sets[o].canon = e.canon}

pgSetCreate(d, p, e) == IF SetHolders(d, p, e) # {} THEN Answer("conflict", d) ELSE Answer("ok", [d EXCEPT !.sets[p] = e])

\* "keep" leaves the canonical identifier as it is; NULL is None.

pgSetUpdate(d, p, e) ==
    LET row == [e EXCEPT !.canon = IF e.canon = "keep" THEN d.sets[p].canon ELSE e.canon] IN
    CASE d.sets[p] = NoSet -> Answer("not_found", d)
      [] d.sets[p] # NoSet /\ SetHolders(d, p, row) # {} -> Answer("conflict", d)
      [] OTHER -> Answer("ok", [d EXCEPT !.sets[p] = row])

pgSetDelete(d, p) == Answer("ok", [d EXCEPT !.sets[p] = NoSet])

----------------------------------------------------------------------------
\* The memory store: the same tables with hand-kept indexes.

Drop(f, k) == IF k = None THEN f ELSE [f EXCEPT ![k] = 0]
Put(f, k, v) == IF k = None THEN f ELSE [f EXCEPT ![k] = v]
Other(f, k, v) == k # None /\ f[k] \notin {0, v}
DropAll(f, ks) == [k \in DOMAIN f |-> IF k \in ks THEN 0 ELSE f[k]]
PutAll(f, ks, v) == [k \in DOMAIN f |-> IF k \in ks THEN v ELSE f[k]]

checkExternalID(d, a, e) == ~Other(d.mem.ext, e.ext, a)
memKeysFree(d, a, e) ==
    checkExternalID(d, a, e) /\ ~Other(d.mem.canon, e.canon, a) /\ \A u \in e.uris : d.mem.uri[u] \in {0, a}

removeFromClientIDIndex(f, k, a) == IF k = None THEN f ELSE [f EXCEPT ![k] = @ \ {a}]
addToClientIDIndex(f, k, a) == IF k = None THEN f ELSE [f EXCEPT ![k] = @ \union {a}]

memAgentCreate(d, a, e) ==
    IF d.agents[a] # NoAgent \/ ~memKeysFree(d, a, e) THEN Answer("conflict", d)
    ELSE Answer("ok", [d EXCEPT !.agents[a] = e,
            !.mem.ext = Put(@, e.ext, a), !.mem.canon = Put(@, e.canon, a),
            !.mem.client = addToClientIDIndex(@, e.client, a), !.mem.uri = PutAll(@, e.uris, a)])


memAgentUpdate(d, a, e) ==
    LET old == d.agents[a] IN
    CASE old = NoAgent -> Answer("not_found", d)
      [] old # NoAgent /\ ~memKeysFree(d, a, e) -> Answer("conflict", d)
      [] OTHER -> Answer("ok", [d EXCEPT !.agents[a] = e,
            !.mem.ext = Put(Drop(@, old.ext), e.ext, a), !.mem.canon = Put(Drop(@, old.canon), e.canon, a),
            !.mem.client = addToClientIDIndex(removeFromClientIDIndex(@, old.client, a), e.client, a),
            !.mem.uri = PutAll(DropAll(@, old.uris), e.uris, a)])

\* The grants of a deleted agent stay: nothing calls DeleteByAgent.
memAgentDelete(d, a) ==
    LET old == d.agents[a] IN
    Answer("ok", [d EXCEPT !.agents[a] = NoAgent,
        !.mem.ext = Drop(@, old.ext), !.mem.canon = Drop(@, old.canon),
        !.mem.client = removeFromClientIDIndex(@, old.client, a), !.mem.uri = DropAll(@, old.uris)])

memGrantCreate(d, a, g) ==
    LET row == [g EXCEPT !.id = IF d.mem.pair[a] = 0 THEN g.id ELSE d.mem.pair[a]] IN
    Answer("ok", [d EXCEPT !.grants[a] = row, !.mem.pair[a] = row.id, !.mem.agent[a] = @ \union {row.id}])

memGrantUpdate(d, a, g) ==
    IF d.grants[a].id # g.id THEN Answer("not_found", d) ELSE Answer("ok", [d EXCEPT !.grants[a] = g])

removeGrantFromAgentIndex(f, a, i) == [f EXCEPT ![a] = @ \ {i}]

memGrantDelete(d, a) ==
    IF d.mem.pair[a] = 0 THEN Answer("not_found", d)
    ELSE Answer("ok", [d EXCEPT !.grants[a] = NoGrant, !.mem.pair[a] = 0,
                  !.mem.agent = removeGrantFromAgentIndex(@, a, d.mem.pair[a])])

memSetCreate(d, p, e) ==
    IF e.canon # None /\ d.mem.set[e.canon] \notin {None, p} THEN Answer("conflict", d)
    ELSE Answer("ok", [d EXCEPT !.sets[p] = e, !.mem.set = IF e.canon = None THEN @ ELSE [@ EXCEPT ![e.canon] = p]])

\* An entity that keeps its identifier reaches this store with the identifier
\* the handler read, or with none.
memSetUpdate(d, p, e) ==
    LET row == [e EXCEPT !.canon = IF e.canon = "keep" THEN None ELSE e.canon]
        old == d.sets[p].canon
        freed == IF old = None THEN d.mem.set ELSE [d.mem.set EXCEPT ![old] = None]
    IN  CASE d.sets[p] = NoSet -> Answer("not_found", d)
          [] d.sets[p] # NoSet /\ row.canon # None /\ d.mem.set[row.canon] \notin {None, p} -> Answer("conflict", d)
          [] OTHER -> Answer("ok", [d EXCEPT !.sets[p] = row,
                         !.mem.set = IF row.canon = None THEN freed ELSE [freed EXCEPT ![row.canon] = p]])

\* No reference is counted here.
memSetDelete(d, p) ==
    LET old == d.sets[p].canon IN
    Answer("ok", [d EXCEPT !.sets[p] = NoSet, !.mem.set = IF old = None THEN @ ELSE [@ EXCEPT ![old] = None]])

\* What the indexes must be for the rows.
IndexesOf(d) ==
    LET holder(S) == IF S = {} THEN 0 ELSE CHOOSE a \in S : TRUE IN
    [ext |-> [x \in ExternalIDs |-> holder({a \in AgentIDs : d.agents[a].ext = x})],
     canon |-> [n \in CanonicalIDs |-> holder({a \in AgentIDs : d.agents[a].canon = n})],
     client |-> [k \in ClientIDs |-> {a \in AgentIDs : d.agents[a].client = k}],
     uri |-> [u \in ClientURIs |-> holder({a \in AgentIDs : u \in d.agents[a].uris})],
     pair |-> [a \in AgentIDs |-> d.grants[a].id],
     agent |-> [a \in AgentIDs |-> {d.grants[a].id} \ {0}],
     set |-> [n \in CanonicalIDs |-> IF \E p \in PSets : d.sets[p].canon = n
                                     THEN CHOOSE p \in PSets : d.sets[p].canon = n ELSE None]]
=============================================================================
