--------------------------- MODULE ProviderStore ---------------------------
(* The two stores of third-party OAuth2 services, PostgreSQL and memory, as  *)
(* operations on a table of rows.  A row of version 0 is absent.  Names,     *)
(* scopes and endpoints are left out, and so are canonical identifiers, kept *)
(* unique by an index like the one on registered clients; issuer and         *)
(* audience are kept, because user sessions are bound to them.  Every        *)
(* PostgreSQL operation on a service locks the service's row FOR UPDATE, the *)
(* memory store holds its mutex and the issuer-session gate, and the         *)
(* insertion of a session takes the row FOR SHARE: each operation is one     *)
(* step.                                                                     *)
EXTENDS Naturals

CONSTANTS Services, Issuers, URIs, Clients

NoURI == "no_uri"
NoIssuer == "no_issuer"
NoClient == "no_client"

ProviderRow == [version : Nat, url : URIs \union {NoURI}, issuer : Issuers \union {NoIssuer},
        audience : URIs \union {NoURI}, pinned : BOOLEAN, method : {"", "cimd", "dcr"},
        client : Clients \union Services \union {NoClient}, resources : SUBSET URIs,
        attempt : Nat, success : Nat, reason : {"", "discovery", "duplicate", "sessions"}]

NoRow == [version |-> 0, url |-> NoURI, issuer |-> NoIssuer, audience |-> NoURI, pinned |-> FALSE,
          method |-> "", client |-> NoClient, resources |-> {}, attempt |-> 0, success |-> 0,
          reason |-> ""]

Stored(t, s) == t[s].version > 0
Applied(t) == [code |-> "ok", table |-> t]
Refused(t, code) == [code |-> code, table |-> t]

SameDCRIdentity(e, r) == e.method = "dcr" /\ r.method = "dcr" /\ e.issuer = r.issuer /\ e.client = r.client

Duplicate(t, s, e) == \E o \in Services \ {s} : Stored(t, o) /\ SameDCRIdentity(e, t[o])


Owned(t, s, uris) == \E o \in Services \ {s} : uris \cap t[o].resources # {}

----------------------------------------------------------------------------
\* PostgreSQL.  "e" is the entity the service layer hands over; its field
\* "params" is the authorization parameter "resource", "omitted" when the
\* administrator sent no parameters and NoURI when they sent none of that name.

pgCreate(t, s, e) ==
    IF Stored(t, s) \/ Duplicate(t, s, e) THEN Refused(t, "duplicate")
    ELSE IF Owned(t, s, e.resources) THEN Refused(t, "owned")
    ELSE Applied([t EXCEPT ![s] = [version |-> 1, url |-> e.url, issuer |-> e.issuer, audience |-> e.params,
                   pinned |-> e.pinned, method |-> e.method, client |-> e.client, resources |-> e.resources,
                   attempt |-> e.at, success |-> e.at, reason |-> ""]])

\* The parameters the UPDATE stores: kept when omitted, except that a derived
\* audience follows the resource URL.
pgAudience(p, e) ==
    LET pinned == IF e.params = "omitted" THEN p.pinned ELSE e.pinned /\ e.params # NoURI
        derives == e.url # NoURI /\ ~pinned /\ e.params \in {"omitted", NoURI}
    IN [pinned |-> e.url # NoURI /\ pinned,
        audience |-> IF derives THEN e.url ELSE IF e.params = "omitted" THEN p.audience ELSE e.params]

pgUpdate(t, live, s, e, expected) ==
    LET p == t[s]
        a == pgAudience(p, e)
        bound == p.url # NoURI \/ e.url # NoURI
        discovered == e.url # NoURI
    IN  IF ~Stored(t, s) THEN Refused(t, "not_found")
        ELSE IF p.version # expected THEN Refused(t, "stale")
        ELSE IF bound /\ p.issuer # e.issuer /\ live[s] THEN Refused(t, "issuer_sessions")
        ELSE IF bound /\ p.audience # a.audience /\ live[s] THEN Refused(t, "resource_sessions")
        ELSE IF discovered /\ p.url # NoURI /\ ~(p.attempt < e.at) THEN Refused(t, "stale")
        ELSE IF Duplicate(t, s, e) THEN Refused(t, "duplicate")
        ELSE IF Owned(t, s, e.resources) THEN Refused(t, "owned")
        ELSE Applied([t EXCEPT ![s] = [version |-> p.version + 1, url |-> e.url, issuer |-> e.issuer,
                   audience |-> a.audience, pinned |-> a.pinned, method |-> e.method, client |-> e.client,
                   resources |-> e.resources, attempt |-> e.at, success |-> e.at, reason |-> ""]])

\* The foreign key of user_sessions restricts the deletion; references from
\* agents, grants and permission sets are not part of this module.
pgDelete(t, live, s) ==
    IF Stored(t, s) /\ live[s] THEN Refused(t, "sessions") ELSE Applied([t EXCEPT ![s] = NoRow])

\* A change of the resource set bumps the version of the service.
pgMutate(t, s, uris) ==
    Applied(IF uris = t[s].resources THEN t
         ELSE [t EXCEPT ![s].resources = uris, ![s].version = @ + 1])

pgAdd(t, s, u) ==
    IF ~Stored(t, s) THEN Refused(t, "not_found")
    ELSE IF Owned(t, s, {u}) THEN Refused(t, "owned")
    ELSE pgMutate(t, s, t[s].resources \union {u})

pgRemove(t, s, u) ==
    IF ~Stored(t, s) \/ u \notin t[s].resources THEN Refused(t, "not_found")
    ELSE pgMutate(t, s, t[s].resources \ {u})

\* The UPDATE of the resource's primary key fails when any service, this one
\* included, holds the target.
pgRename(t, s, u, v) ==
    IF ~Stored(t, s) \/ u \notin t[s].resources THEN Refused(t, "not_found")
    ELSE IF u # v /\ (v \in t[s].resources \/ Owned(t, s, {v})) THEN Refused(t, "owned")
    ELSE pgMutate(t, s, (t[s].resources \ {u}) \union {v})

\* Only the status of a still-current, discovery-backed row is written; the
\* version stays, so that an administrator's If-Match remains valid.
pgRecordDiscoveryFailure(t, s, expected, at, reason) ==
    LET p == t[s] IN
    IF Stored(t, s) /\ p.version = expected /\ p.url # NoURI /\ p.attempt < at /\ p.success < at
    THEN Applied([t EXCEPT ![s].attempt = at, ![s].reason = reason])
    ELSE Refused(t, "stale")

pgFindByProtectedResource(t, u) == {s \in Services : u \in t[s].resources}

----------------------------------------------------------------------------
\* The memory store.

MemCreateProvider(t, s, e) ==
    CASE Stored(t, s) \/ Duplicate(t, s, e) -> Refused(t, "duplicate")
      [] ~(Stored(t, s) \/ Duplicate(t, s, e)) /\ Owned(t, s, e.resources) -> Refused(t, "owned")
      [] OTHER ->
          Applied([t EXCEPT ![s] = [version |-> 1, url |-> e.url, issuer |-> e.issuer, audience |-> e.params,
                   pinned |-> e.pinned, method |-> e.method, client |-> e.client, resources |-> e.resources,
                   attempt |-> e.at, success |-> e.at, reason |-> ""]])

MemAudience(p, e) ==
    LET omitted == e.params = "omitted"
        explicit == IF e.url = NoURI \/ e.params = NoURI THEN FALSE ELSE IF omitted THEN p.pinned ELSE e.pinned
        derive == e.url # NoURI /\ (IF omitted THEN ~explicit ELSE e.params = NoURI)
    IN [pinned |-> explicit,
        audience |-> IF derive THEN e.url ELSE IF omitted THEN p.audience ELSE e.params]

\* The attempt is compared before the sessions are counted; PostgreSQL
\* compares it in the final UPDATE.
MemUpdate(t, live, s, e, expected) ==
    LET p == t[s]
        a == MemAudience(p, e)
        issuerChanged == e.issuer # p.issuer
        resourceChanged == a.audience # p.audience
        blocked == (issuerChanged \/ resourceChanged) /\ (p.url # NoURI \/ e.url # NoURI) /\ live[s]
        outdated == e.url # NoURI /\ e.at # 0 /\ p.attempt # 0 /\ e.at <= p.attempt
    IN  IF ~Stored(t, s) THEN Refused(t, "not_found")
        ELSE IF p.version # expected \/ outdated THEN Refused(t, "stale")
        ELSE IF blocked THEN Refused(t, IF issuerChanged THEN "issuer_sessions" ELSE "resource_sessions")
        ELSE IF Duplicate(t, s, e) THEN Refused(t, "duplicate")
        ELSE IF Owned(t, s, e.resources) THEN Refused(t, "owned")
        ELSE Applied([t EXCEPT ![s] = [version |-> p.version + 1, url |-> e.url, issuer |-> e.issuer,
                   audience |-> a.audience, pinned |-> a.pinned, method |-> e.method, client |-> e.client,
                   resources |-> e.resources, attempt |-> e.at, success |-> e.at, reason |-> ""]])

MemDelete(t, live, s) ==
    IF Stored(t, s) /\ live[s] THEN Refused(t, "sessions")
    ELSE Applied([o \in Services |-> IF o = s THEN NoRow ELSE t[o]])

MemAdd(t, s, u) ==
    CASE ~Stored(t, s) -> Refused(t, "not_found")
      [] Stored(t, s) /\ Owned(t, s, {u}) -> Refused(t, "owned")
      [] Stored(t, s) /\ u \in t[s].resources -> Applied(t)
      [] OTHER -> Applied([t EXCEPT ![s].resources = @ \union {u}, ![s].version = @ + 1])

MemRemove(t, s, u) ==
    IF Stored(t, s) /\ u \in t[s].resources
    THEN Applied([t EXCEPT ![s].resources = @ \ {u}, ![s].version = @ + 1])
    ELSE Refused(t, "not_found")


MemRename(t, s, u, v) ==
    IF ~Stored(t, s) \/ u \notin t[s].resources THEN Refused(t, "not_found")
    ELSE IF u = v THEN Applied(t)
    ELSE IF \E o \in Services : v \in t[o].resources THEN Refused(t, "owned")
    ELSE Applied([t EXCEPT ![s].resources = (@ \ {u}) \union {v}, ![s].version = @ + 1])

MemRecordDiscoveryFailure(t, s, expected, at, reason) ==
    LET p == t[s]
        current == p.version = expected /\ p.url # NoURI
    IN  IF ~Stored(t, s) THEN Refused(t, "not_found")
        ELSE IF ~current \/ p.attempt = 0 \/ p.success = 0 \/ at <= p.attempt \/ at <= p.success
        THEN Refused(t, "stale")
        ELSE Applied([t EXCEPT ![s] = [p EXCEPT !.attempt = at, !.reason = reason]])

----------------------------------------------------------------------------
\* Insertion of a user session, in both stores: the binding the authorization
\* request was made for must still be the service's.
BindingOf(r) == IF r.url = NoURI THEN [issuer |-> NoIssuer, audience |-> NoURI]
                ELSE [issuer |-> r.issuer, audience |-> r.audience]

pgMatches(t, s, b) ==
    /\ Stored(t, s)
    /\ \/ t[s].url = NoURI /\ b.issuer = NoIssuer /\ b.audience = NoURI
       \/ /\ t[s].url # NoURI /\ b.issuer # NoIssuer /\ b.audience # NoURI
          /\ t[s].issuer = b.issuer /\ t[s].audience = b.audience

MemMatches(t, s, b) == Stored(t, s) /\ b = BindingOf(t[s])
============================================================================
