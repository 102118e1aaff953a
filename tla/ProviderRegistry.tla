-------------------------- MODULE ProviderRegistry --------------------------
(* Administration of third-party OAuth2 services.  Administrators create,    *)
(* update and delete services and edit their protected resources at the same *)
(* time; an update of a discovery-backed service reads the row, contacts the *)
(* protected resource and its authorization server, and writes back what it  *)
(* found, or why it failed.  Meanwhile users authorize the services, and the *)
(* sessions they obtain are bound to an issuer and an audience.              *)
EXTENDS ProviderStore, FiniteSets

\* Bodies holds what an administrator may send: the discovery resource (NoURI
\* for manual endpoints), the issuer, the "resource" parameter ("omitted" for
\* none at all), and, with "sends", a full set of protected resources.
CONSTANTS Admins, Bodies, MaxVersion, MaxClock

VARIABLES table,     \* thirdparty_oauth2_services and service_protected_resources
          sessions,  \* per service, the binding of the user's session
          flows,     \* per service, the authorization the user has under way
          clock,     \* time.Now()
          work       \* per administrator, the request being served

registryVars == <<table, sessions, flows, clock, work>>

NoBinding == [issuer |-> "none", audience |-> NoURI]
NoFlow == [stage |-> "none", binding |-> NoBinding]
live == [s \in Services |-> sessions[s] # NoBinding]

NoWork == [pc |-> "idle", op |-> "none", svc |-> "none", url |-> NoURI, issuer |-> NoIssuer,
         params |-> NoURI, pinned |-> FALSE, method |-> "", client |-> NoClient, resources |-> {},
         sends |-> FALSE, expected |-> 0, seen |-> 0, at |-> 0, moved |-> FALSE, turned |-> FALSE, reason |-> ""]

RegistryInit ==
    /\ table = [s \in Services |-> NoRow]
    /\ sessions = [s \in Services |-> NoBinding]
    /\ flows = [s \in Services |-> NoFlow]
    /\ clock = 1
    /\ work = [a \in Admins |-> NoWork]

----------------------------------------------------------------------------

\* The parameters of a discovered service always carry its audience.
setEffectiveDiscoveryResource(r) ==
    [pinned |-> r.params \in URIs, params |-> IF r.params \in URIs THEN r.params ELSE r.url]

\* The entity an update is about to store, from the row read and the request.
prepareUpdate(s, r, match) ==
    LET p == table[s] IN
    [NoWork EXCEPT !.op = "update", !.svc = s, !.url = r.url, !.sends = r.sends,
                 !.issuer = IF r.url # NoURI /\ r.issuer = NoIssuer THEN p.issuer ELSE r.issuer,
                 !.params = IF r.url = NoURI THEN r.params
                            ELSE IF r.params = "omitted" THEN IF p.pinned THEN p.audience ELSE r.url
                            ELSE setEffectiveDiscoveryResource(r).params,
                 !.pinned = IF r.params = "omitted" THEN r.url # NoURI /\ p.pinned ELSE r.url # NoURI /\ r.params \in URIs,
                 !.method = IF r.url # NoURI THEN p.method ELSE "",
                 !.client = IF r.url # NoURI THEN p.client ELSE s,
                 !.resources = IF r.sends THEN r.set ELSE p.resources,
                 !.expected = IF r.sends THEN match ELSE p.version,
                 !.seen = p.version]

\* PUT /api/services/{id}.  An unknown service, and manual endpoints turned
\* into discovery, are refused without effect.  Replacing the resource set
\* takes the version the administrator read before.
UpdateService(a) ==
    \E s \in Services, r \in Bodies :
        /\ work[a].pc = "idle" /\ Stored(table, s) /\ table[s].version < MaxVersion
        /\ r.url # NoURI => table[s].url # NoURI
        /\ r.url = NoURI => r.issuer # NoIssuer
        /\ \E match \in IF r.sends THEN 1..table[s].version ELSE {table[s].version} :
              LET e == prepareUpdate(s, r, match) IN
              work' = [work EXCEPT ![a] =
                  [e EXCEPT !.pc = IF r.url = NoURI THEN "ready" ELSE "loaded",
                            !.moved = r.url # NoURI /\ e.issuer # table[s].issuer,
                            !.turned = r.url # NoURI /\ e.params # table[s].audience]]
        /\ UNCHANGED <<table, sessions, flows, clock>>

\* An issuer or audience change first requires that no user holds a session.
CountByService(a) ==
    LET w == work[a] IN
    /\ w.pc = "loaded"
    /\ work' = [work EXCEPT ![a] =
           IF (w.moved \/ w.turned) /\ live[w.svc]
           THEN [w EXCEPT !.pc = "failing", !.at = clock, !.reason = "sessions"]
           ELSE [w EXCEPT !.pc = "discovering"]]
    /\ UNCHANGED <<table, sessions, flows, clock>>

\* POST of a new service.
CreateService(a) ==
    \E s \in Services, r \in Bodies :
        /\ work[a].pc = "idle" /\ ~Stored(table, s)
        /\ flows[s] = NoFlow /\ \A b \in Admins : work[b].pc # "idle" => work[b].svc # s   \* a fresh identifier
        /\ r.url = NoURI => r.issuer # NoIssuer
        /\ work' = [work EXCEPT ![a] =
               [NoWork EXCEPT !.pc = IF r.url = NoURI THEN "ready" ELSE "discovering", !.op = "create", !.svc = s,
                            !.url = r.url, !.issuer = r.issuer,
                            !.params = IF r.url # NoURI THEN setEffectiveDiscoveryResource(r).params
                                       ELSE IF r.params = "omitted" THEN NoURI ELSE r.params,
                            !.pinned = r.url # NoURI /\ setEffectiveDiscoveryResource(r).pinned,
                            !.client = IF r.url = NoURI THEN s ELSE NoClient,
                            !.resources = r.set]]
        /\ UNCHANGED <<table, sessions, flows, clock>>


\* The client a discovery settles on: the same one as before, except that a
\* dynamically registered client is registered anew with a new issuer.
SelectedClient(w) ==
    IF w.op = "create"
    THEN {[method |-> "cimd", client |-> w.svc]} \union {[method |-> "dcr", client |-> c] : c \in Clients}
    ELSE IF w.method = "dcr" /\ w.moved THEN {[method |-> "dcr", client |-> c] : c \in Clients}
    ELSE {[method |-> w.method, client |-> w.client]}

\* The metadata was read and the client selected before the deadline.
Discovered(a) ==
    LET w == work[a] IN
    /\ w.pc = "discovering"
    /\ \E sel \in SelectedClient(w), i \in IF w.issuer = NoIssuer THEN Issuers ELSE {w.issuer} :
          work' = [work EXCEPT ![a] = [w EXCEPT !.pc = "ready", !.issuer = i, !.method = sel.method,
                                                !.client = sel.client, !.at = clock]]
    /\ UNCHANGED <<table, sessions, flows, clock>>

\* Metadata or registration failed, timed out, or no longer offers the client's
\* method.  Only an update has a row to record the failure in.
discoveryFailure(a) ==
    LET w == work[a] IN
    /\ w.pc = "discovering"
    /\ work' = [work EXCEPT ![a] = IF w.op = "create" THEN NoWork
                                   ELSE [w EXCEPT !.pc = "failing", !.at = clock, !.reason = "discovery"]]
    /\ UNCHANGED <<table, sessions, flows, clock>>

\* The branch key and the encryption of the secret lie between discovery and
\* the insertion.
StoreCreated(a) ==
    LET w == work[a] IN
    /\ w.pc = "ready" /\ w.op = "create"
    /\ table' = pgCreate(table, w.svc, w).table
    /\ work' = [work EXCEPT ![a] = NoWork]
    /\ UNCHANGED <<sessions, flows, clock>>


\* A discovery update refused for a duplicate client or for the sessions is
\* recorded as a failed attempt.
StoreUpdated(a) ==
    LET w == work[a]
        result == pgUpdate(table, live, w.svc, w, w.expected)
        recorded == w.url # NoURI /\ result.code \in {"duplicate", "issuer_sessions", "resource_sessions"}
    IN  /\ w.pc = "ready" /\ w.op = "update"
        /\ table' = result.table
        /\ work' = [work EXCEPT ![a] =
               IF recorded
               THEN [w EXCEPT !.pc = "failing", !.at = clock,
                              !.reason = IF result.code = "duplicate" THEN "duplicate" ELSE "sessions"]
               ELSE NoWork]
        /\ UNCHANGED <<sessions, flows, clock>>


\* A conflict means that a later write made the status obsolete; it is ignored.
recordFailedDiscoveryUpdate(a) ==
    LET w == work[a] IN
    /\ w.pc = "failing"
    /\ table' = pgRecordDiscoveryFailure(table, w.svc, w.seen, w.at, w.reason).table
    /\ work' = [work EXCEPT ![a] = NoWork]
    /\ UNCHANGED <<sessions, flows, clock>>

\* The administrator disconnects, or the branch key or encryption fails.
Disconnect(a) ==
    /\ work[a].pc # "idle"
    /\ work' = [work EXCEPT ![a] = NoWork]
    /\ UNCHANGED <<table, sessions, flows, clock>>

DeleteService(s) ==
    /\ Stored(table, s)
    /\ table' = pgDelete(table, live, s).table
    /\ UNCHANGED <<sessions, flows, clock, work>>

AddProtectedResource(s, u) ==
    /\ table[s].version < MaxVersion
    /\ table' = pgAdd(table, s, u).table
    /\ UNCHANGED <<sessions, flows, clock, work>>

RemoveProtectedResource(s, u) ==
    /\ table[s].version < MaxVersion
    /\ table' = pgRemove(table, s, u).table
    /\ UNCHANGED <<sessions, flows, clock, work>>

RenameProtectedResource(s, u, v) ==
    /\ table[s].version < MaxVersion
    /\ table' = pgRename(table, s, u, v).table
    /\ UNCHANGED <<sessions, flows, clock, work>>

----------------------------------------------------------------------------
\* A user authorizes a service: the state token carries the binding.
Authorize(s) ==
    /\ Stored(table, s) /\ flows[s] = NoFlow
    /\ flows' = [flows EXCEPT ![s] = [stage |-> "authorizing", binding |-> BindingOf(table[s])]]
    /\ UNCHANGED <<table, sessions, clock, work>>

\* The callback compares the binding with the service before it spends the code.
HandleCallback(s) ==
    /\ flows[s].stage = "authorizing"
    /\ flows' = [flows EXCEPT ![s] = IF pgMatches(table, s, @.binding) THEN [@ EXCEPT !.stage = "exchanging"] ELSE NoFlow]
    /\ UNCHANGED <<table, sessions, clock, work>>

\* Mutant: the insertion does not look at the service again.
CreateSession_Trusting(s) ==
    /\ flows[s].stage = "exchanging"
    /\ sessions' = [sessions EXCEPT ![s] = flows[s].binding]
    /\ flows' = [flows EXCEPT ![s] = NoFlow]
    /\ UNCHANGED <<table, clock, work>>

\* The exchange over, the session is inserted, if the binding still holds.
CreateSession(s) ==
    /\ flows[s].stage = "exchanging"
    /\ sessions' = [sessions EXCEPT ![s] = IF pgMatches(table, s, flows[s].binding) THEN flows[s].binding ELSE @]
    /\ flows' = [flows EXCEPT ![s] = NoFlow]
    /\ UNCHANGED <<table, clock, work>>

TerminateSession(s) ==
    /\ live[s]
    /\ sessions' = [sessions EXCEPT ![s] = NoBinding]
    /\ UNCHANGED <<table, flows, clock, work>>

RegistryTick ==
    /\ clock < MaxClock
    /\ clock' = clock + 1
    /\ UNCHANGED <<table, sessions, flows, work>>

AdminNext(a) ==
    \/ UpdateService(a) \/ CountByService(a) \/ CreateService(a) \/ Discovered(a)
    \/ discoveryFailure(a) \/ StoreCreated(a) \/ StoreUpdated(a) \/ recordFailedDiscoveryUpdate(a) \/ Disconnect(a)

ResourceNext ==
    \/ \E s \in Services, u \in URIs : AddProtectedResource(s, u) \/ RemoveProtectedResource(s, u)
    \/ \E s \in Services, u, v \in URIs : RenameProtectedResource(s, u, v)
    \/ \E s \in Services : DeleteService(s)

UserNext == \E s \in Services : Authorize(s) \/ HandleCallback(s) \/ CreateSession(s) \/ TerminateSession(s)

RegistryNext == (\E a \in Admins : AdminNext(a)) \/ ResourceNext \/ UserNext \/ RegistryTick

----------------------------------------------------------------------------
\* Every row, session and request has its type.
RegistryTypeInvariant ==
    /\ table \in [Services -> ProviderRow]
    /\ \A s \in Services : sessions[s].issuer \in Issuers \union {NoIssuer, "none"} /\ sessions[s].audience \in URIs \union {NoURI}
    /\ \A a \in Admins : work[a].pc \in {"idle", "loaded", "discovering", "ready", "failing"}

\* A discovery-backed service never moves away under its users: every session
\* it has was obtained from the issuer, and for the audience, it has now,
\* although issuer changes, callbacks and insertions interleave.
SessionsMatchProvider ==
    \A s \in Services : table[s].url # NoURI /\ live[s] => sessions[s] = BindingOf(table[s])

\* An update that sends no protected_resources stores the set it read at its
\* start, yet never undoes an addition, removal or renaming made since.
UpdateKeepsResources ==
    [][\A a \in Admins : work[a].pc = "ready" /\ work'[a].pc = "idle" /\ work[a].op = "update" /\ ~work[a].sends
          => table'[work[a].svc].resources = table[work[a].svc].resources]_registryVars

\* The discovery status moves forward only: no attempt that completed earlier
\* replaces the outcome of a later one, and a failure is newer than the success
\* it is shown with.
DiscoveryStatusMovesForward ==
    [][\A s \in Services : Stored(table, s) /\ table[s].url # NoURI /\ Stored(table', s) /\ table'[s].url # NoURI
          => /\ table[s].attempt <= table'[s].attempt /\ table[s].success <= table'[s].success
             /\ table[s].attempt = table'[s].attempt => table[s].reason = table'[s].reason
             /\ table'[s].reason # "" => table'[s].success < table'[s].attempt]_registryVars

\* A discovery-backed service keeps its client: the method never changes, and
\* the registered client only together with the issuer.
ClientFollowsIssuer ==
    [][\A s \in Services : table[s].url # NoURI /\ table'[s].url # NoURI
          => /\ table[s].method = table'[s].method
             /\ table[s].issuer = table'[s].issuer => table[s].client = table'[s].client]_registryVars

\* A protected resource leads to one service, and a registered client at an
\* issuer belongs to one service.
OneOwner ==
    /\ \A u \in URIs : Cardinality(pgFindByProtectedResource(table, u)) <= 1
    /\ \A s, o \in Services : s # o => ~SameDCRIdentity(table[s], table[o])

ErrorKind(code) == IF code \in {"ok", "not_found"} THEN code ELSE "conflict"
SameOutcome(x, y) == x.table = y.table /\ ErrorKind(x.code) = ErrorKind(y.code)

\* The memory store answers every operation that could come next with the rows
\* and the kind of error PostgreSQL gives.  (A failure recorded for a deleted
\* service is a conflict there and not found here; the rows agree.)
ProviderStoresAgree ==
    /\ \A a \in Admins : LET w == work[a] IN
          /\ w.pc = "ready" /\ w.op = "create" => SameOutcome(pgCreate(table, w.svc, w), MemCreateProvider(table, w.svc, w))
          /\ w.pc = "ready" /\ w.op = "update" =>
                SameOutcome(pgUpdate(table, live, w.svc, w, w.expected), MemUpdate(table, live, w.svc, w, w.expected))
          /\ w.pc = "failing" =>
                pgRecordDiscoveryFailure(table, w.svc, w.seen, w.at, w.reason).table
                = MemRecordDiscoveryFailure(table, w.svc, w.seen, w.at, w.reason).table
    /\ \A s \in Services :
          /\ SameOutcome(pgDelete(table, live, s), MemDelete(table, live, s))
          /\ flows[s] # NoFlow => (pgMatches(table, s, flows[s].binding) <=> MemMatches(table, s, flows[s].binding))
          /\ \A u, v \in URIs : /\ SameOutcome(pgAdd(table, s, u), MemAdd(table, s, u))
                                /\ SameOutcome(pgRemove(table, s, u), MemRemove(table, s, u))
                                /\ SameOutcome(pgRename(table, s, u, v), MemRename(table, s, u, v))
=============================================================================
