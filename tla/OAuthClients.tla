---------------------------- MODULE OAuthClients ----------------------------
(* How the authorization server turns a client_id into an agent: the client     *)
(* resolver, the server mode's acceptance of client types and the client that   *)
(* the fosite storage builds.  An administrator may change the agent, its       *)
(* credential or the hosted client document between any two reads of a request. *)
EXTENDS Naturals, FiniteSets

CONSTANTS
    AgentShapes,       \* the agents an administrator may store
    DocShapes,         \* the documents the client's host may serve
    NoRecord           \* no such agent, document or session

VARIABLES
    broker,            \* the deployment: server mode, CIMD support, upstream server, claim verifier
    agentRow,          \* the stored agent, or NoRecord
    credential,        \* the agent's client secret, "none" when it has none
    document,          \* the client document, as the CIMD service resolves it
    edits              \* how many changes are still made around the requests

clientVars == <<broker, agentRow, credential, document, edits>>

ServerModes == {"proxy", "local", "hybrid"}

\* An agent holding both an upstream client_id and client URIs is ambiguous.
ClientType(a) ==
    CASE a.clientID /\ a.clientURI   -> "ambiguous"
      [] a.clientID /\ ~a.clientURI  -> "proxied"
      [] ~a.clientID /\ a.clientURI  -> "cimd"
      [] ~a.clientID /\ ~a.clientURI -> "local"

\* The three mode strategies; none of them accepts an ambiguous agent.
AcceptsClientType(t) ==
    CASE broker.mode = "proxy"  -> t = "proxied"
      [] broker.mode = "local"  -> t \in {"cimd", "local"}
      [] broker.mode = "hybrid" -> t \in {"proxied", "cimd", "local"}

\* The document travels with the resolution (CIMDMetadataDTO is a copy).
Resolved(a, doc) == [err |-> "", agent |-> a, meta |-> doc]
Unresolved(code) == [err |-> code, agent |-> NoRecord, meta |-> NoRecord]

\* A URL needs CIMD support, an agent that registered it and a document that is
\* available and valid.
resolveCIMD ==
    IF ~broker.cimd THEN {Unresolved("invalid_client")}
    ELSE {Unresolved("server_error")} \union
         (IF agentRow = NoRecord THEN {Unresolved("invalid_client")}
          ELSE IF ~agentRow.clientURI \/ document = NoRecord THEN {Unresolved("invalid_client")}
          ELSE {Resolved(agentRow, document)})

\* An opaque client_id is an agent's UUID; CIMD and ambiguous agents refuse it.
resolveOpaque ==
    {Unresolved("server_error")} \union
    (IF agentRow = NoRecord THEN {Unresolved("invalid_client")}
     ELSE IF ClientType(agentRow) \in {"cimd", "ambiguous"} THEN {Unresolved("invalid_client")}
     ELSE {Resolved(agentRow, NoRecord)})

\* The answers ResolveClient may give now: any lookup may also fail.
ResolveClient(form) == IF form = "url" THEN resolveCIMD ELSE resolveOpaque

\* A private-use callback must be listed by the client and by the agent, a web
\* callback by the client.
IsRegisteredRedirectURI(listed, agent, uri) ==
    uri \in listed /\ (uri = "private" => uri \in agent.uris)

\* "legacy" stands for a URI stored before callbacks were validated on write.
IsValidRedirectURI(uri) == uri \in {"web", "private"}

\* An agent without allowed scopes is not restricted.
IsScopeAllowed(agent, scope) ==
    scope = "offline_access" \/ agent.scopes = {} \/ scope \in agent.scopes

\* The fosite client of a resolution, given what the credential store answers:
\* only a local agent may do without a credential.
GetClient(r, secret) ==
    CASE r.err = "server_error" -> "unavailable"
      [] r.err = "invalid_client" -> "not_found"
      [] r.err = "" /\ r.meta # NoRecord -> "public"
      [] r.err = "" /\ r.meta = NoRecord /\ secret = "unread" -> "unavailable"
      [] r.err = "" /\ r.meta = NoRecord /\ secret = "none" ->
            IF ClientType(r.agent) = "local" THEN "public" ELSE "not_found"
      [] OTHER -> "confidential"

\* The administrator updates or deletes the agent.
AgentIsChanged ==
    /\ edits.agent > 0
    /\ \E a \in AgentShapes \union {NoRecord} : a # agentRow /\ agentRow' = a
    /\ edits' = [edits EXCEPT !.agent = @ - 1]
    /\ UNCHANGED <<broker, credential, document>>

\* Credentials are generated anew, or revoked.
CredentialIsChanged ==
    /\ edits.credential > 0
    /\ \E s \in {"none", "old", "new"} : s # credential /\ credential' = s
    /\ edits' = [edits EXCEPT !.credential = @ - 1]
    /\ UNCHANGED <<broker, agentRow, document>>

\* The cached document expires and the host's present one takes its place.
DocumentIsChanged ==
    /\ edits.document > 0
    /\ \E d \in DocShapes : d # document /\ document' = d
    /\ edits' = [edits EXCEPT !.document = @ - 1]
    /\ UNCHANGED <<broker, agentRow, credential>>

ClientInit(config, agent, secret, doc, bounds) ==
    /\ broker = config
    /\ agentRow = agent
    /\ credential = secret
    /\ document = doc
    /\ edits = bounds
=============================================================================
