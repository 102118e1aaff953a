--------------------------- MODULE Authorization ----------------------------
(* GET /oauth2/authorize for one user and one client: the handler, the domain's *)
(* HandleAuthorization (client, callback, scopes, grant, sessions, mandatory    *)
(* requirements) and the proceed strategies.  One step per read of a store, so  *)
(* that the agent, the grant and the sessions may change between the reads.     *)
EXTENDS OAuthClients

CONSTANTS
    AuthServices,      \* the third-party services
    GrantShapes        \* the grants the user may give: [sets, services, active]

\* Agents require, and grants include, services there are.
OfServices(agents, grants) ==
    /\ \A a \in agents \ {NoRecord} : a.mandatory \subseteq AuthServices
    /\ \A g \in grants \ {NoRecord} : g.services \subseteq AuthServices
ASSUME ShapesOfServices == OfServices(AgentShapes, GrantShapes)

VARIABLES
    areq,              \* the authorization request in flight
    userGrant,         \* the user's grant to the agent, or NoRecord
    userSession,       \* per service the user's session: missing, reauth, narrow or full
    held               \* history: what has been true at some moment of the request

authVars == <<clientVars, areq, userGrant, userSession, held>>

\* narrow: usable, but without the scopes a mandatory requirement asks for.
SessionStates == {"missing", "reauth", "narrow", "full"}

NoRequest == [stage |-> "none", form |-> "", uri |-> "", scope |-> "", rtype |-> "", agent |-> NoRecord,
              meta |-> NoRecord, first |-> NoRecord, grant |-> NoRecord, left |-> {}, since |-> NoRecord,
              to |-> "", code |-> ""]

\* The facts a decision to proceed rests on.
Facts(grant, sessions) ==
    (IF grant = NoRecord THEN {} ELSE IF grant.active THEN {<<"granted", NoRecord>>} ELSE {})
    \union {<<"usable", v>> : v \in {s \in AuthServices : sessions[s] \in {"narrow", "full"}}}
    \union {<<"scoped", v>> : v \in {s \in AuthServices : sessions[s] = "full"}}

\* The request is answered: to the page itself, the client's callback, the
\* consent page or the upstream server.
Answer(to, code) == [areq EXCEPT !.stage = "done", !.to = to, !.code = code]

Asks(next) == areq' = next /\ UNCHANGED <<clientVars, userGrant, userSession, held>>

\* ServeHTTP: the parameters are required before the service is asked.
Authorize(form, uri, scope, rtype) ==
    /\ areq.stage = "none"
    /\ areq' = [NoRequest EXCEPT !.stage = IF form = "" \/ uri = "" \/ rtype = "" THEN "done" ELSE "resolve",
                                 !.form = form, !.uri = uri, !.scope = scope, !.rtype = rtype, !.since = edits,
                                 !.to = IF form = "" \/ uri = "" \/ rtype = "" THEN "page" ELSE "",
                                 !.code = IF form = "" \/ uri = "" \/ rtype = "" THEN "invalid_request" ELSE ""]
    /\ held' = Facts(userGrant, userSession)
    /\ UNCHANGED <<clientVars, userGrant, userSession>>

\* Steps 1b and 1b-runtime: until the callback is known to be registered and valid
\* an error is never redirected.
RedirectURIError(agent, meta, uri) ==
    LET listed == IF meta # NoRecord THEN meta.uris ELSE agent.uris IN
    CASE ~IsRegisteredRedirectURI(listed, agent, uri) ->
            IF meta # NoRecord THEN "invalid_request" ELSE "invalid_redirect_uri"
      [] IsRegisteredRedirectURI(listed, agent, uri) /\ ~IsValidRedirectURI(uri) -> "invalid_redirect_uri"
      [] OTHER -> ""

\* Resolution, mode, callback and scope checks follow one read of the agent.
CheckClient ==
    /\ areq.stage = "resolve"
    /\ \E r \in ResolveClient(areq.form) :
        LET bad == RedirectURIError(r.agent, r.meta, areq.uri)
            read == [areq EXCEPT !.agent = r.agent, !.meta = r.meta, !.first = r.agent] IN
        Asks(IF r.err # "" THEN Answer("page", r.err)
             ELSE IF ~AcceptsClientType(ClientType(r.agent)) THEN Answer("page", "unauthorized_client")
             ELSE IF bad # "" THEN Answer("page", bad)
             ELSE IF areq.scope # "" /\ ~IsScopeAllowed(r.agent, areq.scope)
             THEN [read EXCEPT !.stage = "done", !.to = "client", !.code = "invalid_scope"]
             ELSE [read EXCEPT !.stage = "grant"])

\* Mutant: the end of a grant is not looked at.
needsConsent_Ended(grant, agent) ==
    IF grant = NoRecord THEN TRUE ELSE ~(grant.sets \subseteq agent.declared)

\* Step 3: no grant, one that has ended, or one for a set no longer declared.
needsConsent(grant, agent) ==
    IF grant = NoRecord THEN TRUE ELSE ~grant.active \/ ~(grant.sets \subseteq agent.declared)

\* buildConsentURL seals the request in a session token; when that fails, or a
\* store does, the client is told server_error at its validated callback.
AskConsent == Asks(Answer("consent", "consent")) \/ Asks(Answer("client", "server_error"))


\* Only the services the user included in the grant are looked at.
relevantServices(grant) == grant.services

CheckGrant ==
    /\ areq.stage = "grant"
    /\ \/ Asks(Answer("client", "server_error"))
       \/ /\ needsConsent(userGrant, areq.agent)
          /\ AskConsent
       \/ /\ ~needsConsent(userGrant, areq.agent)
          /\ Asks([areq EXCEPT !.stage = "sessions", !.grant = userGrant,
                               !.left = relevantServices(userGrant)])

RequiresReauthentication(v) == userSession[v] = "reauth"

Unusable(v) == userSession[v] = "missing" \/ RequiresReauthentication(v)

\* anyDelegatedSessionUnusable reads the sessions one by one, in map order.
CheckSession ==
    /\ areq.stage = "sessions"
    /\ \/ /\ areq.left = {}
          /\ Asks([areq EXCEPT !.stage = "requirements", !.left = areq.agent.mandatory])
       \/ \E v \in areq.left :
            \/ Asks(Answer("client", "server_error"))
            \/ Unusable(v) /\ AskConsent
            \/ ~Unusable(v) /\ Asks([areq EXCEPT !.left = @ \ {v}])

hasRequiredScopes(v) == userSession[v] = "full"

\* validateMandatoryRequirements: every mandatory service, included in the grant
\* or not, needs a usable session with the required scopes.
MeetsRequirement(v) == ~Unusable(v) /\ hasRequiredScopes(v)

CheckRequirement ==
    /\ areq.stage = "requirements"
    /\ \/ areq.left = {} /\ Asks([areq EXCEPT !.stage = "decide"])
       \/ \E v \in areq.left :
            \/ Asks(Answer("client", "server_error"))
            \/ ~MeetsRequirement(v) /\ AskConsent
            \/ MeetsRequirement(v) /\ Asks([areq EXCEPT !.left = @ \ {v}])

\* The upstream URL is built for an agent that has an upstream client_id.
upstreamURL == broker.upstream /\ areq.agent.clientID


\* The hybrid strategy issues codes to the clients that are not proxied.
ProceedLocally(t) == t \in {"cimd", "local"}

\* ProceedDecision and the proceed strategy of the server mode.  A proxied client
\* has an upstream client_id by definition, so the URL is only missing when there
\* is no upstream server.
Proceed ==
    /\ areq.stage = "decide"
    /\ LET t == ClientType(areq.agent)
           local == broker.mode = "local" \/ (broker.mode = "hybrid" /\ ProceedLocally(t))
           proxied == broker.mode = "proxy" \/ (broker.mode = "hybrid" /\ t = "proxied") IN
       \/ upstreamURL /\ Asks(Answer("client", "server_error"))
       \/ Asks(IF local THEN [areq EXCEPT !.stage = "issue"]
               ELSE IF proxied /\ upstreamURL THEN Answer("upstream", "redirect")
               ELSE Answer("page", "server_error"))

\* IssueAuthorizationCode resolves the client again: what it now finds counts.
IssueResolves ==
    /\ areq.stage = "issue"
    /\ \E r \in ResolveClient(areq.form) :
        Asks([areq EXCEPT !.stage = "credential", !.agent = r.agent, !.meta = r.meta, !.code = r.err])

\* translateFositeError keeps a sentinel per error; these are never redirected,
\* because the callback may not have been validated.
shouldWriteDirectOAuth2Error(code) == code \in {"invalid_client", "invalid_redirect_uri", "server_error"}

IssueFails(code) == Answer(IF shouldWriteDirectOAuth2Error(code) THEN "page" ELSE "client", code)

\* HandleAuthorize: client, callback, response type and scopes are checked once
\* more, then the code and its PKCE session are stored.
HandleAuthorize ==
    /\ areq.stage = "credential"
    /\ \E secret \in {credential, "unread"} :
        LET r == [err |-> areq.code, agent |-> areq.agent, meta |-> areq.meta]
            client == GetClient(r, secret) IN
        \/ client = "unavailable" /\ Asks(IssueFails("server_error"))
        \/ client = "not_found" /\ Asks(IssueFails("invalid_client"))
        \/ /\ client \in {"public", "confidential"}
           /\ IF RedirectURIError(areq.agent, areq.meta, areq.uri) # ""
              THEN Asks(IssueFails("invalid_redirect_uri"))
              ELSE IF areq.rtype # "code" THEN Asks(IssueFails("unsupported_response_type"))
              ELSE IF areq.scope # "" /\ ~IsScopeAllowed(areq.agent, areq.scope)
              THEN Asks(IssueFails("invalid_scope"))
              ELSE \/ Asks(Answer("client", "code"))
                   \/ Asks(IssueFails("server_error"))      \* the code is not stored
                   \/ Asks(IssueFails("invalid_request"))   \* no S256 challenge

\* The user consents or revokes, a grant ends.
GrantIsChanged ==
    /\ edits.grant > 0
    /\ \E g \in GrantShapes \union {NoRecord} : g # userGrant /\ userGrant' = g
    /\ edits' = [edits EXCEPT !.grant = @ - 1]
    /\ held' = held \union Facts(userGrant', userSession)
    /\ UNCHANGED <<broker, agentRow, credential, document, areq, userSession>>

\* A session is connected, disconnected, narrowed or asked to reauthenticate.
SessionIsChanged ==
    /\ edits.session > 0
    /\ \E v \in AuthServices, s \in SessionStates :
        s # userSession[v] /\ userSession' = [userSession EXCEPT ![v] = s]
    /\ edits' = [edits EXCEPT !.session = @ - 1]
    /\ held' = held \union Facts(userGrant, userSession')
    /\ UNCHANGED <<broker, agentRow, credential, document, areq, userGrant>>

AuthAround ==
    \/ GrantIsChanged
    \/ SessionIsChanged
    \/ (AgentIsChanged \/ CredentialIsChanged \/ DocumentIsChanged) /\ UNCHANGED <<areq, userGrant, userSession, held>>

AuthInit(grant, sessions) ==
    /\ areq = NoRequest
    /\ userGrant = grant
    /\ userSession = sessions
    /\ held = {}

AuthStep ==
    \/ CheckClient
    \/ CheckGrant
    \/ CheckSession
    \/ CheckRequirement
    \/ Proceed
    \/ IssueResolves
    \/ HandleAuthorize

\* One request of a set of requests.
AuthCalls(requests) ==
    \/ \E q \in requests : Authorize(q[1], q[2], q[3], q[4])
    \/ AuthStep
    \/ AuthAround
AuthSpec(requests, config, agent, secret, doc, bounds, grant, sessions) ==
    ClientInit(config, agent, secret, doc, bounds) /\ AuthInit(grant, sessions) /\ [][AuthCalls(requests)]_authVars

Answered == areq.stage = "done"
-----------------------------------------------------------------------------
\* A request looks for sessions of services only, and every answered request has
\* an answer (ServeHTTP dispatches each decision).
AuthTypeInvariant ==
    /\ areq.left \subseteq AuthServices
    /\ Answered <=> areq.to \in {"page", "client", "consent", "upstream"}
    /\ userSession \in [AuthServices -> SessionStates]

\* The browser is sent to the request's callback, with a code or an error, only
\* when the request's latest look at the client found that callback registered and
\* valid, although the agent may have been changed or deleted since its first look
\* (HandleAuthorization and HandleAuthorize answer directly before that).
RedirectsToRegistered ==
    (Answered /\ areq.to = "client") =>
        /\ areq.agent # NoRecord
        /\ areq.uri \in {"web", "private"}
        /\ areq.uri \in (IF areq.meta # NoRecord THEN areq.meta.uris ELSE areq.agent.uris)
        /\ areq.uri = "private" => areq.uri \in areq.agent.uris

\* A code, or a redirect to the upstream server, means that at some moment of the
\* request the user's grant was active, every service included in it had a usable
\* session and every mandatory service one with the required scopes, whatever was
\* revoked or disconnected meanwhile (HandleAuthorization, steps 3 to 5).
ProceedsWhenEntitled ==
    (Answered /\ (areq.to = "upstream" \/ areq.code = "code")) =>
        /\ <<"granted", NoRecord>> \in held
        /\ areq.grant.sets \subseteq areq.first.declared
        /\ \A v \in areq.grant.services : <<"usable", v>> \in held
        /\ \A v \in areq.first.mandatory : <<"scoped", v>> \in held

\* A user who has all it takes, and for whom nothing changes during the request, is
\* not sent back to the consent page: in particular a service they left out of the
\* grant never forces consent (anyDelegatedSessionUnusable).
ConsentOnlyWhenNeeded ==
    (Answered /\ areq.to = "consent" /\ areq.since = edits) =>
        IF userGrant = NoRecord THEN TRUE
        ELSE \/ ~userGrant.active
             \/ ~(userGrant.sets \subseteq agentRow.declared)
             \/ \E v \in userGrant.services : userSession[v] \in {"missing", "reauth"}
             \/ \E v \in agentRow.mandatory : userSession[v] # "full"

\* Each server mode serves its own clients: a client of the upstream server gets no
\* code of the broker, a CIMD or local client is not sent upstream, and an agent that
\* is both is served by neither (AcceptsClientType and the hybrid strategy).
ServedByItsMode ==
    Answered =>
        /\ areq.to = "upstream" => /\ broker.mode \in {"proxy", "hybrid"}
                                   /\ areq.first.clientID /\ ~areq.first.clientURI
        /\ areq.code = "code" => broker.mode \in {"local", "hybrid"} /\ ~areq.first.clientID
=============================================================================
