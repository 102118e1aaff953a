--------------------------- MODULE TokenEndpoint ----------------------------
(* POST /oauth2/token for one agent: the handler's request checks, the routing  *)
(* by server mode and client type, the proxied grants with their agent claim    *)
(* verification and the locally minted grants with their client authentication. *)
(* Every read of the agent, its credential or its document is a step.           *)
EXTENDS OAuthClients

VARIABLES
    tcall,             \* the token request in flight
    refreshRow,        \* the live refresh token: the client it was issued to and its binding, or NoRecord
    matched,           \* history: the secrets that were the agent's at some moment of the call
    wasBound           \* history: the refresh token chain was bound to private_key_jwt

tokenVars == <<clientVars, tcall, refreshRow, matched, wasBound>>

NoTokenCall == [stage |-> "none", form |-> "", grant |-> "", secret |-> "", assertion |-> "", header |-> FALSE,
                agent |-> NoRecord, meta |-> NoRecord, kind |-> "", stored |-> "", verified |-> FALSE,
                from |-> "", code |-> ""]

\* The flaws of a request in the order ServeHTTP finds them.
RequestFlaws == {"method", "content_type", "body", "repeated", "grant_type"}

Ends(from, code) == [tcall EXCEPT !.stage = "done", !.from = from, !.code = code]
Fails(code) == Ends("error", code)
Moves(next) == tcall' = next /\ UNCHANGED <<clientVars, refreshRow, matched, wasBound>>

\* ServeHTTP: a flaw ends the request; token exchange goes its own way before the
\* client_id is looked at, even with a repeated parameter when it asks to impersonate.
TokenRequest(flaw, form, grant, secret, assertion, header) ==
    /\ tcall.stage = "none"
    /\ matched' = {credential}
    /\ tcall' = LET q == [NoTokenCall EXCEPT !.stage = "resolve", !.form = form, !.grant = grant,
                                    !.secret = secret, !.assertion = assertion, !.header = header]
                    ends(from, code) == [q EXCEPT !.stage = "done", !.from = from, !.code = code] IN
                IF flaw = "repeated" /\ grant = "impersonation" THEN ends("exchange", "invalid_request")
                ELSE IF flaw # "" THEN ends("error", "invalid_request")
                ELSE IF grant \in {"token_exchange", "impersonation"} THEN ends("exchange", "handed_over")
                ELSE IF form = "" THEN ends("error", "invalid_request")
                ELSE q
    /\ UNCHANGED <<clientVars, refreshRow, wasBound>>


\* The grant strategy of the server mode; the hybrid one routes by client type.
RoutesToProxy(t) == broker.mode = "proxy" \/ (broker.mode = "hybrid" /\ t = "proxied")

\* ResolveForTokenGrant and the dispatch that follows it.
ResolveForTokenGrant ==
    /\ tcall.stage = "resolve"
    /\ \E r \in ResolveClient(tcall.form) :
        Moves(IF r.err # "" THEN Fails(r.err)
              ELSE IF ~AcceptsClientType(ClientType(r.agent)) THEN Fails("unauthorized_client")
              ELSE [tcall EXCEPT !.agent = r.agent,
                                 !.stage = IF RoutesToProxy(ClientType(r.agent)) THEN "proxy" ELSE "local"])

\* What the upstream server may answer: a refusal, or a token whose agent claim is
\* the agent's own, another agent's (agents may share the upstream client) or absent.
UpstreamAnswers == {"refused", "own", "other", "absent"}


\* The claim must be there, signed by the upstream's keys, and be this agent's.
VerifyAgentIDClaim(answer) == answer = "own"

\* Only a 200 is verified, and only when agents may share the upstream client.
CompleteProxy(answer) ==
    IF ~broker.verifier \/ answer = "refused" THEN Ends("upstream", answer)
    ELSE IF VerifyAgentIDClaim(answer) THEN Ends("upstream", answer)
    ELSE Fails("server_error")

\* The grant is forwarded under the upstream client_id; the upstream server, the
\* reading of its body or the fetch of its keys may fail.
ProxyGrant ==
    /\ tcall.stage = "proxy"
    /\ \/ Moves(Fails("server_error"))
       \/ \E answer \in UpstreamAnswers :
            tcall.agent.clientID /\ Moves(CompleteProxy(answer))

LocalGrants == {"client_credentials", "authorization_code", "refresh_token"}

\* localGrantStrategy: the grants minted here and the parameter each requires.
DispatchLocalGrant ==
    /\ tcall.stage = "local"
    /\ Moves(IF tcall.grant \notin LocalGrants THEN Fails("unsupported_grant_type")
             ELSE IF tcall.grant = "client_credentials" /\ tcall.secret = "" THEN Fails("invalid_request")
             ELSE [tcall EXCEPT !.stage = "client"])

\* The provider resolves the client for itself.
ProviderResolves ==
    /\ tcall.stage = "client"
    /\ \E r \in ResolveClient(tcall.form) :
        Moves([tcall EXCEPT !.stage = "credential", !.agent = r.agent, !.meta = r.meta, !.code = r.err])


\* client_credentials is for confidential clients.
ClientCheck(grant, kind) == IF grant = "client_credentials" /\ kind = "public" THEN "not_found" ELSE kind

ProviderClient ==
    /\ tcall.stage = "credential"
    /\ \E secret \in {credential, "unread"} :
        LET r == [err |-> tcall.code, agent |-> tcall.agent, meta |-> tcall.meta]
            kind == ClientCheck(tcall.grant, GetClient(r, secret)) IN
        Moves(CASE kind = "unavailable" -> Fails("server_error")
                [] kind = "not_found" -> Fails("invalid_client")
                [] kind = "confidential" -> [tcall EXCEPT !.stage = "secret", !.kind = kind, !.code = ""]
                [] kind = "public" -> [tcall EXCEPT !.stage = "assertion", !.kind = kind, !.code = ""])

\* Authenticate reads the credential again, resolves the agent once more by its
\* UUID, and compares; whatever goes wrong is invalid_client.
AuthenticateReads ==
    /\ tcall.stage = "secret"
    /\ \/ Moves(Fails("invalid_client"))
       \/ credential # "none" /\ Moves([tcall EXCEPT !.stage = "compare", !.stored = credential])

Compare(stored, secret) == secret = stored

Authenticate ==
    /\ tcall.stage = "compare"
    /\ \E r \in ResolveClient("uuid") :
        Moves(IF r.err # "" \/ ~Compare(tcall.stored, tcall.secret) THEN Fails("invalid_client")
              ELSE [tcall EXCEPT !.stage = "mint", !.agent = r.agent])

\* An assertion comes with its type and with no second way to authenticate.
invalidCIMDClientCredentials ==
    tcall.assertion # "" /\ (tcall.secret # "" \/ tcall.header)

requiresPrivateKeyJWT == IF tcall.meta = NoRecord THEN FALSE ELSE tcall.meta.auth = "private_key_jwt"

\* A refresh token keeps the authentication it was issued under; an unknown one is
\* treated as bound.
refreshRequiresPrivateKeyJWT(row) ==
    IF row = NoRecord THEN TRUE
    ELSE requiresPrivateKeyJWT \/ (row.client = tcall.form /\ row.bound)

\* A public client: the assertion is verified (ClientAssertions) when required and
\* refused when not.
authenticatePublicClient ==
    /\ tcall.stage = "assertion"
    /\ LET refresh == tcall.grant = "refresh_token"
           required == IF refresh THEN refreshRequiresPrivateKeyJWT(refreshRow) ELSE requiresPrivateKeyJWT IN
       \/ (refresh \/ required) /\ Moves(Fails("server_error"))
       \/ Moves(IF tcall.meta # NoRecord /\ invalidCIMDClientCredentials THEN Fails("invalid_request")
                ELSE IF required
                THEN IF tcall.assertion = "good" THEN [tcall EXCEPT !.stage = "mint", !.verified = TRUE]
                     ELSE Fails("invalid_client")
                ELSE IF tcall.assertion # "" THEN Fails("invalid_client")
                ELSE [tcall EXCEPT !.stage = "mint"])

\* Mutant: a rotation forgets the binding of its parent.
SuccessorBinding_Now(old) == requiresPrivateKeyJWT

\* CreateRefreshTokenSession: bound by this request's authentication or, in a
\* rotation, by its parent.
SuccessorBinding(old) == requiresPrivateKeyJWT \/ (old # NoRecord /\ old.bound)

\* The fosite handlers validate the grant and commit the rotation (RefreshChains),
\* then an access token is signed (SigningKeys); any of it may fail.
MintToken ==
    /\ tcall.stage = "mint"
    /\ \/ \E code \in {"invalid_grant", "invalid_scope", "server_error"} : Moves(Fails(code))
       \/ /\ tcall.grant = "client_credentials"
          /\ Moves(Ends("local", "token"))
       \/ /\ tcall.grant = "authorization_code"
          /\ tcall' = Ends("local", "token")
          /\ refreshRow' = [client |-> tcall.form, bound |-> SuccessorBinding(NoRecord)]
          /\ wasBound' = requiresPrivateKeyJWT
          /\ UNCHANGED <<clientVars, matched>>
       \/ /\ tcall.grant = "refresh_token"
          /\ refreshRow # NoRecord /\ refreshRow.client = tcall.form
          /\ tcall' = Ends("local", "token")
          /\ refreshRow' = [client |-> tcall.form, bound |-> SuccessorBinding(refreshRow)]
          /\ wasBound' = (wasBound \/ requiresPrivateKeyJWT)
          /\ UNCHANGED <<clientVars, matched>>

\* The response is written; the client may call again.
TokenCallReturns ==
    /\ tcall.stage = "done"
    /\ edits.calls > 0
    /\ edits' = [edits EXCEPT !.calls = @ - 1]
    /\ tcall' = NoTokenCall
    /\ matched' = {}
    /\ UNCHANGED <<broker, agentRow, credential, document, refreshRow, wasBound>>

TokenAround ==
    /\ AgentIsChanged \/ CredentialIsChanged \/ DocumentIsChanged
    /\ matched' = matched \union {credential'}
    /\ UNCHANGED <<tcall, refreshRow, wasBound>>

TokenInit == tcall = NoTokenCall /\ refreshRow = NoRecord /\ matched = {} /\ wasBound = FALSE

TokenStep ==
    \/ ResolveForTokenGrant
    \/ ProxyGrant
    \/ DispatchLocalGrant
    \/ ProviderResolves
    \/ ProviderClient
    \/ AuthenticateReads
    \/ Authenticate
    \/ authenticatePublicClient
    \/ MintToken

\* Calls with any of a set of requests, one after the other.
TokenCalls(requests) ==
    \/ \E q \in requests : TokenRequest(q[1], q[2], q[3], q[4], q[5], q[6])
    \/ TokenStep
    \/ TokenAround
    \/ TokenCallReturns
TokenSpec(requests, config, agent, secret, doc, bounds) ==
    ClientInit(config, agent, secret, doc, bounds) /\ TokenInit /\ [][TokenCalls(requests)]_tokenVars

Minted == tcall.stage = "done" /\ tcall.from = "local"
-----------------------------------------------------------------------------
\* A token minted for a client with a credential means that the secret presented
\* was the agent's credential at some moment of the request, however it was rotated
\* or revoked meanwhile, and client_credentials always asks for one
\* (HandleClientCredentials, ClientAuthService.Authenticate).
SecretWasCurrent ==
    Minted => /\ tcall.kind = "confidential" => tcall.secret \in matched \ {"none"}
              /\ tcall.grant = "client_credentials" => tcall.secret \in matched \ {"none"}

\* With agents sharing an upstream client, a token of the upstream server reaches the
\* caller only when it names the caller's agent (TokenOutcomeService.CompleteProxy).
UpstreamTokenIsBound ==
    (tcall.from = "upstream" /\ broker.verifier) => tcall.code \in {"refused", "own"}

\* Once a refresh token chain was begun or continued with private_key_jwt, no later
\* token of the chain is issued without a verified assertion, whatever the client's
\* document says by then (refreshRequiresPrivateKeyJWT, CreateRefreshTokenSession).
BoundChainStaysBound ==
    /\ wasBound /\ refreshRow # NoRecord => refreshRow.bound
    /\ (Minted /\ tcall.grant = "refresh_token" /\ wasBound) => tcall.verified

\* An upstream answer goes to a client of the upstream server, a local token to a
\* client the server mode mints for: the first resolution decides the route
\* (ResolveForTokenGrant, hybridTokenGrantStrategy).
RoutedByType ==
    /\ tcall.stage = "proxy" => broker.mode # "local" /\ tcall.agent.clientID /\ ~tcall.agent.clientURI
    /\ tcall.stage = "local" => broker.mode # "proxy" /\ ~tcall.agent.clientID
=============================================================================
