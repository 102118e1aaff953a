---------------------------- MODULE TokenExchange ----------------------------
(***************************************************************************)
(* The broker's RFC 8693 exchange of a subject token for the token of a    *)
(* third-party session.  The request is judged on its own first; then the  *)
(* service, the agent, the user's grant, the permission sets and the       *)
(* session are read one after the other, each in a step of its own, while  *)
(* the user may revoke or renew the grant between any two of them.  What   *)
(* the session vault answers is chosen here and modelled in SessionVault.  *)
(***************************************************************************)
EXTENDS Naturals, FiniteSets, Sequences

CONSTANTS
  SetDefinitions,   \* what a permission set may define: scopes per service
  Requirements      \* what an agent may require: per service, all scopes or some

VARIABLES
  consent,     \* the user's grant to the agent: missing, active or expired
  call,        \* the exchange under way
  reply,       \* the answer of the last one
  resolved,    \* history: what resolveEffectiveScopes returned, beside what the grant entitles to
  consented    \* history: the grant was active at some moment of the call

exchangeVars == <<consent, call, reply, resolved, consented>>

(* --------------------------------- failures ----------------------------- *)

GrantDetails == {"grant_missing", "grant_expired", "grant_empty", "grant_permission_set_undeclared", "grant_permission_set_missing",
                 "grant_service_omitted", "grant_service_definition_missing", "grant_service_requirement_excluded",
                 "grant_scope_intersection_empty"}
ReauthDetails == {"session_missing", "access_token_expired", "refresh_unavailable", "credential_identity_changed",
                  "refresh_rejected", "session_scope_insufficient"}
ConfigurationDetails == {"cel_configuration", "jwt_configuration", "agent_missing", "agent_invalid", "resource_ambiguous",
                         "provider_client_rejected", "session_configuration"}

(* Most details fix the stage they are reported at; the others keep the stage of their origin. *)
StageOf(stage, detail) ==
  CASE detail \in {"resource_missing", "request_malformed"} -> "request_validation"
    [] detail \in {"subject_invalid", "subject_expired"} -> "subject_validation"
    [] detail \in {"client_invalid", "client_expired"} -> "client_validation"
    [] detail \in {"subject_category_unsupported", "agent_missing", "agent_invalid", "agent_repository_unavailable"} -> "identity_resolution"
    [] detail \in {"client_policy_denied", "subject_category_ineligible"} -> "client_authorization"
    [] detail \in {"resource_unregistered", "resource_ambiguous", "resource_repository_unavailable"} -> "resource_resolution"
    [] detail \in GrantDetails \cup {"grant_repository_unavailable"} -> "grant_authorization"
    [] detail = "session_missing" -> "session_lookup"
    [] detail \in {"refresh_rejected", "provider_rejected", "provider_unavailable", "provider_response_invalid"} -> "refresh"
    [] detail = "session_scope_insufficient" -> "scope_validation"
    [] OTHER -> stage

Diagnose(stage, detail) ==
  [stage |-> StageOf(stage, detail), detail |-> detail,
   action |-> CASE detail \in GrantDetails -> "reconsent"
                [] detail \in ReauthDetails \cup {"subject_invalid", "subject_expired", "client_invalid", "client_expired"} -> "reauthenticate"
                [] detail \in ConfigurationDetails -> "fix_configuration"
                [] detail \in {"resource_missing", "request_malformed", "subject_category_unsupported", "client_policy_denied",
                               "subject_category_ineligible", "resource_unregistered", "caller_canceled"} -> "none"
                [] OTHER -> "retry",
   target |-> CASE detail \in GrantDetails -> "consent"
                [] detail \in ReauthDetails -> "provider_session"
                [] detail \in {"subject_invalid", "subject_expired"} -> "subject_identity"
                [] detail \in {"client_invalid", "client_expired"} -> "calling_client"
                [] detail \in ConfigurationDetails -> "broker_configuration"
                [] OTHER -> "none"]

(* TokenExchangeError: the OAuth code, the address of the recovery page, and the diagnostic. *)
Failure(code, stage, detail, uri) == [code |-> code, uri |-> uri, diag |-> Diagnose(stage, detail)]
Success == [code |-> "none", uri |-> "none", diag |-> [stage |-> "none", detail |-> "none", action |-> "none", target |-> "none"]]
Unanswered == [Success EXCEPT !.code = "pending"]

(* ------------------- what the request decides on its own ---------------- *)

Form == {"well_formed", "wrong_grant_type", "no_subject", "wrong_type", "no_resource", "bad_resource"}
Validate(form) ==
  CASE form = "well_formed" -> Success
    [] form = "no_resource" -> Failure("invalid_request", "request_validation", "resource_missing", "none")
    [] OTHER -> Failure("invalid_request", "request_validation", "request_malformed", "none")

(* A credential, against a policy of the issuers and the audience it names; expiry is looked at before the issuer. *)
Credentials == [keys : {"available"}, signed : {TRUE}, iss : {"local", "upstream", "other"}, aud : {TRUE}, live : BOOLEAN]
               \cup {[keys |-> k, signed |-> s, iss |-> "local", aud |-> a, live |-> TRUE] : k \in {"available", "unavailable"}, s, a \in BOOLEAN}
ExpectedIssuers(role) == IF role = "subject" THEN {"local", "upstream"} ELSE {"local"}
parseWithPolicy(c, role) ==
  CASE ~c.signed -> "invalid"
    [] ~c.live -> "expired"
    [] c.iss \in ExpectedIssuers(role) /\ c.aud -> "valid"
    [] OTHER -> "invalid"
ValidateSubjectToken(c) ==
  IF c.keys = "unavailable" THEN Failure("server_error", "subject_validation", "jwks_unavailable", "none")
  ELSE CASE parseWithPolicy(c, "subject") = "valid" -> Success
         [] parseWithPolicy(c, "subject") = "expired" -> Failure("invalid_grant", "subject_validation", "subject_expired", "none")
         [] OTHER -> Failure("invalid_grant", "subject_validation", "subject_invalid", "none")
ValidateClientAssertion(c) ==
  IF c.keys = "unavailable" THEN Failure("server_error", "client_validation", "jwks_unavailable", "none")
  ELSE CASE parseWithPolicy(c, "client") = "valid" -> Success
         [] parseWithPolicy(c, "client") = "expired" -> Failure("invalid_client", "client_validation", "client_expired", "none")
         [] OTHER -> Failure("invalid_client", "client_validation", "client_invalid", "none")

(* A CEL expression yields a value of the wanted type, an empty or another one, or fails or runs out of time. *)
Evaluations == {"value", "empty", "other_type", "failed"}
celEvaluation(stage, e) ==
  CASE e = "value" -> Success
    [] e = "failed" -> Failure("server_error", stage, "cel_evaluation_failed", "none")
    [] OTHER -> Failure("server_error", stage, "cel_configuration", "none")
ExtractPrincipal(e) == celEvaluation("identity_resolution", e)
ExtractAgentID(e) == celEvaluation("identity_resolution", e)
IsAgentSubject(e) == IF e = "empty" THEN Success ELSE celEvaluation("identity_resolution", e)
(* The subject must be a human: the detection yields a Boolean, and "value" stands for TRUE. *)
ResolveHumanSubject(principal, isAgent, agentID) ==
  CASE ExtractPrincipal(principal) # Success -> ExtractPrincipal(principal)
    [] IsAgentSubject(isAgent) # Success -> IsAgentSubject(isAgent)
    [] isAgent = "value" -> Failure("access_denied", "identity_resolution", "subject_category_unsupported", "none")
    [] OTHER -> ExtractAgentID(agentID)
AuthorizePrivilegedClient(e) ==
  IF e = "empty" THEN Failure("access_denied", "client_authorization", "client_policy_denied", "none")
  ELSE celEvaluation("client_authorization", e)

(* ------------------------- what the grant covers ------------------------- *)

PermissionSetIDs == {"p1", "p2"}
Services == {"s1", "s2"}
ServiceAsked == "s1"
(* GrantedPermissionSets: the services included per permission set.  Unresolvable sets are not in DOMAIN sets. *)
Entries == UNION {[ps -> SUBSET Services] : ps \in (SUBSET PermissionSetIDs) \ {{}}}

perServiceScopes(g, sets, svc) == UNION {sets[p][svc] : p \in {p \in DOMAIN g : svc \in g[p] /\ svc \in DOMAIN sets[p]}}
ServiceIncluded(g, svc) == \E p \in DOMAIN g : svc \in g[p]
ServiceDefined(g, sets, svc) == \E p \in DOMAIN g : svc \in g[p] /\ svc \in DOMAIN sets[p]
(* The ceiling of the agent's own requirements; an agent without any takes what the sets define. *)
\* Mutant: a service the agent does not require passes uncapped.
capped_UnrequiredPasses(requirements, svc, scopes) ==
  IF svc \notin DOMAIN requirements THEN scopes
  ELSE IF requirements[svc].all THEN scopes ELSE scopes \cap requirements[svc].scopes
capped(requirements, svc, scopes) ==
  CASE DOMAIN requirements = {} -> scopes
    [] svc \notin DOMAIN requirements -> {}
    [] requirements[svc].all -> scopes
    [] OTHER -> scopes \cap requirements[svc].scopes

(* The scopes for the service asked for, and why there are none. *)
coverageDetail(g, sets, requirements, svc) ==
  LET scopes == perServiceScopes(g, sets, svc)
  IN  CASE ~ServiceIncluded(g, svc) -> "grant_service_omitted"
        [] ~ServiceDefined(g, sets, svc) -> "grant_service_definition_missing"
        [] DOMAIN requirements # {} /\ svc \notin DOMAIN requirements /\ capped(requirements, svc, scopes) = {} -> "grant_service_requirement_excluded"
        [] capped(requirements, svc, scopes) = {} /\ scopes # {} -> "grant_scope_intersection_empty"
        [] OTHER -> "none"
resolveEffectiveScopes(g, declared, sets, requirements) ==
  LET svc == ServiceAsked
      detail == CASE ~(DOMAIN g \subseteq declared) -> "grant_permission_set_undeclared"
                  [] ~(DOMAIN g \subseteq DOMAIN sets) -> "grant_permission_set_missing"
                  [] OTHER -> coverageDetail(g, sets, requirements, svc)
  IN  [detail |-> detail, scopes |-> IF detail = "none" THEN capped(requirements, svc, perServiceScopes(g, sets, svc)) ELSE {}]

(* What a grant entitles to, said once and without the order of the checks. *)
Entitlement(g, declared, sets, requirements) ==
  {sc \in {"read", "write"} :
     /\ \E p \in DOMAIN g \cap declared \cap DOMAIN sets : ServiceAsked \in g[p] /\ ServiceAsked \in DOMAIN sets[p] /\ sc \in sets[p][ServiceAsked]
     /\ DOMAIN requirements # {} => /\ ServiceAsked \in DOMAIN requirements
                                    /\ requirements[ServiceAsked].all \/ sc \in requirements[ServiceAsked].scopes}
Unresolved == [detail |-> "none", scopes |-> {}, entitled |-> {}, stale |-> FALSE]

(* ------------------------------ the session ------------------------------ *)

(* OperationError of the session vault: the operation and the detail it reports. *)
SessionFailures ==
  {"session_missing", "access_token_expired", "refresh_unavailable", "refresh_rejected", "provider_client_rejected",
   "provider_rejected", "provider_unavailable", "provider_response_invalid", "session_repository_unavailable",
   "session_decryption_failed", "session_encryption_failed", "session_persistence_failed", "session_configuration",
   "credential_source_unavailable", "credential_identity_changed", "caller_canceled", "internal_unclassified"}
sessionDiagnostic(operation, detail) ==
  IF detail \in ReauthDetails THEN Failure("invalid_grant", operation, detail, "authorize")
  ELSE Failure("server_error", operation, detail, "none")

(* ----------------------------- the exchange ------------------------------ *)

NoCall == [pc |-> "idle"]
(* The stages in their order: the grant comes before the session (T078). *)
\* Mutant: the session is fetched before the grant is looked at.
Stages_SessionFirst == <<"request", "subject", "client", "identity", "authorization", "resource", "session", "agent", "grant", "coverage">>
Stages == <<"request", "subject", "client", "identity", "authorization", "resource", "agent", "grant", "coverage", "session">>
AtStage(stage) == call.pc = stage
Answer(f) == reply' = f /\ call' = NoCall
After(stage) ==
  LET i == CHOOSE n \in DOMAIN Stages : Stages[n] = stage
  IN  IF i = Len(Stages) THEN Answer(Success) ELSE call' = [pc |-> Stages[i + 1]] /\ UNCHANGED reply
Judge(stage, verdict) == AtStage(stage) /\ IF verdict = Success THEN After(stage) ELSE Answer(verdict)
Undisturbed == UNCHANGED <<consent, resolved, consented>>
(* A failed read of a store; when the caller has gone, the error says so. *)
Unavailable(stage, detail) == \E d \in {detail, "caller_canceled"} : Answer(Failure("server_error", stage, d, "none"))

Receive ==
  /\ AtStage("idle") /\ call' = [pc |-> Stages[1]] /\ reply' = Unanswered
  /\ consented' = (consent = "active") /\ resolved' = Unresolved /\ UNCHANGED consent

JudgeRequest ==
  /\ \/ \E form \in Form : Judge("request", Validate(form))
     \/ Judge("request", Failure("server_error", "request_validation", "caller_canceled", "none"))
     \/ \E c \in Credentials : Judge("subject", ValidateSubjectToken(c)) \/ Judge("client", ValidateClientAssertion(c))
     \/ \E principal, isAgent, agentID \in Evaluations : Judge("identity", ResolveHumanSubject(principal, isAgent, agentID))
     \/ \E policy \in Evaluations : Judge("authorization", AuthorizePrivilegedClient(policy))
  /\ Undisturbed

FindService ==
  /\ AtStage("resource")
  /\ \/ After("resource")
     \/ Answer(Failure("invalid_target", "resource_resolution", "resource_unregistered", "none"))
     \/ Answer(Failure("server_error", "resource_resolution", "resource_ambiguous", "none"))
     \/ Unavailable("resource_resolution", "resource_repository_unavailable")
  /\ Undisturbed

LookupAgent ==
  /\ AtStage("agent")
  /\ \/ After("agent")
     \/ \E d \in {"agent_missing", "agent_invalid"} : Answer(Failure("server_error", "identity_resolution", d, "none"))
     \/ Unavailable("identity_resolution", "agent_repository_unavailable")
  /\ Undisturbed

(* VerifyAgentAccess, as the exchange reads its result. *)
GrantDetail == CASE consent = "missing" -> "grant_missing" [] consent = "expired" -> "grant_expired" [] OTHER -> "none"
VerifyAgentAccess ==
  /\ AtStage("grant")
  /\ \/ IF GrantDetail = "none" THEN After("grant") ELSE Answer(Failure("access_denied", "grant_authorization", GrantDetail, "consent"))
     \/ Unavailable("grant_authorization", "grant_repository_unavailable")
  /\ Undisturbed

(* A grant without entries covers nothing; the permission sets come from a cache or the store. *)
ResolveCoverage(g, declared, sets, requirements) ==
  /\ AtStage("coverage")
  /\ LET r == resolveEffectiveScopes(g, declared, sets, requirements)
     IN  /\ resolved' = [detail |-> r.detail, scopes |-> r.scopes, entitled |-> Entitlement(g, declared, sets, requirements),
                         stale |-> ~(DOMAIN g \subseteq declared \cap DOMAIN sets)]
         /\ IF r.detail = "none" THEN After("coverage") ELSE Answer(Failure("access_denied", "grant_authorization", r.detail, "consent"))
  /\ UNCHANGED <<consent, consented>>
CoverageFails ==
  /\ AtStage("coverage")
  /\ \/ Answer(Failure("access_denied", "grant_authorization", "grant_empty", "consent"))
     \/ Unavailable("grant_authorization", "grant_repository_unavailable")
  /\ Undisturbed

ScopeFailure == Failure("invalid_grant", "scope_validation", "session_scope_insufficient", "authorize")
GetValidAccessToken ==
  /\ AtStage("session")
  /\ \/ \E scope \in SUBSET {"read", "write"} : IF resolved.scopes \subseteq scope THEN After("session") ELSE Answer(ScopeFailure)
     \/ \E op \in {"session_lookup", "refresh", "scope_validation"}, d \in SessionFailures : Answer(sessionDiagnostic(op, d))
  /\ Undisturbed

(* The user grants, revokes, or lets the grant run out, at any time. *)
ConsentChanges ==
  /\ \E c \in {"missing", "active", "expired"} \ {consent} :
       (c = "expired" => consent = "active") /\ consent' = c /\ consented' = (consented \/ c = "active")
  /\ UNCHANGED <<call, reply, resolved>>

ExchangeInit == consent = "missing" /\ call = NoCall /\ reply = Unanswered /\ resolved = Unresolved /\ consented = FALSE

Granting == UNION {[ps -> SetDefinitions] : ps \in SUBSET PermissionSetIDs}
ExchangeNext ==
  \/ Receive \/ JudgeRequest
  \/ FindService \/ LookupAgent \/ VerifyAgentAccess \/ CoverageFails \/ GetValidAccessToken \/ ConsentChanges
  \/ \E g \in Entries, declared \in SUBSET PermissionSetIDs, sets \in Granting, requirements \in Requirements :
        ResolveCoverage(g, declared, sets, requirements)

(* ------------------------------- properties ------------------------------ *)

(* The call is at a stage of the exchange, and an answer is one that handleTokenExchangeError can write. *)
ExchangeTypeInvariant ==
  /\ consent \in {"missing", "active", "expired"} /\ (call = NoCall \/ call.pc \in {Stages[i] : i \in DOMAIN Stages})
  /\ reply.code \in {"none", "pending", "invalid_request", "invalid_client", "invalid_grant", "invalid_target", "access_denied", "server_error"}
  /\ (call # NoCall) => reply = Unanswered

(* Without a grant in force at some moment of the call a caller gets nothing of the session: neither its token, nor    *)
(* that it is missing, must be refreshed or lacks scopes. A grant that was revoked or had expired before the request    *)
(* came is never enough, whatever changes while the stores are read.                                                    *)
NothingWithoutConsent ==
  reply = Success \/ reply.diag.stage \in {"session_lookup", "refresh", "scope_validation"} => consented

(* What the loops over permission sets, included services and requirement ceilings compute is what the grant entitles *)
(* to; a grant that names a set the agent no longer declares, or that is gone, yields nothing; and the exchange is      *)
(* refused for want of coverage only if there is none.                                                                  *)
CoverageMatchesGrant ==
  IF resolved.detail = "none" THEN resolved.scopes = resolved.entitled /\ ~resolved.stale
  ELSE resolved.stale \/ resolved.entitled = {}

(* Every failure that the diagnostic says the user can repair names the page to do so, the consent page for a missing *)
(* grant and the authorization of the service for an unusable session, and no other failure names one.                 *)
RecoveryHasAddress ==
  reply.uri = CASE reply.diag.target = "consent" -> "consent" [] reply.diag.target = "provider_session" -> "authorize" [] OTHER -> "none"

==============================================================================
