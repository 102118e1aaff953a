------------------------------- MODULE ExtProc -------------------------------
(***************************************************************************)
(* One stream of the ExtProc server: the gateway sends the headers of a    *)
(* request and, unless they end it, its body; the server exchanges the     *)
(* subject token, asks the policy and the approval gate, and answers each  *)
(* message by a mutation or by an immediate response.  A handler runs      *)
(* alone on its stream, so each message is one step; what the exchanger,   *)
(* the policy and the gate answer is chosen here and modelled in Exchanger *)
(* and ApprovalSync.                                                       *)
(***************************************************************************)
EXTENDS Exchanger, Sequences

VARIABLES
  server,      \* configuration: an authorizer, an approval gate
  request,     \* the headers message being served
  held,        \* requestState of the stream is set
  response,    \* the answer to the last message
  upstream,    \* what the gateway has forwarded
  decisions,   \* history: what the policy and the gate made of the request
  observed     \* the diagnostic recorded for the request

streamVars == <<server, request, held, response, upstream, decisions, observed>>

Subjects == {"valid", "absent", "blank", "prefixed"}
Resources == {"valid", "absent", "not_string", "blank", "malformed"}
Requests == [subject : Subjects, resource : Resources, protocol : {"mcp", "other", "absent"},
             target : BOOLEAN, method : {"GET", "POST", "PUT"}, end : BOOLEAN]
NoRequest == [phase |-> "none", end |-> FALSE, protocol |-> "absent", method |-> "GET"]

OAuthCodes == {"invalid_request", "invalid_client", "invalid_token", "invalid_grant", "reauth_required",
               "access_denied", "server_error", "unknown"}
Issued == [err |-> "none", code |-> "unknown"]
(* What Exchange returns: a token, a failed call, or an answer of the broker with its code. *)
ExchangeAnswers == {Issued} \cup [err : {"rejected", "reauth", "throttled_reauth"}, code : OAuthCodes]
                   \cup [err : {"throttled", "server_error", "network", "invalid_response", "assertion_expired", "circuit_open", "canceled"}, code : {"unknown"}]

NoResponse == [kind |-> "none", code |-> 0, challenge |-> FALSE]
Immediate(code) == [kind |-> "immediate", code |-> code, challenge |-> FALSE]
replaceAuthorizationHeader == [kind |-> "authorize", code |-> 0, challenge |-> FALSE]
requestBodyBuffering == [kind |-> "buffer", code |-> 0, challenge |-> FALSE]
echoRequestBody == [kind |-> "echo", code |-> 0, challenge |-> FALSE]
passThrough == [kind |-> "pass", code |-> 0, challenge |-> FALSE]

(* The classification of failures: outcome and recovery of a Diagnostic, and whether the client sees a 5xx. *)
NewDiagnostic(detail) ==
  [detail |-> detail, server |-> FALSE,
   outcome |-> CASE detail \in {"resource_missing", "request_malformed"} -> "invalid_request"
                 [] detail \in {"subject_invalid", "client_invalid", "client_expired", "credential_rejected"} -> "authentication_failed"
                 [] detail \in {"authorization_denied", "policy_denied", "consent_required"} -> "authorization_denied"
                 [] detail \in {"reauth_required", "session_reauth_required"} -> "reauth_required"
                 [] detail = "policy_configuration" -> "configuration_error"
                 [] detail = "caller_canceled" -> "canceled"
                 [] OTHER -> "infrastructure_error",
   action |-> CASE detail = "consent_required" -> "reconsent"
                [] detail = "session_reauth_required" -> "reauthenticate"
                [] detail = "policy_configuration" -> "fix_configuration"
                [] detail \in {"broker_unavailable", "broker_response_invalid", "circuit_open", "policy_evaluation_failed",
                               "internal_unclassified"} -> "retry"
                [] OTHER -> "none"]
SuccessDiagnostic == [detail |-> "none", server |-> FALSE, outcome |-> "success", action |-> "none"]
Unobserved == [detail |-> "none", server |-> FALSE, outcome |-> "unobserved", action |-> "none"]
asServerError(d) == [d EXCEPT !.server = TRUE]

(* ErrorMetadata of what Exchange returned; throttling that carries a recovery address is a rejection. *)
ErrorKindOf(a) ==
  CASE a.err \in {"rejected", "reauth", "throttled_reauth"} -> "rejected"
    [] a.err \in {"throttled", "server_error", "network"} -> "unavailable"
    [] OTHER -> a.err
RejectionDetail(a) ==
  CASE a.code = "invalid_request" -> "request_malformed"
    [] a.code = "invalid_client" -> "client_invalid"
    [] a.code = "invalid_token" -> "subject_invalid"
    [] a.code = "invalid_grant" -> IF HasRecovery(a.err) THEN "session_reauth_required" ELSE "credential_rejected"
    [] a.code = "reauth_required" -> IF HasRecovery(a.err) THEN "session_reauth_required" ELSE "reauth_required"
    [] a.code = "access_denied" -> IF HasRecovery(a.err) THEN "consent_required" ELSE "authorization_denied"
    [] a.code = "server_error" -> "broker_unavailable"
    [] OTHER -> "internal_unclassified"
diagnosticForMetadata(a) ==
  NewDiagnostic(CASE ErrorKindOf(a) = "rejected" -> RejectionDetail(a)
                  [] ErrorKindOf(a) = "unavailable" -> "broker_unavailable"
                  [] ErrorKindOf(a) = "invalid_response" -> "broker_response_invalid"
                  [] ErrorKindOf(a) = "assertion_expired" -> "client_expired"
                  [] ErrorKindOf(a) = "circuit_open" -> "circuit_open"
                  [] ErrorKindOf(a) = "canceled" -> "caller_canceled")

tokenExchangeErrorResponse(a) == Immediate(IF a.err \in {"assertion_expired", "circuit_open"} THEN 503 ELSE 500)
reauthChallengeResponse == [Immediate(403) EXCEPT !.challenge = TRUE]
ChallengeDue(a) == HasRecovery(a.err)
exchangeErrorResponse(a) ==
  IF ChallengeDue(a) THEN [resp |-> reauthChallengeResponse, diag |-> diagnosticForMetadata(a)]
  ELSE [resp |-> tokenExchangeErrorResponse(a), diag |-> asServerError(diagnosticForMetadata(a))]

(* What the headers must carry before anything is exchanged. *)
extractTokenExchangeInput(r) ==
  CASE r.subject # "valid" -> "request_malformed"
    [] r.resource \in {"absent", "blank"} -> "resource_missing"
    [] r.resource \in {"not_string", "malformed"} -> "request_malformed"
    [] OTHER -> "none"
inputRejection(detail) == [resp |-> Immediate(503), diag |-> asServerError(NewDiagnostic(detail))]
isMCPHeaderOnlyMethod(r) == r.method = "GET"
isBodyBearingMethod(r) == r.method = "POST"
extractProtocolFromMetadata(r) == r.protocol # "absent"
extractMCPServerFromMetadata(r) == r.target
RejectOPA(r) ==
  CASE ~extractProtocolFromMetadata(r) -> [resp |-> Immediate(403), diag |-> NewDiagnostic("policy_configuration")]
    [] r.protocol = "mcp" /\ ~isMCPHeaderOnlyMethod(r) /\ ~isBodyBearingMethod(r) ->
         [resp |-> Immediate(405), diag |-> NewDiagnostic("request_malformed")]
    [] r.protocol = "mcp" /\ ~extractMCPServerFromMetadata(r) -> [resp |-> Immediate(403), diag |-> NewDiagnostic("policy_configuration")]
    [] OTHER -> [resp |-> NoResponse, diag |-> SuccessDiagnostic]

(* The policy: a result that is missing, late or unknown denies. *)
PolicyOutcomes == {"allow", "deny", "approval_required", "ciba_required", "other_action", "no_action", "undefined",
                   "evaluation_error", "conversion_error", "timeout"}
ParseDecision(result) == IF result \in {"allow", "approval_required"} THEN result ELSE "deny"
evaluateQuery(outcome) == IF outcome \in {"undefined", "evaluation_error"} THEN "deny" ELSE ParseDecision(outcome)
evaluateSDK(outcome) == IF outcome \in {"undefined", "evaluation_error"} THEN "deny" ELSE ParseDecision(outcome)
timeoutDecision(outcome) == outcome = "timeout"
EvaluatePolicy(outcome) ==
  IF timeoutDecision(outcome) \/ outcome = "conversion_error" THEN "deny"
  ELSE IF server.sdk THEN evaluateSDK(outcome) ELSE evaluateQuery(outcome)

(* Messages of a body: a JSON-RPC call that parses or not, of a tool or not, with usable arguments or not. *)
Messages == {"invalid", "method", "unnamed_tool", "tool", "tool_bad_arguments"}
ParseMCPMessage(msg) == msg # "invalid"
buildMCPInput(msg) == ParseMCPMessage(msg) /\ msg # "unnamed_tool"
approvalInvocation(msg) == msg = "tool"
Single(m) == [large |-> FALSE, shape |-> "single", msgs |-> <<m>>]
Batch(ms) == [large |-> FALSE, shape |-> "batch", msgs |-> ms]
Bodies == {Single(m) : m \in Messages} \cup {[Single("method") EXCEPT !.large = TRUE], [Single("invalid") EXCEPT !.shape = "broken"]}
          \cup {Batch(<<>>)} \cup {Batch(<<m>>) : m \in Messages} \cup {Batch(<<m, n>>) : m \in {"tool", "method"}, n \in Messages}
(* A body is one array of messages or one object; repeated or foreign fields break it. *)
decodeJSONBatch(b) == b.shape = "batch"
decodeMCPObject(b) == b.shape = "single"
GateOutcomes == {"proceed", "url", "denied"}

Undecided == [policy |-> <<>>, gate |-> FALSE]

(* processHeadersOnlyOPA: the policy is asked first, and only an allowed request is exchanged. *)
HeadersOnly(outcome, a) ==
  IF EvaluatePolicy(outcome) # "allow" THEN [resp |-> Immediate(403), diag |-> NewDiagnostic("policy_denied")]
  ELSE IF a = Issued THEN [resp |-> replaceAuthorizationHeader, diag |-> SuccessDiagnostic]
  ELSE exchangeErrorResponse(a)

(* The branch of Process for headers that end the request. *)
EndedWithoutBody(r, outcome, a) ==
  IF r.protocol = "mcp" /\ ~isMCPHeaderOnlyMethod(r)
  THEN [resp |-> Immediate(400), diag |-> NewDiagnostic("request_malformed")]
  ELSE HeadersOnly(outcome, a)

processRequestHeaders(r, a) ==
  IF extractTokenExchangeInput(r) # "none" THEN inputRejection(extractTokenExchangeInput(r))
  ELSE IF a = Issued THEN [resp |-> replaceAuthorizationHeader, diag |-> SuccessDiagnostic] ELSE exchangeErrorResponse(a)

(* finishObservation runs once: a request whose headers end it is observed by the branch that answers it. *)
Observation(r, done) == done.diag

processRequestHeadersOPA(r, outcome, a) ==
  IF extractTokenExchangeInput(r) # "none" THEN inputRejection(extractTokenExchangeInput(r))
  ELSE IF RejectOPA(r).resp # NoResponse THEN RejectOPA(r)
  ELSE IF r.end THEN EndedWithoutBody(r, outcome, a)
  ELSE IF a = Issued THEN [resp |-> requestBodyBuffering, diag |-> SuccessDiagnostic] ELSE exchangeErrorResponse(a)

(* Process, RequestHeaders: what the gateway does with the answer is part of the step. *)
Forwarded(r, resp) ==
  CASE resp.kind = "authorize" -> [auth |-> "exchanged", done |-> TRUE]
    [] resp.kind = "buffer" -> [auth |-> "exchanged", done |-> FALSE]
    [] resp.kind = "pass" -> [auth |-> "original", done |-> r.end]
    [] OTHER -> [auth |-> "none", done |-> FALSE]

ProcessHeaders(r, outcome, a) ==
  /\ response = NoResponse /\ request = NoRequest
  /\ LET done == IF server.opa THEN processRequestHeadersOPA(r, outcome, a) ELSE processRequestHeaders(r, a)
     IN  /\ response' = done.resp /\ observed' = Observation(r, done)
         /\ held' = (done.resp.kind = "buffer")
         /\ upstream' = Forwarded(r, done.resp)
         /\ decisions' = IF server.opa /\ r.end /\ done.resp.kind = "authorize" THEN [policy |-> <<outcome>>, gate |-> FALSE]
                         ELSE Undecided
  /\ request' = [phase |-> "headers", end |-> r.end, protocol |-> r.protocol, method |-> r.method] /\ UNCHANGED server

(* processRequestBodyBatch: every element is decided, and one that is not allowed denies the whole. *)
\* Mutant: an element that awaits approval does not deny the batch.
ElementAllowed_Approval(msg, outcome) == buildMCPInput(msg) /\ EvaluatePolicy(outcome) \in {"allow", "approval_required"}
ElementAllowed(msg, outcome) == buildMCPInput(msg) /\ EvaluatePolicy(outcome) = "allow"
processRequestBodyBatch(b, outcomes) ==
  IF b.msgs # <<>> /\ \A i \in DOMAIN b.msgs : ElementAllowed(b.msgs[i], outcomes[i]) THEN echoRequestBody ELSE Immediate(403)

Approve(b, gate) ==
  IF ~server.gate \/ request.protocol # "mcp" \/ ~approvalInvocation(b.msgs[1]) THEN Immediate(403)
  ELSE IF gate = "proceed" THEN echoRequestBody ELSE IF gate = "url" THEN Immediate(200) ELSE Immediate(403)

processRequestBody(b, outcomes, gate) ==
  IF request.protocol = "mcp" /\ isMCPHeaderOnlyMethod(request) THEN Immediate(405)
  ELSE IF b.large THEN Immediate(403)
  ELSE IF request.protocol = "mcp" /\ decodeJSONBatch(b) THEN processRequestBodyBatch(b, outcomes)
  ELSE IF request.protocol = "mcp" /\ (~decodeMCPObject(b) \/ ~buildMCPInput(b.msgs[1])) THEN Immediate(403)
  ELSE CASE EvaluatePolicy(outcomes[1]) = "allow" -> echoRequestBody
         [] EvaluatePolicy(outcomes[1]) = "approval_required" -> Approve(b, gate)
         [] OTHER -> Immediate(403)

Evaluated(b) == IF request.protocol = "mcp" /\ b.shape = "batch" THEN Len(b.msgs) ELSE 1

Consumed == FALSE

(* Process, RequestBody: without state from a headers phase the body is echoed. *)
ProcessBody(b, outcomes, gate) ==
  /\ request.phase = "headers" /\ ~request.end /\ response.kind \in {"authorize", "buffer"}
  /\ response' = IF held THEN processRequestBody(b, outcomes, gate) ELSE echoRequestBody
  /\ held' = Consumed
  /\ upstream' = IF response'.kind = "echo" THEN [upstream EXCEPT !.done = TRUE] ELSE [auth |-> "none", done |-> FALSE]
  /\ decisions' = [policy |-> IF held THEN SubSeq(outcomes, 1, Evaluated(b)) ELSE <<>>, gate |-> held /\ gate = "proceed" /\ b.shape = "single"]
  /\ request' = [request EXCEPT !.phase = "body"] /\ UNCHANGED <<server, observed>>

(* Trailers and the phases of the response are passed on; a failed Send, an immediate response or the end of the stream *)
(* ends the handler, and the gateway opens a new stream for the next request.                                           *)
EndStream ==
  /\ request # NoRequest
  /\ request' = NoRequest /\ response' = NoResponse /\ held' = FALSE
  /\ upstream' = [auth |-> "none", done |-> FALSE] /\ decisions' = Undecided /\ observed' = Unobserved /\ UNCHANGED server

StreamInit ==
  /\ server \in [opa : BOOLEAN, gate : BOOLEAN, sdk : BOOLEAN] /\ (server.gate \/ server.sdk => server.opa)
  /\ request = NoRequest /\ response = NoResponse /\ held = FALSE
  /\ upstream = [auth |-> "none", done |-> FALSE] /\ decisions = Undecided /\ observed = Unobserved

StreamNext ==
  \/ \E r \in Requests : IF extractTokenExchangeInput(r) = "none"
                         THEN \E outcome \in IF server.opa /\ r.end THEN PolicyOutcomes ELSE {"deny"}, a \in ExchangeAnswers : ProcessHeaders(r, outcome, a)
                         ELSE ProcessHeaders(r, "deny", Issued)
  \/ \E b \in Bodies, o1, o2 \in PolicyOutcomes, gate \in GateOutcomes : ProcessBody(b, <<o1, o2>>, gate)
  \/ EndStream

(* The stream's state is held only between the headers and the body of one request. *)
StreamTypeInvariant ==
  /\ held => server.opa /\ response.kind = "buffer" /\ ~request.end
  /\ response.kind \in {"none", "immediate", "authorize", "buffer", "echo", "pass"} /\ observed.server \in BOOLEAN

(* With an authorizer, the gateway forwards a request only when the policy allowed every message of it, or asked for an *)
(* approval of a single message that the gate then confirmed: whatever the shape of the body, and whatever the policy    *)
(* engine returned.                                                                                                      *)
ForwardedIsAuthorized ==
  (server.opa /\ upstream.done) =>
    /\ decisions.policy # <<>>
    /\ \A i \in DOMAIN decisions.policy :
         decisions.policy[i] = "allow" \/ (decisions.policy[i] = "approval_required" /\ decisions.gate /\ Len(decisions.policy) = 1)

(* What is forwarded carries the exchanged token and never the caller's own Authorization header, also when the request *)
(* has no body and is answered by another branch than the one that read its headers.                                     *)
ForwardedCarriesExchanged == upstream.done => upstream.auth = "exchanged"

(* The diagnostic recorded for the headers phase agrees with the answer the client gets: success exactly when the request *)
(* goes on, and marked as a server error exactly when the status is 5xx.                                                  *)
ObservationMatchesResponse ==
  request.phase = "headers" =>
    /\ (observed.outcome = "success") <=> (response.kind # "immediate")
    /\ observed.server <=> (response.code >= 500)

(* A failure recorded as one the user can repair, by consenting or authenticating again, comes with the challenge that *)
(* tells the client where to do so.                                                                                      *)
RecoveryIsActionable ==
  (request.phase = "headers" /\ observed.action \in {"reconsent", "reauthenticate"}) => response.challenge

==============================================================================
