---------------------------- MODULE Impersonation ----------------------------
(***************************************************************************)
(* Token exchange by impersonation: an audience names a target agent, and  *)
(* the configured rules are tried in order until one matches, one aborts   *)
(* or all have failed.  A rule validates three credentials, classifies the *)
(* subject, asks its predicate and, for a human subject, requires the      *)
(* delegation that the user may give or take away meanwhile.               *)
(***************************************************************************)
EXTENDS TokenExchange

CONSTANTS
  RuleConfigs,   \* rules an operator may write
  MaxRules       \* bound: rules of a configuration

VARIABLES
  ruleset,    \* the compiled rules
  attempt,    \* the request under way
  issuance    \* the answer to the last one, with its audit record

impersonationVars == <<ruleset, attempt, issuance>>

(* ----------------------------- configuration ---------------------------- *)

(* Trusted issuers sign only roles that are signed, cover all of them, and appear once. *)
validateRuleInvariants(c) ==
  /\ c.allows # {} /\ c.allows \subseteq {"human", "agent"}
  /\ c.authorization = "cel" /\ c.trusts # {}
  /\ ~(c.unverified /\ c.absentAudience)
(* A subject that nothing vouches for, or that is bound to no audience, must be bound by the predicate. *)
compileRule(c) ==
  /\ validateRuleInvariants(c)
  /\ (c.unverified \/ c.absentAudience) => "subject_token" \in c.binds
RuleSequences == UNION {[1..n -> RuleConfigs] : n \in 1..MaxRules}
NewService(cfgs) == \A i \in DOMAIN cfgs : compileRule(cfgs[i])

(* ------------------------------ the request ----------------------------- *)

(* A token: its issuer, whether the algorithm is allowed, and what its claims hold. *)
Tokens == [iss : {"i1", "i2"}, alg : {"allowed"}, live : BOOLEAN, aud : {"expected"}]
          \cup {[iss |-> "i1", alg |-> g, live |-> TRUE, aud |-> a] : g \in {"none", "symmetric"}, a \in {"expected"}}
          \cup {[iss |-> "i1", alg |-> "allowed", live |-> TRUE, aud |-> a] : a \in {"other", "absent"}}
ClientTokens == {t \in Tokens : t.aud # "absent" /\ t.alg # "none"}
ActorTokens == {t \in Tokens : t.iss = "i1" /\ t.alg = "allowed" /\ t.aud = "expected"}
SubjectTokens == {t \in Tokens : t.iss = "i1" /\ t.aud # "other" /\ t.alg # "symmetric" /\ t.live}
SubClaims == {"person", "target", "other_agent"}

NoAttempt == [pc |-> "idle"]
AtStep(pc) == attempt.pc = pc
NoIssuance == [code |-> "pending", rule |-> 0, results |-> <<>>, category |-> "none", email |-> FALSE, uri |-> "none", verdicts |-> {}]

(* handleImpersonation writes the audit record and the answer together. *)
Conclude(code, rule, uri) ==
  /\ attempt' = NoAttempt
  /\ issuance' = [code |-> code, rule |-> rule, results |-> attempt.results, category |-> attempt.category,
                  email |-> attempt.email, uri |-> uri, verdicts |-> attempt.verdicts]
Refuse(code) == attempt' = NoAttempt /\ issuance' = [NoIssuance EXCEPT !.code = code]

(* The audience: exactly one value that continues the prefix with an agent's UUID or canonical ID. *)
ResolveTarget(audience, lookup) ==
  CASE audience = "bad_suffix" -> "invalid_request"
    [] lookup = "missing" -> "invalid_target"
    [] lookup \in {"unavailable", "invalid_agent"} -> "server_error"
    [] OTHER -> "none"
ParseRequest(form) == IF form = "well_formed" THEN "none" ELSE "invalid_request"
IsScopeAllowed(scope) == IF scope = "allowed" THEN "none" ELSE "invalid_scope"

Refusals == {ResolveTarget(a, l) : a \in {"bad_suffix", "uuid", "canonical_id"}, l \in {"found", "missing", "unavailable", "invalid_agent"}}
            \cup {ParseRequest(f) : f \in {"well_formed", "resource", "missing", "repeated", "wrong_type"}}
            \cup {IsScopeAllowed(s) : s \in {"allowed", "other"}}
Impersonate(client, actor, subject, sub) ==
  /\ AtStep("idle")
  /\ attempt' = [pc |-> "client_assertion", rule |-> 1, results |-> <<>>, category |-> "none", email |-> FALSE, verdicts |-> {},
                 client_assertion |-> client, actor |-> actor, subject |-> subject, sub |-> sub]
  /\ issuance' = NoIssuance /\ consented' = (consent = "active") /\ UNCHANGED <<ruleset, consent, call, reply, resolved>>
RefuseRequest ==
  /\ AtStep("idle") /\ \E code \in Refusals \ {"none"} : Refuse(code)
  /\ UNCHANGED <<ruleset, exchangeVars>>

(* ------------------------------- one rule -------------------------------- *)

Rule == ruleset[attempt.rule]
Continue(pc) == attempt' = [attempt EXCEPT !.pc = pc] /\ UNCHANGED issuance

(* selectNoMatchError: access_denied before invalid_request before invalid_client. *)
noMatchPrecedence(code) == CASE code = "access_denied" -> 3 [] code = "invalid_request" -> 2 [] code = "invalid_client" -> 1
selectNoMatchError(results) ==
  CHOOSE code \in {results[i] : i \in DOMAIN results} : \A i \in DOMAIN results : noMatchPrecedence(code) >= noMatchPrecedence(results[i])
resultForCode(results, code) == CHOOSE i \in DOMAIN results : results[i] = code /\ \A j \in 1..(i - 1) : results[j] # code

LastRule == attempt.rule = Len(ruleset)
(* A rule that does not match leaves its failure and hands over to the next one. *)
FallThrough(code, verdicts) ==
  LET results == Append(attempt.results, code)
      selected == selectNoMatchError(results)
  IN  IF LastRule
      THEN /\ attempt' = NoAttempt
           /\ issuance' = [NoIssuance EXCEPT !.code = selected, !.rule = resultForCode(results, selected),
                                             !.results = results, !.verdicts = verdicts]
      ELSE /\ attempt' = [attempt EXCEPT !.pc = "client_assertion", !.rule = @ + 1, !.results = results,
                                         !.category = "none", !.email = FALSE, !.verdicts = verdicts]
           /\ UNCHANGED issuance
AbortWith(code, uri) == Conclude(code, attempt.rule, uri)

(* A verification is made once per role and key provider within a request, its failure included. *)
Verdicts == {"verified", "bad_signature", "keys_unavailable"}
cachedVerdicts(role, iss) == {v \in Verdicts : <<role, iss, v>> \in attempt.verdicts}
verify(role, iss) == IF cachedVerdicts(role, iss) # {} THEN cachedVerdicts(role, iss) ELSE Verdicts
issuerFor(tok) == tok.iss \in Rule.trusts
validateAlgorithm(tok) == tok.alg = "allowed"
validateClaims(role, tok) ==
  /\ tok.live
  /\ IF role = "subject" /\ Rule.absentAudience THEN tok.aud = "absent" ELSE tok.aud = "expected"
parseUnverifiedSubject(tok) == tok.alg = "none"

AfterRole(role) == CASE role = "client_assertion" -> "actor" [] role = "actor" -> "subject" [] OTHER -> "identity"
RoleFailure(role) == IF role = "client_assertion" THEN "invalid_client" ELSE "invalid_request"
validateCredential(role) ==
  /\ AtStep(role)
  /\ LET tok == attempt[role]
     IN  IF role = "subject" /\ Rule.unverified
         THEN IF parseUnverifiedSubject(tok) THEN Continue("identity") ELSE FallThrough("invalid_request", attempt.verdicts)
         ELSE IF ~issuerFor(tok) \/ ~validateAlgorithm(tok) THEN FallThrough(RoleFailure(role), attempt.verdicts)
         ELSE \E v \in verify(role, tok.iss) :
                LET seen == attempt.verdicts \cup {<<role, tok.iss, v>>}
                IN  IF v = "verified" /\ validateClaims(role, tok)
                    THEN attempt' = [attempt EXCEPT !.pc = AfterRole(role), !.verdicts = seen] /\ UNCHANGED issuance
                    ELSE FallThrough(RoleFailure(role), seen)
  /\ UNCHANGED <<ruleset, exchangeVars>>

(* An unverified sub selects agent issuance only under a predicate that binds it. *)
\* Mutant: the binding is not asked for.
classifySubject_Unbound(unverified, bound, sub) == IF sub = "target" THEN "agent" ELSE "human"
classifySubject(unverified, bound, sub) == IF sub = "target" /\ (~unverified \/ bound) THEN "agent" ELSE "human"
SubBound == "subject_token.sub" \in Rule.binds

(* Extraction of the identities, classification, and the lookup that keeps another agent from passing for a human. *)
isOtherRegisteredAgent(candidates) == IF "other_agent" \in candidates THEN {"registered", "absent", "unavailable"} ELSE {"absent"}
ResolveSubject ==
  /\ AtStep("identity")
  /\ \/ FallThrough("invalid_request", attempt.verdicts)
     \/ \E principal \in {attempt.sub, "other_agent"} :
          LET category == classifySubject(Rule.unverified, SubBound, attempt.sub)
              looked == IF category = "human" /\ (~Rule.unverified \/ SubBound) THEN isOtherRegisteredAgent({attempt.sub, principal}) ELSE {"absent"}
          IN  \E found \in looked :
                CASE found = "unavailable" -> AbortWith("server_error", "none")
                  [] found = "registered" \/ category \notin Rule.allows -> FallThrough("access_denied", attempt.verdicts)
                  [] OTHER -> attempt' = [attempt EXCEPT !.pc = "policy", !.category = category] /\ UNCHANGED issuance
  /\ UNCHANGED <<ruleset, exchangeVars>>

(* An e-mail address the caller controls is minted only if the predicate binds it. *)
emailExtracted == attempt.category = "human" /\ Rule.email /\ (~Rule.unverified \/ "subject_token.email" \in Rule.binds)
AuthorizeRule ==
  /\ AtStep("policy")
  /\ \/ emailExtracted /\ FallThrough("invalid_request", attempt.verdicts)
     \/ AbortWith("server_error", "none")
     \/ FallThrough("access_denied", attempt.verdicts)
     \/ \E email \in IF emailExtracted THEN BOOLEAN ELSE {FALSE} :
          attempt' = [attempt EXCEPT !.pc = IF attempt.category = "human" THEN "delegation" ELSE "mint", !.email = email] /\ UNCHANGED issuance
  /\ UNCHANGED <<ruleset, exchangeVars>>

VerifyUserDelegation ==
  /\ AtStep("delegation")
  /\ \/ IF consent = "active" THEN Continue("mint") ELSE AbortWith("access_denied", "consent")
     \/ AbortWith("server_error", "none")
  /\ UNCHANGED <<ruleset, exchangeVars>>

IssueImpersonationToken ==
  /\ AtStep("mint")
  /\ Conclude("none", attempt.rule, "none") \/ AbortWith("server_error", "none")
  /\ UNCHANGED <<ruleset, exchangeVars>>

ImpersonationInit == ruleset \in {cfgs \in RuleSequences : NewService(cfgs)} /\ attempt = NoAttempt /\ issuance = NoIssuance

ImpersonationNext ==
  \/ \E client \in ClientTokens, actor \in ActorTokens, subject \in SubjectTokens, sub \in SubClaims : Impersonate(client, actor, subject, sub)
  \/ RefuseRequest
  \/ \E role \in {"client_assertion", "actor", "subject"} : validateCredential(role)
  \/ ResolveSubject \/ AuthorizeRule \/ VerifyUserDelegation \/ IssueImpersonationToken
  \/ ConsentChanges /\ UNCHANGED impersonationVars

(* ------------------------------- properties ------------------------------ *)

(* A request is at a rule that exists, and an answer carries a code of the token endpoint. *)
ImpersonationTypeInvariant ==
  /\ attempt # NoAttempt => attempt.rule \in 1..Len(ruleset) /\ Len(attempt.results) = attempt.rule - 1
  /\ issuance.code \in {"pending", "none", "invalid_request", "invalid_client", "invalid_target", "invalid_scope", "access_denied", "server_error"}

(* A token is minted for a category the matching rule admits; for a human only if the delegation was in force during *)
(* the request; for the agent itself, and with an e-mail address, from an unsigned subject only under a predicate that *)
(* binds that very claim.                                                                                               *)
MintedIsEntitled ==
  issuance.code = "none" =>
    LET r == ruleset[issuance.rule]
    IN  /\ issuance.category \in r.allows
        /\ issuance.category = "human" => consented
        /\ (issuance.category = "agent" /\ r.unverified) => "subject_token.sub" \in r.binds
        /\ (issuance.email /\ r.unverified) => "subject_token.email" \in r.binds

(* When no rule matches, the answer does not depend on the order of the rules: no rule failed with a code that takes *)
(* precedence over the answered one, and the audit record names a rule that failed with it.                           *)
NoMatchIsOrderIndependent ==
  issuance.results # <<>> /\ Len(issuance.results) = Len(ruleset) =>
    /\ \A i \in DOMAIN issuance.results : noMatchPrecedence(issuance.results[i]) <= noMatchPrecedence(issuance.code)
    /\ issuance.results[issuance.rule] = issuance.code

(* Within one request a credential has one verdict per issuer: rules tried later see neither keys that were rotated *)
(* meanwhile nor a key endpoint that came back.                                                                      *)
VerdictIsStable ==
  \A v, w \in (IF attempt = NoAttempt THEN issuance.verdicts ELSE attempt.verdicts) : (v[1] = w[1] /\ v[2] = w[2]) => v[3] = w[3]

==============================================================================
