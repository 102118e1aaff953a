--------------------------- MODULE MCTokenServices ---------------------------
(* Instances of the services that issue and exchange tokens for TLC: one     *)
(* part of the state space per service, since they share no state.           *)
EXTENDS RefreshChains, ExtProc, Impersonation, TLC

CONSTANTS c1, h1, h2, q1, q2, g1, g2

VARIABLE part

Symmetry == Permutations(Handlers)

MCSetDefinitions == {[s1 |-> {"read"}], [s1 |-> {}], [s2 |-> {"read"}], [s1 |-> {"write"}, s2 |-> {"read"}]}
Scopes(all, scopes) == [all |-> all, scopes |-> scopes]
MCRequirements == {<<>>, [s1 |-> Scopes(TRUE, {})], [s1 |-> Scopes(FALSE, {"read"})], [s1 |-> Scopes(FALSE, {})], [s2 |-> Scopes(TRUE, {})]}

Signed(absent, allows, email, binds, trusts) ==
  [unverified |-> FALSE, absentAudience |-> absent, allows |-> allows, email |-> email, binds |-> binds, trusts |-> trusts,
   authorization |-> "cel"]
Unsigned(allows, email, binds) == [Signed(FALSE, allows, email, binds, {"i1"}) EXCEPT !.unverified = TRUE]
MCRuleConfigs ==
  {Signed(FALSE, {"human"}, TRUE, {}, {"i1", "i2"}), Signed(TRUE, {"agent"}, FALSE, {"subject_token"}, {"i1"}),
   Unsigned({"human", "agent"}, TRUE, {"subject_token"}),
   Unsigned({"human", "agent"}, TRUE, {"subject_token", "subject_token.sub", "subject_token.email"}),
   Unsigned({"human"}, FALSE, {}), Signed(TRUE, {"human"}, FALSE, {}, {"i2"})}

Parts == {"chains", "exchanger", "probe", "stream", "exchange", "impersonation"}
MCInit ==
  /\ part \in Parts
  /\ Init /\ ExchangerInit /\ StreamInit /\ ExchangeInit
  /\ part # "exchanger" => assertionExp = Unbounded /\ breaker.state = "closed"
  /\ part # "stream" => server = [opa |-> FALSE, gate |-> FALSE, sdk |-> FALSE]
  /\ IF part = "impersonation" THEN ImpersonationInit ELSE ruleset = <<>> /\ attempt = NoAttempt /\ issuance = NoIssuance

\* Two callers of two subjects while the broker is down: what the half-open circuit lets through.
ProbeNext ==
  /\ ExchangerNext
  /\ clock' <= 3 /\ clients'[g1].key \in {"none", q1} /\ clients'[g2].key \in {"none", q2}
  /\ \A k \in CacheKeys : exchanges'[k].err \in {"none", "server_error", "circuit_open"} /\ (tokens'[k].kind = "token" => tokens'[k].life = DefaultTTL)

allVars == <<vars, exchangerVars, streamVars, exchangeVars, impersonationVars, part>>
MCNext ==
  /\ UNCHANGED part
  /\ \/ part = "chains" /\ Next /\ UNCHANGED <<exchangerVars, streamVars, exchangeVars, impersonationVars>>
     \/ /\ part = "exchanger" /\ ExchangerNext /\ \A c \in Clients : clients'[c].key # q2
        /\ UNCHANGED <<vars, streamVars, exchangeVars, impersonationVars>>
     \/ part = "probe" /\ ProbeNext /\ UNCHANGED <<vars, streamVars, exchangeVars, impersonationVars>>
     \/ part = "stream" /\ StreamNext /\ UNCHANGED <<vars, exchangerVars, exchangeVars, impersonationVars>>
     \/ part = "exchange" /\ ExchangeNext /\ UNCHANGED <<vars, exchangerVars, streamVars, impersonationVars>>
     \/ part = "impersonation" /\ ImpersonationNext /\ UNCHANGED <<vars, exchangerVars, streamVars>>

MCSpec == MCInit /\ [][MCNext]_allVars

==============================================================================
