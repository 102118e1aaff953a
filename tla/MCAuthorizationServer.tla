----------------------- MODULE MCAuthorizationServer -----------------------
(* Instances of the parts of the broker's authorization server for TLC: its  *)
(* signing keys, client assertions, client documents, the authorization and  *)
(* the token endpoint, the keys and credentials it takes from others, and    *)
(* the background refresh of third-party sessions.                           *)
(* They share no state, so each is a part of one state space.  Each part is  *)
(* made of scenes: initial states and budgets that make its races happen.    *)
EXTENDS RefreshFlights, SigningKeys, ClientAssertions, ClientDocuments, Authorization, TokenEndpoint,
        KeySources, CredentialFiles

CONSTANTS k1, k2, c1, c2, t1, t2, x1, x2,      \* refresh flights
          q1, q2, q3, g1, g2, g3,              \* signing keys
          v1, v2, e1, e2,                      \* client assertions
          u1, u2, r1, r2,                      \* client documents
          y1, y2,                              \* services of the authorization endpoint
          z1, z2                               \* requests for a published key set

VARIABLES part, scene

(* Two sessions' refreshes compete for one slot around a shutdown, or two    *)
(* callers and a background refresh share the flights of one session.  Tasks *)
(* and callers of Close are alike, so they may begin in one order.           *)
Competing ==
  /\ now' <= 1
  /\ caller'[c2] = caller[c2]
  /\ \A k \in Keys : flight[k] = Nil => session'[k] = session[k]
Sharing ==
  /\ task'[t2] = task[t2] /\ closer'[x2] = closer[x2]
  /\ session'[k2] = session[k2]
  /\ \A c \in Callers : caller'[c].key # k2
InOrder ==
  /\ task'[t2].pc # "new" => task'[t1].pc # "new"
  /\ closer'[x2] # "idle" => closer'[x1] # "idle"
FlightScenes == {"competing", "sharing"}
FlightNext == Next /\ (IF scene = "sharing" THEN Sharing ELSE Competing) /\ InOrder

(* Signing keys: what each goroutine does, and for how long.                 *)
KeyRow(current) == [current |-> current, activatesAt |-> 0, removed |-> FALSE]
NoKeys == [k \in KeyIDs |-> None]
OneKey == [NoKeys EXCEPT ![q1] = KeyRow(TRUE)]
TwoKeys == [OneKey EXCEPT ![q2] = KeyRow(FALSE)]
Script(a, b, c) == [g \in Goroutines |-> IF g = g1 THEN a ELSE IF g = g2 THEN b ELSE c]
KeyScenes == {"boot", "first", "adds", "grace", "rotate", "compete", "local", "share"}
KeyScene ==
  CASE scene = "boot" -> \E d \in BOOLEAN : KeyInit(d, NoKeys, Script(<<"ensure", "add">>, <<"ensure">>, <<>>), 1)
    [] scene = "first" -> KeyInit(TRUE, NoKeys, Script(<<"add", "mint">>, <<"add">>, <<>>), 1)
    [] scene = "adds" -> KeyInit(FALSE, OneKey, Script(<<"add", "mint">>, <<"add">>, <<>>), 3)
    [] scene = "grace" -> \E d \in BOOLEAN : KeyInit(d, OneKey, Script(<<"add", "mint">>, <<"delete">>, <<>>), 3)
    [] scene = "rotate" -> \E d \in BOOLEAN : KeyInit(d, TwoKeys, Script(<<"mint", "mint">>, <<"promote", "delete">>, <<>>), 1)
    [] scene = "compete" -> KeyInit(FALSE, TwoKeys, Script(<<"mint", "delete">>, <<"promote", "add">>, <<>>), 1)
    [] scene = "local" -> KeyInit(FALSE, TwoKeys, Script(<<"promote", "delete">>, <<"promote", "delete">>, <<>>), 0)
    [] scene = "share" -> KeyInit(FALSE, TwoKeys, Script(<<"mint", "promote">>, <<>>, <<"mint">>), 0)
    [] OTHER -> KeyInit(FALSE, OneKey, Script(<<>>, <<>>, <<>>), 0)

(* Client assertions: which are presented, how often, and what changes.      *)
A1 == [kid |-> e1, jti |-> "j1", exp |-> 1]
A2 == [kid |-> e2, jti |-> "j2", exp |-> 2]
MCAssertions == {A1, A2}
Limits(offered, calls, changes, evictions, ticks) ==
  [offered |-> offered, calls |-> calls, changes |-> changes, evictions |-> evictions, ticks |-> ticks]
CachedKeys == [keys |-> {e1}, fetchedAt |-> 0, lastRefetchAt |-> 0]
AssertionScenes == {"replay", "rotation", "publish", "unknown"}
AssertionScene ==
  AssertionInit({e1}, CachedKeys,
    CASE scene = "replay" -> Limits({A1}, 2, 0, 0, 3)
      [] scene = "rotation" -> Limits({A1}, 2, 1, 0, 4)
      [] scene = "publish" -> Limits({A2}, 2, 1, 0, 3)
      [] scene = "unknown" -> Limits({A2}, 3, 0, 1, 3)
      [] OTHER -> Limits({}, 0, 0, 0, 0))

(* Client documents: what the host serves first and what changes.            *)
HostedDoc(private, flaws) == [private |-> private, flaws |-> flaws]
Flawed == HostedDoc(FALSE, {"client_id", "logo_uri"})
MCDocuments == {HostedDoc(FALSE, {}), HostedDoc(TRUE, {}), Flawed}
DocLimits(calls, replacements, agents, ticks) ==
  [calls |-> calls, replacements |-> replacements, agents |-> agents, ticks |-> ticks]
DocScenes == {"replace", "agent", "flawed"}
DocScene ==
  CASE scene = "replace" -> DocInit(HostedDoc(FALSE, {}), DocLimits(2, 1, 0, 3))
    [] scene = "agent" -> DocInit(HostedDoc(TRUE, {}), DocLimits(3, 0, 1, 1))
    [] scene = "flawed" -> DocInit(Flawed, DocLimits(2, 1, 0, 1))
    [] OTHER -> DocInit(HostedDoc(FALSE, {}), DocLimits(0, 0, 0, 0))

(* The endpoints: deployments, agents, documents, grants and sessions.       *)
Agent(clientID, clientURI, uris, scopes, declared, mandatory) ==
  [clientID |-> clientID, clientURI |-> clientURI, uris |-> uris, scopes |-> scopes, declared |-> declared,
   mandatory |-> mandatory]
LocalAgent == Agent(FALSE, FALSE, {"web", "legacy"}, {"read"}, {"a", "b"}, {y2})
OpenAgent == Agent(FALSE, FALSE, {"web"}, {}, {"a"}, {})
MovedAgent == Agent(FALSE, FALSE, {"private"}, {}, {"a"}, {})
CIMDAgent == Agent(FALSE, TRUE, {"private"}, {}, {"a", "b"}, {})
ProxiedAgent == Agent(TRUE, FALSE, {"web"}, {}, {"a", "b"}, {y2})
AmbiguousAgent == Agent(TRUE, TRUE, {"web"}, {}, {"a", "b"}, {})
MCAgents == {LocalAgent, MovedAgent, CIMDAgent, ProxiedAgent}
KindsOfAgent == {LocalAgent, OpenAgent, ProxiedAgent, CIMDAgent, AmbiguousAgent}
PublicDoc == [uris |-> {"web", "private"}, auth |-> "none"]
SigningDoc == [uris |-> {"private"}, auth |-> "private_key_jwt"]
MCClientDocs == {PublicDoc, SigningDoc, NoRecord}
Grant(sets, services, active) == [sets |-> sets, services |-> services, active |-> active]
SmallGrant == Grant({"a"}, {y1}, TRUE)
MCGrants == {SmallGrant, Grant({"a", "b"}, {y1, y2}, TRUE), Grant({"a"}, {y1}, FALSE)}
Deployment(mode, checks) == [mode |-> mode, cimd |-> mode # "proxy", upstream |-> mode # "local", verifier |-> checks]
Changes(agent, cred, doc, grant, sessions, calls) ==
  [agent |-> agent, credential |-> cred, document |-> doc, grant |-> grant, session |-> sessions, calls |-> calls]
AllConnected == [v \in AuthServices |-> "full"]

AuthScenes == {"client", "callback", "consent"}
TokenScenes == {"routes", "secret", "chain"}
EndpointScene ==
  CASE scene = "client" ->
         /\ \E m \in ServerModes, a \in KindsOfAgent, s \in {"none", "old"} :
              ClientInit(Deployment(m, TRUE), a, s, PublicDoc, Changes(1, 0, 0, 0, 0, 0))
         /\ AuthInit(SmallGrant, AllConnected)
    [] scene = "callback" ->
         /\ \/ ClientInit(Deployment("local", TRUE), CIMDAgent, "none", PublicDoc, Changes(0, 0, 2, 0, 0, 0))
            \/ ClientInit(Deployment("local", TRUE), OpenAgent, "old", PublicDoc, Changes(0, 1, 0, 0, 0, 0))
         /\ AuthInit(SmallGrant, AllConnected)
    [] scene = "consent" ->
         /\ \E a \in {LocalAgent, OpenAgent} :
              ClientInit(Deployment("local", TRUE), a, "old", PublicDoc, Changes(0, 0, 0, 1, 1, 0))
         /\ \E g \in MCGrants \union {NoRecord}, s \in SessionStates : AuthInit(g, [AllConnected EXCEPT ![y2] = s])
    [] scene = "routes" ->
         /\ \E m \in ServerModes, a \in KindsOfAgent, s \in {"none", "old"}, v \in BOOLEAN :
              ClientInit(Deployment(m, v), a, s, PublicDoc, Changes(1, 0, 0, 0, 0, 0))
         /\ AuthInit(SmallGrant, AllConnected)
    [] scene = "secret" ->
         /\ \E s \in {"none", "old"} :
              ClientInit(Deployment("hybrid", TRUE), LocalAgent, s, PublicDoc, Changes(1, 2, 0, 0, 0, 0))
         /\ AuthInit(SmallGrant, AllConnected)
    [] OTHER ->
         /\ \E d \in {PublicDoc, SigningDoc} :
              /\ scene # "chain" => d = PublicDoc
              /\ ClientInit(Deployment("local", TRUE), CIMDAgent, "none", d, Changes(0, 0, 2, 0, 0, 2))
         /\ AuthInit(SmallGrant, AllConnected)

AuthRequests ==
  CASE scene = "client" -> {"url", "uuid"} \X {"web", "private", "legacy"} \X {"", "write"} \X {"code"}
    [] scene = "callback" -> {"url", "uuid"} \X {"web", "private"} \X {"offline_access"} \X {"code", "token"}
    [] OTHER -> {<<"uuid", "web", "read", "code">>, <<"uuid", "web", "write", "code">>, <<"", "web", "", "code">>}
AuthNext ==
  \/ \E q \in AuthRequests : Authorize(q[1], q[2], q[3], q[4])
  \/ AuthStep
  \/ areq.stage \notin {"none", "done"} /\ AuthAround

TokenRequests ==
  CASE scene = "routes" ->
         {<<f, "uuid", "token_exchange", "", "", FALSE>> : f \in RequestFlaws \union {""}}
         \union {<<"repeated", "uuid", "impersonation", "", "", FALSE>>}
         \union {<<"", f, g, "old", "", FALSE>> : f \in {"", "url", "uuid"}, g \in {"client_credentials", "password"}}
    [] scene = "secret" ->
         {<<"", "uuid", g, s, "", FALSE>> : g \in {"client_credentials", "authorization_code"}, s \in {"", "old", "new", "bad"}}
    [] OTHER ->
         {<<"", "url", g, "", a, FALSE>> : g \in {"authorization_code", "refresh_token"}, a \in {"", "good", "bad"}}
         \union {<<"", "url", "refresh_token", "", "good", TRUE>>}
TokenNext ==
  \/ \E q \in TokenRequests : TokenRequest(q[1], q[2], q[3], q[4], q[5], q[6])
  \/ TokenStep
  \/ tcall.stage # "none" /\ TokenAround
  \/ TokenCallReturns

(* Key sources: an upstream that rotates into an identifier of the broker,   *)
(* withdraws a key, or is left behind at shutdown; and a key-set file.       *)
Quota(requests, sets, own, ticks, shutdowns) ==
  [requests |-> requests, sets |-> sets, own |-> own, ticks |-> ticks, shutdowns |-> shutdowns]
SourceScenes == {"merged", "fading", "stopped", "file"}
SourceScene ==
  CASE scene = "merged" -> SourceInit({"own"}, Quota(1, 1, 1, 1, 0))
    [] scene = "fading" -> SourceInit({}, Quota(1, 1, 0, 5, 0))
    [] scene = "stopped" -> SourceInit({}, Quota(2, 0, 0, 1, 1))
    [] scene = "file" -> SourceInit({}, Quota(0, 1, 0, 6, 0))
    [] OTHER -> SourceInit({}, Quota(0, 0, 0, 0, 0))
SourceNext ==
  /\ IF scene = "file" THEN FileSetNext ELSE UpstreamNext
  /\ asks'[z2].pc # "idle" => asks'[z1].pc # "idle"

(* Credential files: up to three generations while pairs are read.           *)
CredentialScene == IF part = "files" THEN FileInit ELSE FileInit /\ defects = Sound

Scenes ==
  [flights |-> FlightScenes, keys |-> KeyScenes, assertions |-> AssertionScenes, documents |-> DocScenes,
   authorize |-> AuthScenes, token |-> TokenScenes, sources |-> SourceScenes, files |-> {"rotation"}]

MCInit ==
  /\ part \in DOMAIN Scenes /\ scene \in Scenes[part]
  /\ Init /\ KeyScene /\ AssertionScene /\ DocScene /\ EndpointScene /\ TokenInit
  /\ SourceScene /\ CredentialScene

ownAuth == <<areq, userGrant, userSession, held>>
ownToken == <<tcall, refreshRow, matched, wasBound>>
MCNext ==
  /\ UNCHANGED <<part, scene>>
  /\ \/ /\ part = "flights" /\ FlightNext
        /\ UNCHANGED <<keyVars, assertionVars, docVars, clientVars, ownAuth, ownToken, sourceVars, fileVars>>
     \/ /\ part = "keys" /\ KeyNext
        /\ UNCHANGED <<vars, assertionVars, docVars, clientVars, ownAuth, ownToken, sourceVars, fileVars>>
     \/ /\ part = "assertions" /\ AssertionNext
        /\ UNCHANGED <<vars, keyVars, docVars, clientVars, ownAuth, ownToken, sourceVars, fileVars>>
     \/ /\ part = "documents" /\ DocNext
        /\ UNCHANGED <<vars, keyVars, assertionVars, clientVars, ownAuth, ownToken, sourceVars, fileVars>>
     \/ /\ part = "authorize" /\ AuthNext
        /\ UNCHANGED <<vars, keyVars, assertionVars, docVars, ownToken, sourceVars, fileVars>>
     \/ /\ part = "token" /\ TokenNext
        /\ UNCHANGED <<vars, keyVars, assertionVars, docVars, ownAuth, sourceVars, fileVars>>
     \/ /\ part = "sources" /\ SourceNext
        /\ UNCHANGED <<vars, keyVars, assertionVars, docVars, clientVars, ownAuth, ownToken, fileVars>>
     \/ /\ part = "files" /\ FileNext(3)
        /\ UNCHANGED <<vars, keyVars, assertionVars, docVars, clientVars, ownAuth, ownToken, sourceVars>>

mcVars == <<vars, keyVars, assertionVars, docVars, authVars, ownToken, sourceVars, fileVars, part, scene>>
MCSpec == MCInit /\ [][MCNext]_mcVars
=============================================================================
