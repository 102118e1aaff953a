-------------------------- MODULE MCAdministration --------------------------
(* Instances of the administrative components for TLC.  Each part explores   *)
(* one of them, or one mix of its actors; the others stay as they start.     *)
EXTENDS ProviderRegistry, ServiceValidation, Consents

CONSTANTS a1, a2, s1, s2, u1, u2, i1, i2, c1,        \* services
          k1, k2, p1, p2, v1, v2, x1, n1, e1, w1     \* agents, permission sets and consents

VARIABLES part, scene

Rq(url, issuer, params, sends, set) ==
    [url |-> url, issuer |-> issuer, params |-> params, sends |-> sends, set |-> set]
MCBodies == {Rq(u1, NoIssuer, "omitted", FALSE, {}), Rq(u2, NoIssuer, "omitted", FALSE, {}),
             Rq(u1, i2, u1, FALSE, {}), Rq(u1, i1, NoURI, TRUE, {u1}), Rq(NoURI, i1, "omitted", FALSE, {})}
OneService == table'[s2] = NoRow /\ \A a \in Admins : work'[a].svc # s2

MCForms == {f \in [source : {"", "stored", "filesystem"}, canonical : {"omitted", "null", "given"},
                    registration : {"", "static", "cimd"}, auth : {"", "none", "private_key_jwt", "client_secret_basic"},
                    flavor : {"standard", "google"}, client : BOOLEAN, secret : BOOLEAN, resource : BOOLEAN,
                    endpoints : BOOLEAN, loose : BOOLEAN] : f.endpoints = ~f.resource}

(* Permission sets, agents and consents, one mix of actors per scene.       *)
Scopes(a, b) == [v \in Svcs |-> IF v = v1 THEN a ELSE b]
OfSets(a, b) == [p \in PSets |-> IF p = p1 THEN a ELSE b]
Wider == [canon |-> "omitted", scopes |-> Scopes("optional", "mandatory")]
MCSetBodies == {Wider, [canon |-> "null", scopes |-> Scopes("optional", "")]}
Row1 == [canon |-> n1, scopes |-> Scopes("optional", "")]
Row2 == [canon |-> None, scopes |-> Scopes("", "mandatory")]

Identity(ext, canon, client, uris, text) ==
    [ext |-> ext, canon |-> canon, client |-> client, uris |-> uris, sets |-> OfSets("mandatory", ""),
     reqs |-> Scopes("", ""), text |-> text]
IdentityBodies == {Identity("omitted", "omitted", "omitted", {w1}, 1), Identity(x1, n1, "omitted", {}, 1),
                   Identity(x1, "null", e1, {}, 2), Identity("null", n1, e1, {}, 1)}
Referring(sets, reqs) == [Identity("omitted", "omitted", "omitted", {}, 1) EXCEPT !.sets = sets, !.reqs = reqs]
Referring1 == Referring(OfSets("optional", ""), Scopes("", ""))
Referring2 == Referring(OfSets("optional", "mandatory"), Scopes("", "optional"))

Asks(asked, s, t, until) == [asked |-> asked, entries |-> OfSets(s, t), until |-> until]
GrantBodies == {Asks({p1}, {v1}, {}, "none"), Asks({p1, p2}, {v1, v2}, {v2}, "later")}
RuleBodies == {Asks(P, s, t, "none") : P \in SUBSET PSets, s \in SUBSET Svcs, t \in SUBSET Svcs}

Start(sets, agents) ==
    LET d == [sets |-> sets, agents |-> agents, grants |-> [a \in AgentIDs |-> NoGrant],
              minted |-> {a \in AgentIDs : agents[a] # NoAgent}, issued |-> 0, mem |-> NoIndexes]
    IN  db = IF deployment = "memory" THEN [d EXCEPT !.mem = IndexesOf(d)] ELSE d
Only(agent) == [a \in AgentIDs |-> IF a = 1 THEN agent ELSE NoAgent]

SceneInit ==
    \/ /\ scene = "reconcile" /\ deployment \in {"postgres", "memory"} /\ psCache = OfSets(Row1, Row2)
       /\ Start(OfSets(Row1, Row2), Only(NoAgent))
    \/ /\ scene = "references" /\ deployment \in {"postgres", "memory"} /\ psCache = OfSets(NoSet, Row2)
       /\ Start(OfSets(Row1, Row2), Only(NoAgent))
    \/ /\ scene = "consents" /\ deployment \in {"postgres", "memory"} /\ psCache = OfSets(NoSet, Row2)
       /\ Start(OfSets(Row1, Row2), Only([NoAgent EXCEPT !.sets = OfSets("mandatory", "optional")]))
    \/ /\ scene = "rules" /\ deployment = "postgres" /\ psCache = OfSets(NoSet, NoSet)
       /\ \E s \in [Svcs -> Requirement], b \in {"optional", "mandatory"}, c \in Requirement, d \in {"optional", "mandatory"},
             reqs \in {Scopes("", ""), Scopes("optional", ""), Scopes("optional", "mandatory")} :
             /\ s # NoSet.scopes
             /\ Start(OfSets([canon |-> None, scopes |-> s], [canon |-> None, scopes |-> Scopes("", b)]),
                      Only([NoAgent EXCEPT !.sets = OfSets(d, c), !.reqs = reqs]))

DelegationInit == SceneInit /\ calls = [c \in Callers |-> NoCall] /\ connected = Svcs

\* A state for the runs of other components.
NoDelegation ==
    /\ scene = "none" /\ deployment = "postgres" /\ psCache = OfSets(NoSet, NoSet) /\ connected = {}
    /\ calls = [c \in Callers |-> NoCall] /\ Start(OfSets(NoSet, NoSet), Only(NoAgent))

sceneVars == <<consentVars, scene>>

SetAdmin(c, p, bodies) ==
    \/ \E b \in bodies : UpdateSet(c, p, b)
    \/ DeleteSet(c, p) \/ UpdateSetFill(c) \/ UpdateSetWrite(c) \/ Invalidate(c) \/ DeleteSetCount(c) \/ DeleteSetRow(c)

ReconcileScene ==
    /\ scene = "reconcile" /\ UNCHANGED connected
    /\ \/ \E c \in Callers : AgentCallNext(c) \/ \E b \in IdentityBodies : ReconcileAgent(c, x1, b)
       \/ \E b \in IdentityBodies, a \in AgentIDs :
             \/ b.text = 1 /\ CreateAgent(k2, b)
             \/ db.agents[a] # NoAgent /\ UpdateAgent(k2, a, b)
             \/ DeleteAgent(k2, a)

ReferencesScene ==
    /\ scene = "references" /\ UNCHANGED connected
    /\ \/ SetAdmin(k1, p1, SetBodies) \/ CreateSet(k1, p1, Wider) \/ AgentCallNext(k2) \/ evictExpired(p1) \/ DeleteAgent(k2, 1)
       \/ \E b \in {Referring1, Referring2} : IF db.minted = {} THEN CreateAgent(k2, b) ELSE UpdateAgent(k2, 1, b)

ConsentsScene ==
    /\ scene = "consents"
    /\ \/ /\ SetAdmin(k1, p1, {Wider}) \/ CreateSet(k1, p1, Wider) \/ AgentCallNext(k1) \/ UpdateAgent(k1, 1, Referring2) \/ DeleteAgent(k1, 1) \/ evictExpired(p1)
          /\ UNCHANGED connected
       \/ (\E b \in GrantBodies : GrantConsent(k2, 1, b)) \/ GrantCallNext(k2) \/ RevokeConsent(k2, 1) \/ GrantExpires(1)

RulesScene ==
    /\ scene = "rules"
    /\ \/ \E b \in RuleBodies : (\A p \in PSets \ b.asked : b.entries[p] = {}) /\ GrantConsent(k2, 1, b)
       \/ GrantFill(k2) \/ GrantValidate(k2) \/ GrantWriteFails(k2)
       \/ connected = Svcs /\ Reconnect(v2) /\ Idle(k2)

DelegationNext == (ReconcileScene \/ ReferencesScene \/ ConsentsScene \/ RulesScene) /\ UNCHANGED scene

Init ==
    /\ RegistryInit /\ ValidationInit
    /\ \/ part \in {"admins", "users", "owners", "validation"} /\ NoDelegation
       \/ part = "delegation" /\ DelegationInit

RegistryParts ==
    /\ \/ part = "admins" /\ (ResourceNext \/ RegistryTick \/ \E a \in Admins : AdminNext(a)) /\ OneService
       \/ part = "users" /\ (UserNext \/ ResourceNext \/ RegistryTick \/ AdminNext(a1)) /\ OneService
       \/ part = "owners" /\ (ResourceNext \/ AdminNext(a1))
    /\ UNCHANGED <<part, validationVars, sceneVars>>

ValidationPart == part = "validation" /\ ValidationNext /\ UNCHANGED <<part, registryVars, sceneVars>>

DelegationPart == part = "delegation" /\ DelegationNext /\ UNCHANGED <<part, registryVars, validationVars>>

Next == RegistryParts \/ ValidationPart \/ DelegationPart

Spec == Init /\ [][Next]_<<registryVars, validationVars, sceneVars, part>>
=============================================================================
