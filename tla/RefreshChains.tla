---------------------------- MODULE RefreshChains ----------------------------
(***************************************************************************)
(* The refresh tokens the broker issues to one agent for one principal,    *)
(* and the consent they rest on.  A code is redeemed for the first token   *)
(* of a chain, each refresh replaces the token by its successor, a token   *)
(* or code presented a second time revokes its chain, and revoking or      *)
(* renewing the consent revokes all of them.  Handlers run concurrently on *)
(* PostgreSQL at READ COMMITTED: a statement sees what was committed when  *)
(* it began, waits for the rows another transaction has changed and then   *)
(* looks at these rows again.  A rotation holds the agent's row FOR KEY    *)
(* SHARE, the revocation of all sessions holds it FOR UPDATE.              *)
(***************************************************************************)
EXTENDS Naturals, Sequences, FiniteSets

CONSTANTS
  Codes,       \* authorization codes; the request ID of a chain is its code
  Handlers,    \* goroutines that serve a request
  Nil,
  MaxTokens,   \* bound: no request for a token starts once so many were issued
  MaxGrants    \* bound: no request for a grant starts once so many were created

ASSUME ChainsAssumption == Nil \notin Handlers /\ Nil \notin Codes

VARIABLES
  grant,     \* the row of user_grants, or Nil
  grants,    \* grants created so far: the ID of the latest
  token,     \* refresh_token_sessions, in the order they were committed
  code,      \* authorization_codes
  agent,     \* who holds the row of agents, in which mode
  handler,   \* the request each goroutine serves
  stopped,   \* history: chains that had a token when all sessions were revoked
  replayed   \* history: chains revoked because a token was used again

vars == <<grant, grants, token, code, agent, handler, stopped, replayed>>

(* The requests under way when a bound is reached still finish. *)
GrantIDs == 1..(MaxGrants + Cardinality(Handlers))
TokenIDs == 1..(MaxTokens + Cardinality(Handlers))

Grant == [id : GrantIDs, expired : BOOLEAN]
(* used_at as committed, the transaction that has set it but not committed *)
(* yet, the signature it succeeds (0: the code's first), expired and gone. *)
Token == [chain : Codes, grant : GrantIDs, parent : {0} \cup TokenIDs,
          used : BOOLEAN, by : Handlers \cup {Nil}, gone : BOOLEAN]
Code == [used : BOOLEAN, by : Handlers \cup {Nil}]
Agent == [share : SUBSET Handlers, exclusive : Handlers \cup {Nil}]

PCs == {"idle", "verify", "share", "mark", "rotate", "reuse", "select", "revoke",
        "redeem", "consent", "issue", "create", "update", "exclusive", "apply"}
Handler == [pc : PCs, token : {0} \cup TokenIDs, chain : Codes \cup {Nil}, grant : {0} \cup GrantIDs,
            targets : SUBSET TokenIDs, op : {"none", "refresh", "deny", "reuse", "redeem", "revoke", "renew"}]

Idle == [pc |-> "idle", token |-> 0, chain |-> Nil, grant |-> 0, targets |-> {}, op |-> "none"]

At(h, pc) == handler[h].pc = pc
Goto(h, pc) == handler' = [handler EXCEPT ![h].pc = pc]
Begin(h, pc, t, c, g, op) ==
  handler' = [handler EXCEPT ![h] = [pc |-> pc, token |-> t, chain |-> c, grant |-> g, targets |-> {}, op |-> op]]
Done(h) == handler' = [handler EXCEPT ![h] = Idle]

Active(t) == ~token[t].used /\ ~token[t].gone
ActiveTokens == {t \in DOMAIN token : Active(t)}
OfChain(c) == {t \in DOMAIN token : token[t].chain = c}

(* The end of h's transaction: its locks are given up. *)
Unlocked(h) == [share |-> agent.share \ {h}, exclusive |-> IF agent.exclusive = h THEN Nil ELSE agent.exclusive]
Released(h) == [t \in DOMAIN token |-> IF token[t].by = h THEN [token[t] EXCEPT !.by = Nil] ELSE token[t]]

\* Mutant: a failed request keeps the row of the agent.
Rollback_KeepsAgent(h) ==
  /\ UNCHANGED agent
  /\ token' = Released(h)
  /\ code' = [c \in Codes |-> IF code[c].by = h THEN [code[c] EXCEPT !.by = Nil] ELSE code[c]]
  /\ Done(h)
Rollback(h) ==
  /\ agent' = Unlocked(h)
  /\ token' = Released(h)
  /\ code' = [c \in Codes |-> IF code[c].by = h THEN [code[c] EXCEPT !.by = Nil] ELSE code[c]]
  /\ Done(h)

(* VerifyAgentAccess: the grant is there and has not expired. *)
Granted == grant # Nil /\ ~grant.expired

(* --------------------------- HandleRefreshToken ------------------------ *)

(* GetRefreshTokenSession reads the token: one that was used is a replay.  *)
FindToken(h, t) ==
  /\ At(h, "idle") /\ t \in DOMAIN token /\ ~token[t].gone
  /\ token[t].used \/ Len(token) < MaxTokens
  /\ Begin(h, IF token[t].used THEN "reuse" ELSE "verify", t, token[t].chain, 0,
           IF token[t].used THEN "reuse" ELSE "refresh")
  /\ UNCHANGED <<grant, grants, token, code, agent, stopped, replayed>>

\* Without the grant it was issued under, the token is worth nothing.
Refused(t) == ~Granted \/ grant.id # token[t].grant

(* It then reads the grant, and revokes the chain if it is not the token's. *)
VerifyGrant(h) ==
  /\ At(h, "verify")
  /\ handler' = [handler EXCEPT ![h] =
       IF Refused(@.token) THEN [@ EXCEPT !.pc = "select", !.op = "deny"]
       ELSE [@ EXCEPT !.pc = "share", !.grant = grant.id]]
  /\ UNCHANGED <<grant, grants, token, code, agent, stopped, replayed>>

\* Mutant: the row of the agent is not locked.
ShareLock_None(h) == agent
ShareLock(h) == [agent EXCEPT !.share = @ \cup {h}]

(* MarkUsed, its first statement: FOR KEY SHARE.  A reuse takes the same   *)
(* lock, finds the token used and goes on to revoke the chain.             *)
ShareAgent(h) ==
  /\ At(h, "share") \/ At(h, "reuse")
  /\ agent.exclusive = Nil
  /\ ~token[handler[h].token].gone
  /\ agent' = ShareLock(h)
  /\ Goto(h, IF At(h, "share") THEN "mark" ELSE "select")
  /\ UNCHANGED <<grant, grants, token, code, stopped, replayed>>

(* The token was deleted meanwhile: no row of an agent to lock.            *)
ShareNoRow(h) ==
  /\ At(h, "share") \/ At(h, "reuse")
  /\ token[handler[h].token].gone
  /\ \/ At(h, "share") /\ Rollback(h)
     \/ At(h, "reuse") /\ Goto(h, "select") /\ UNCHANGED <<token, code, agent>>
  /\ UNCHANGED <<grant, grants, stopped, replayed>>

StillUnused(t) == Active(t)

(* MarkUsed, its second statement.  Nothing updated: the request fails.    *)
MarkUsed(h) ==
  LET t == handler[h].token
  IN  /\ At(h, "mark") /\ token[t].by = Nil
      /\ \/ /\ StillUnused(t)
            /\ token' = [token EXCEPT ![t].by = h]
            /\ Goto(h, "rotate")
            /\ UNCHANGED <<code, agent>>
         \/ ~StillUnused(t) /\ Rollback(h)
      /\ UNCHANGED <<grant, grants, stopped, replayed>>

NewToken(c, g, p) == [chain |-> c, grant |-> g, parent |-> p, used |-> FALSE, by |-> Nil, gone |-> FALSE]

\* Mutant: the token presented is left as it was.
Spent_Kept(h) == Released(h)
\* The rows h has changed, as they are once it commits.
Spent(h) == [t \in DOMAIN token |-> IF token[t].by = h THEN [token[t] EXCEPT !.by = Nil, !.used = TRUE] ELSE token[t]]

(* CreateSuccessor and Commit: the token is used and its successor there,  *)
(* both at once.                                                           *)
CommitRotation(h) ==
  /\ At(h, "rotate")
  /\ token' = Append(Spent(h), NewToken(handler[h].chain, handler[h].grant, handler[h].token))
  /\ agent' = Unlocked(h)
  /\ Done(h)
  /\ UNCHANGED <<grant, grants, code, stopped, replayed>>

(* -------------------------- RevokeByRequestID -------------------------- *)

(* The statement begins: it sees the unused tokens that are committed.     *)
SelectChain(h) ==
  /\ At(h, "select")
  /\ handler' = [handler EXCEPT ![h].pc = "revoke", ![h].targets = OfChain(handler[h].chain) \cap ActiveTokens]
  /\ UNCHANGED <<grant, grants, token, code, agent, stopped, replayed>>

Revoked(T) == [t \in DOMAIN token |-> IF t \in T THEN [token[t] EXCEPT !.used = TRUE] ELSE token[t]]

(* It waits for the rows that others have changed, marks those still       *)
(* unused and commits.                                                     *)
RevokeChain(h) ==
  /\ At(h, "revoke") /\ \A t \in handler[h].targets : token[t].by = Nil
  /\ token' = Revoked(handler[h].targets)
  /\ agent' = Unlocked(h)
  /\ replayed' = IF handler[h].op = "reuse" THEN replayed \cup {handler[h].chain} ELSE replayed
  /\ Done(h)
  /\ UNCHANGED <<grant, grants, code, stopped>>

(* -------------------- HandleAuthorizationCodeExchange ------------------ *)

(* GetAuthorizeCodeSession: a code that was used revokes its chain.        *)
FindCode(h, c) ==
  /\ At(h, "idle")
  /\ code[c].used \/ Len(token) < MaxTokens
  /\ Begin(h, IF code[c].used THEN "select" ELSE "redeem", 0, c, 0, "redeem")
  /\ UNCHANGED <<grant, grants, token, code, agent, stopped, replayed>>

CodeUnused(c) == ~code[c].used

(* InvalidateAuthorizeCodeSession in the transaction of the exchange.      *)
InvalidateCode(h) ==
  LET c == handler[h].chain
  IN  /\ At(h, "redeem") /\ code[c].by = Nil
      /\ \/ /\ CodeUnused(c)
            /\ code' = [code EXCEPT ![c].by = h]
            /\ Goto(h, "consent")
            /\ UNCHANGED <<token, agent>>
         \/ ~CodeUnused(c) /\ Rollback(h)
      /\ UNCHANGED <<grant, grants, stopped, replayed>>

(* CreateRefreshTokenSession reads the grant the token is issued under ... *)
FindGrant(h) ==
  /\ At(h, "consent")
  /\ \/ /\ Granted
        /\ handler' = [handler EXCEPT ![h].pc = "issue", ![h].grant = grant.id]
        /\ UNCHANGED <<token, code, agent>>
     \/ ~Granted /\ Rollback(h)
  /\ UNCHANGED <<grant, grants, stopped, replayed>>

(* ... and stores it: its foreign key waits for the row of the agent.      *)
CommitIssue(h) ==
  LET c == handler[h].chain
  IN  /\ At(h, "issue")
      /\ agent.exclusive = Nil
      /\ token' = Append(token, NewToken(c, handler[h].grant, 0))
      /\ code' = [code EXCEPT ![c] = [used |-> TRUE, by |-> Nil]]
      /\ Done(h)
      /\ UNCHANGED <<grant, grants, agent, stopped, replayed>>

(* ------------------------------- consent ------------------------------- *)

(* RevokeConsent deletes the grant, if there is one, and revokes the       *)
(* sessions in a second transaction.                                       *)
RevokeConsent(h) ==
  /\ At(h, "idle")
  /\ grant' = Nil
  /\ Begin(h, "exclusive", 0, Nil, 0, "revoke")
  /\ UNCHANGED <<grants, token, code, agent, stopped, replayed>>

(* Revoke of the agent's credentials ends with RevokeByAgent. *)
RevokeCredentials(h) ==
  /\ At(h, "idle")
  /\ Begin(h, "exclusive", 0, Nil, 0, "revoke")
  /\ UNCHANGED <<grant, grants, token, code, agent, stopped, replayed>>

(* GrantConsent looks for a grant and creates or updates it; one that has  *)
(* expired is not renewed before its sessions are revoked.                 *)
GrantConsent(h) ==
  /\ At(h, "idle")
  /\ \/ grant = Nil /\ grants < MaxGrants /\ Begin(h, "create", 0, Nil, 0, "renew")
     \/ /\ grant # Nil
        /\ Begin(h, IF grant.expired THEN "exclusive" ELSE "update", 0, Nil, grant.id, "renew")
  /\ UNCHANGED <<grant, grants, token, code, agent, stopped, replayed>>

(* Create: an upsert keeps the ID of a grant created meanwhile. *)
CreateGrant(h) ==
  /\ At(h, "create")
  /\ \/ /\ grant = Nil
        /\ grants' = grants + 1
        /\ grant' = [id |-> grants + 1, expired |-> FALSE]
     \/ /\ grant # Nil
        /\ grant' = [grant EXCEPT !.expired = FALSE]
        /\ UNCHANGED grants
  /\ Done(h)
  /\ UNCHANGED <<token, code, agent, stopped, replayed>>

(* Update fails if the grant that was found is gone. *)
UpdateGrant(h) ==
  /\ At(h, "update")
  /\ grant' = IF grant # Nil /\ grant.id = handler[h].grant THEN [grant EXCEPT !.expired = FALSE] ELSE grant
  /\ Done(h)
  /\ UNCHANGED <<grants, token, code, agent, stopped, replayed>>

(* revokeByAgent: the agent's row FOR UPDATE, then the statement that      *)
(* revokes begins ...                                                      *)
LockAgent(h) ==
  /\ At(h, "exclusive")
  /\ agent.share = {} /\ agent.exclusive = Nil
  /\ agent' = [agent EXCEPT !.exclusive = h]
  /\ handler' = [handler EXCEPT ![h].pc = "apply", ![h].targets = ActiveTokens]
  /\ UNCHANGED <<grant, grants, token, code, stopped, replayed>>

(* ... marks the unused tokens and commits.                                *)
RevokeAll(h) ==
  /\ At(h, "apply") /\ \A t \in handler[h].targets : token[t].by = Nil
  /\ token' = Revoked(handler[h].targets)
  /\ agent' = Unlocked(h)
  /\ stopped' = stopped \cup {token[t].chain : t \in DOMAIN token}
  /\ IF handler[h].op = "renew"
     THEN handler' = [handler EXCEPT ![h].pc = "update", ![h].targets = {}] ELSE Done(h)
  /\ UNCHANGED <<grant, grants, code, replayed>>

(* ------------------------------ environment ---------------------------- *)

(* An error, a timeout or the death of the process ends the request, and   *)
(* its transaction with it.                                                *)
Abort(h) ==
  /\ ~At(h, "idle")
  /\ Rollback(h)
  /\ UNCHANGED <<grant, grants, stopped, replayed>>

GrantExpires ==
  /\ grant # Nil /\ ~grant.expired
  /\ grant' = [grant EXCEPT !.expired = TRUE]
  /\ UNCHANGED <<grants, token, code, agent, handler, stopped, replayed>>

(* The cleanup deletes a token that has expired; it waits for a row that   *)
(* is being changed.                                                       *)
DeleteExpired(t) ==
  /\ t \in DOMAIN token /\ ~token[t].gone /\ token[t].by = Nil
  /\ token' = [token EXCEPT ![t].gone = TRUE]
  /\ UNCHANGED <<grant, grants, code, agent, handler, stopped, replayed>>

Init ==
  /\ grant = [id |-> 1, expired |-> FALSE] /\ grants = 1
  /\ token = <<>>
  /\ code = [c \in Codes |-> [used |-> FALSE, by |-> Nil]]
  /\ agent = [share |-> {}, exclusive |-> Nil]
  /\ handler = [h \in Handlers |-> Idle]
  /\ stopped = {} /\ replayed = {}

Arrive(h) ==
  \/ \E t \in TokenIDs : FindToken(h, t)
  \/ \E c \in Codes : FindCode(h, c)
  \/ RevokeConsent(h) \/ RevokeCredentials(h) \/ GrantConsent(h)

Step(h) ==
  \/ VerifyGrant(h) \/ ShareAgent(h) \/ ShareNoRow(h) \/ MarkUsed(h) \/ CommitRotation(h)
  \/ SelectChain(h) \/ RevokeChain(h)
  \/ InvalidateCode(h) \/ FindGrant(h) \/ CommitIssue(h)
  \/ CreateGrant(h) \/ UpdateGrant(h) \/ LockAgent(h) \/ RevokeAll(h)

Next ==
  \/ \E h \in Handlers : Arrive(h) \/ Step(h) \/ Abort(h)
  \/ GrantExpires
  \/ \E t \in TokenIDs : DeleteExpired(t)

Spec == Init /\ [][Next]_vars

(* ------------------------------ properties ----------------------------- *)

(* Rows, locks and requests have their types. *)
TypeInvariant ==
  /\ grant \in Grant \cup {Nil} /\ grants \in GrantIDs
  /\ token \in Seq(Token) /\ DOMAIN token \subseteq TokenIDs
  /\ code \in [Codes -> Code]
  /\ agent \in Agent
  /\ handler \in [Handlers -> Handler]
  /\ stopped \subseteq Codes /\ replayed \subseteq Codes

(* Rotation replaces a token, it never adds one: however the requests that *)
(* present one token overlap, a chain has at most one token left to use.   *)
OneActivePerChain ==
  \A s, t \in ActiveTokens : token[s].chain = token[t].chain => s = t

(* A code is redeemed once and a refresh token exchanged once, also when   *)
(* two requests read it unused: MarkUsed lets one of them through.         *)
SingleUse ==
  \A s, t \in DOMAIN token :
    token[s].chain = token[t].chain /\ token[s].parent = token[t].parent => s = t

(* A chain that had a token when the consent was revoked, renewed after it *)
(* expired, or the credentials were revoked, has no token to use after     *)
(* that: a rotation in flight cannot carry it across the revocation.       *)
StoppedStaysDead ==
  \A t \in ActiveTokens : token[t].chain \notin stopped

(* A chain belongs to the grant it was issued under, and is not continued  *)
(* under another one the same principal gives the agent later.             *)
ChainKeepsGrant ==
  \A s, t \in DOMAIN token : token[s].chain = token[t].chain => token[s].grant = token[t].grant

(* Requests never wait for one another in a circle over the rows of the    *)
(* agent, the tokens and the code: one of those under way can go on.       *)
NobodyStuck ==
  (\E h \in Handlers : ~At(h, "idle")) =>
     \E h \in Handlers : ENABLED Step(h)

(* "RevokeRefreshToken revokes all refresh tokens belonging to a request   *)
(* chain": once the replay of a token has been answered, its chain has no  *)
(* token left to use.                                                      *)
ReplayEndsChain ==
  \A t \in ActiveTokens : token[t].chain \notin replayed

=============================================================================
