---------------------------- MODULE EndpointProofs ----------------------------
(***************************************************************************)
(* Proofs about the authorization server's endpoints, each for every value *)
(* of its constants: the refresh tokens that the token endpoint rotates,   *)
(* the authorization endpoint and the token endpoint.  Each section has    *)
(* the inductive invariant of its part, one lemma per action, and the      *)
(* theorems that follow from it.                                           *)
(***************************************************************************)
EXTENDS RefreshChains, Authorization, TokenEndpoint, TLAPS

(***************************************************************************)
(* Refresh token chains.  One inductive invariant says what each handler   *)
(* may rely on at each of its steps (HandlerOK), and what holds of the     *)
(* tables (TableOK).  A step of one handler leaves the rows alone that     *)
(* another one has changed or locked, which is what keeps the other's      *)
(* HandlerOK.                                                              *)
(***************************************************************************)

(* -------------------------- the invariant ------------------------------ *)

(* The types without the bounds on identifiers, which only TLC checks.     *)
TokenRow == [chain : Codes, grant : Nat, parent : Nat, used : BOOLEAN, by : Handlers \cup {Nil}, gone : BOOLEAN]
GrantRow == [id : Nat, expired : BOOLEAN]
Ops == {"none", "refresh", "deny", "reuse", "redeem", "revoke", "renew"}
HandlerRec == [pc : PCs, token : Nat, chain : Codes \cup {Nil}, grant : Nat, targets : SUBSET Nat, op : Ops]

ChainsType ==
  /\ grant = Nil \/ grant \in GrantRow
  /\ grants \in Nat
  /\ token \in Seq(TokenRow)
  /\ code \in [Codes -> Code]
  /\ agent \in Agent
  /\ handler \in [Handlers -> HandlerRec]

(* What handler h relies on: the token it was given is there, and of the   *)
(* chain and grant it noted; the rows it has marked are still unused and   *)
(* its own; a rotation holds the agent's row shared, a revocation of all   *)
(* sessions holds it alone and has seen every token that can be used.      *)
HandlerOK(h) ==
  LET r == handler[h]
  IN  /\ r.pc \in {"verify", "share", "mark", "rotate", "reuse"} =>
           r.token \in DOMAIN token /\ token[r.token].chain = r.chain
      /\ r.pc \in {"share", "mark", "rotate"} => r.grant = token[r.token].grant
      /\ r.pc = "rotate" => token[r.token].by = h /\ Active(r.token)
      /\ r.pc \in {"redeem", "consent", "issue"} => r.chain \in Codes
      /\ r.pc \in {"consent", "issue"} => code[r.chain].by = h /\ ~code[r.chain].used
      /\ r.pc \in {"mark", "rotate"} => h \in agent.share
      /\ r.pc = "apply" => agent.exclusive = h /\ ActiveTokens \subseteq r.targets

(* A token's parent is used, and of the same chain.                        *)
Lineage ==
  \A t \in DOMAIN token : token[t].parent # 0 =>
    /\ token[t].parent \in DOMAIN token
    /\ token[token[t].parent].used

(* What holds of the tables whatever the handlers do. *)
TableOK ==
  /\ agent.exclusive # Nil => agent.share = {}
  /\ \A t \in DOMAIN token : code[token[t].chain].used
  /\ \A c \in stopped : c \in Codes /\ code[c].used
  /\ Lineage
  /\ OneActivePerChain /\ SingleUse /\ ChainKeepsGrant /\ StoppedStaysDead

ChainsInv == ChainsType /\ (\A h \in Handlers : HandlerOK(h)) /\ TableOK

(* ---------------------------- rows and locks --------------------------- *)

USE ChainsAssumption

(* Handler h has changed the tokens: rows keep their identity, are never   *)
(* revived, and those another handler has marked are as they were.         *)
TokensKept(h) ==
  /\ token' \in Seq(TokenRow)
  /\ DOMAIN token \subseteq DOMAIN token'
  /\ \A t \in DOMAIN token :
       /\ token'[t].chain = token[t].chain
       /\ token'[t].grant = token[t].grant
       /\ token'[t].parent = token[t].parent
       /\ token[t].used => token'[t].used
       /\ token[t].gone => token'[t].gone
       /\ token[t].by # Nil /\ token[t].by # h => token'[t] = token[t]

CodesKept(h) ==
  /\ code' \in [Codes -> Code]
  /\ \A c \in Codes :
       /\ code[c].used => code'[c].used
       /\ code[c].by # Nil /\ code[c].by # h => code'[c] = code[c]

LocksKept(h) ==
  /\ agent' \in Agent
  /\ \A g \in Handlers \ {h} : g \in agent.share => g \in agent'.share
  /\ \A g \in Handlers \ {h} : agent.exclusive = g => agent'.exclusive = g
  /\ agent'.exclusive # Nil => agent'.share = {}

OthersKept(h) ==
  /\ handler' \in [Handlers -> HandlerRec]
  /\ \A g \in Handlers \ {h} : handler'[g] = handler[g]

LEMMA TokenDomain ==
  ASSUME NEW s \in Seq(TokenRow)
  PROVE  /\ DOMAIN s = 1..Len(s) /\ Len(s) \in Nat
         /\ \A t \in DOMAIN s : s[t] \in TokenRow
  OBVIOUS

(* A table with other rows for the same tokens is a table. *)
LEMMA TokenTable ==
  ASSUME ChainsType, NEW f \in [DOMAIN token -> TokenRow]
  PROVE  f \in Seq(TokenRow) /\ DOMAIN f = DOMAIN token
  <1>1. DOMAIN token = 1..Len(token) /\ Len(token) \in Nat
    BY TokenDomain, Zenon DEF ChainsType
  <1>2. f \in [1..Len(token) -> TokenRow]
    BY <1>1, Zenon
  <1> QED BY <1>1, <1>2

LEMMA TokenUpdate ==
  ASSUME ChainsType, NEW s \in DOMAIN token, NEW r \in TokenRow
  PROVE  /\ [token EXCEPT ![s] = r] \in Seq(TokenRow)
         /\ DOMAIN [token EXCEPT ![s] = r] = DOMAIN token
         /\ [token EXCEPT ![s] = r][s] = r
         /\ \A t \in DOMAIN token \ {s} : [token EXCEPT ![s] = r][t] = token[t]
  <1>1. \A t \in DOMAIN token : token[t] \in TokenRow
    BY TokenDomain, Zenon DEF ChainsType
  <1>2. [token EXCEPT ![s] = r] \in [DOMAIN token -> TokenRow]
    BY <1>1, Zenon
  <1> QED BY <1>2, TokenTable, Zenon

(* No update of a row changes where it belongs. *)
SameIdentity(q, r) == q.chain = r.chain /\ q.grant = r.grant /\ q.parent = r.parent

(* How the fields of a row read after one of them has changed. *)
LEMMA RowUpdate ==
  ASSUME NEW r \in TokenRow
  PROVE  /\ \A b \in Handlers \cup {Nil} :
              LET q == [r EXCEPT !.by = b]
              IN  q \in TokenRow /\ SameIdentity(q, r) /\ q.by = b /\ q.used = r.used /\ q.gone = r.gone
         /\ LET q == [r EXCEPT !.by = Nil, !.used = TRUE]
            IN  q \in TokenRow /\ SameIdentity(q, r) /\ q.used /\ q.gone = r.gone
         /\ LET q == [r EXCEPT !.used = TRUE]
            IN  q \in TokenRow /\ SameIdentity(q, r) /\ q.used /\ q.gone = r.gone
         /\ LET q == [r EXCEPT !.gone = TRUE]
            IN  q \in TokenRow /\ SameIdentity(q, r) /\ q.used = r.used /\ q.gone
  BY Zenon DEF TokenRow, SameIdentity

LEMMA SameTokens ==
  ASSUME ChainsType, NEW h, token' = token
  PROVE  TokensKept(h) /\ DOMAIN token' = DOMAIN token
  BY Zenon DEF TokensKept, ChainsType

LEMMA ReleasedKept ==
  ASSUME ChainsType, NEW h, token' = Released(h)
  PROVE  TokensKept(h) /\ DOMAIN token' = DOMAIN token
  <1>1. \A t \in DOMAIN token : token[t] \in TokenRow
    BY TokenDomain, Zenon DEF ChainsType
  <1>2. \A t \in DOMAIN token : token'[t] = IF token[t].by = h THEN [token[t] EXCEPT !.by = Nil] ELSE token[t]
    BY Zenon DEF Released
  <1>3. Released(h) \in [DOMAIN token -> TokenRow]
    BY <1>1, RowUpdate, Zenon DEF Released
  <1>4. token' \in Seq(TokenRow) /\ DOMAIN token' = DOMAIN token
    BY <1>3, TokenTable, Zenon
  <1>5. ASSUME NEW t \in DOMAIN token
        PROVE  /\ token'[t].chain = token[t].chain /\ token'[t].grant = token[t].grant /\ token'[t].parent = token[t].parent
               /\ token'[t].used = token[t].used /\ token'[t].gone = token[t].gone
               /\ token[t].by # Nil /\ token[t].by # h => token'[t] = token[t]
    BY <1>1, <1>2, Zenon DEF TokenRow
  <1> QED BY <1>4, <1>5, Zenon DEF TokensKept

LEMMA SpentKept ==
  ASSUME ChainsType, NEW h
  PROVE  /\ Spent(h) \in Seq(TokenRow) /\ DOMAIN Spent(h) = DOMAIN token
         /\ \A t \in DOMAIN token :
              /\ Spent(h)[t].chain = token[t].chain
              /\ Spent(h)[t].grant = token[t].grant
              /\ Spent(h)[t].parent = token[t].parent
              /\ token[t].used => Spent(h)[t].used
              /\ token[t].gone => Spent(h)[t].gone
              /\ token[t].by # h => Spent(h)[t] = token[t]
              /\ token[t].by = h => Spent(h)[t].used
  <1>1. \A t \in DOMAIN token : token[t] \in TokenRow
    BY TokenDomain, Zenon DEF ChainsType
  <1>2. \A t \in DOMAIN token :
          Spent(h)[t] = IF token[t].by = h THEN [token[t] EXCEPT !.by = Nil, !.used = TRUE] ELSE token[t]
    BY Zenon DEF Spent
  <1>3. Spent(h) \in [DOMAIN token -> TokenRow]
    BY <1>1, RowUpdate, Zenon DEF Spent
  <1>4. Spent(h) \in Seq(TokenRow) /\ DOMAIN Spent(h) = DOMAIN token
    BY <1>3, TokenTable, Zenon
  <1>5. ASSUME NEW t \in DOMAIN token, token[t].by = h
        PROVE  /\ Spent(h)[t].chain = token[t].chain /\ Spent(h)[t].grant = token[t].grant
               /\ Spent(h)[t].parent = token[t].parent /\ Spent(h)[t].gone = token[t].gone /\ Spent(h)[t].used
    BY <1>1, <1>2, <1>5, Zenon DEF TokenRow
  <1>6. ASSUME NEW t \in DOMAIN token, token[t].by # h PROVE Spent(h)[t] = token[t]
    BY <1>2, <1>6, Zenon
  <1> QED BY <1>4, <1>5, <1>6, Zenon

LEMMA RevokedKept ==
  ASSUME ChainsType, NEW h, NEW T, token' = Revoked(T), \A t \in T : token[t].by = Nil
  PROVE  /\ TokensKept(h) /\ DOMAIN token' = DOMAIN token
         /\ \A t \in DOMAIN token : t \in T => token'[t].used
  <1>1. \A t \in DOMAIN token : token[t] \in TokenRow
    BY TokenDomain, Zenon DEF ChainsType
  <1>2. \A t \in DOMAIN token : token'[t] = IF t \in T THEN [token[t] EXCEPT !.used = TRUE] ELSE token[t]
    BY Zenon DEF Revoked
  <1>3. Revoked(T) \in [DOMAIN token -> TokenRow]
    BY <1>1, RowUpdate, Zenon DEF Revoked
  <1>4. token' \in Seq(TokenRow) /\ DOMAIN token' = DOMAIN token
    BY <1>3, TokenTable, Zenon
  <1>5. ASSUME NEW t \in DOMAIN token, t \in T
        PROVE  /\ token'[t].chain = token[t].chain /\ token'[t].grant = token[t].grant /\ token'[t].parent = token[t].parent
               /\ token'[t].used /\ token'[t].gone = token[t].gone /\ token[t].by = Nil
    BY <1>1, <1>2, <1>5, Zenon DEF TokenRow
  <1>6. ASSUME NEW t \in DOMAIN token, t \notin T PROVE token'[t] = token[t]
    BY <1>2, <1>6, Zenon
  <1> QED BY <1>4, <1>5, <1>6, Zenon DEF TokensKept

(* One unmarked row is marked or deleted. *)
LEMMA OneRowKept ==
  ASSUME ChainsType, NEW h, NEW s \in DOMAIN token, token[s].by = Nil,
         NEW r \in TokenRow, SameIdentity(r, token[s]),
         r.used = token[s].used, token[s].gone => r.gone,
         token' = [token EXCEPT ![s] = r]
  PROVE  TokensKept(h) /\ DOMAIN token' = DOMAIN token /\ token'[s] = r
  <1>1. /\ token' \in Seq(TokenRow) /\ DOMAIN token' = DOMAIN token /\ token'[s] = r
        /\ \A t \in DOMAIN token \ {s} : token'[t] = token[t]
    BY TokenUpdate, Zenon
  <1> QED BY <1>1, Zenon DEF TokensKept, SameIdentity

(* A token is added. *)
LEMMA AppendToken ==
  ASSUME NEW s \in Seq(TokenRow), NEW r \in TokenRow
  PROVE  /\ Append(s, r) \in Seq(TokenRow)
         /\ DOMAIN Append(s, r) = DOMAIN s \cup {Len(s) + 1}
         /\ Len(s) + 1 \notin DOMAIN s /\ Len(s) + 1 # 0
         /\ Append(s, r)[Len(s) + 1] = r
         /\ \A t \in DOMAIN s : Append(s, r)[t] = s[t]
  BY TokenDomain

LEMMA SameCodes ==
  ASSUME ChainsType, NEW h, code' = code
  PROVE  CodesKept(h)
  BY Zenon DEF CodesKept, ChainsType

LEMMA ReleasedCodes ==
  ASSUME ChainsType, NEW h,
         code' = [c \in Codes |-> IF code[c].by = h THEN [code[c] EXCEPT !.by = Nil] ELSE code[c]]
  PROVE  CodesKept(h)
  BY Zenon DEF CodesKept, ChainsType, Code

LEMMA SameLocks ==
  ASSUME ChainsInv, NEW h, agent' = agent
  PROVE  LocksKept(h)
  BY Zenon DEF LocksKept, ChainsInv, ChainsType, TableOK

LEMMA UnlockedLocks ==
  ASSUME ChainsInv, NEW h \in Handlers, agent' = Unlocked(h)
  PROVE  LocksKept(h)
  BY Zenon DEF LocksKept, ChainsInv, ChainsType, TableOK, Agent, Unlocked

LEMMA HandlerUpdate ==
  ASSUME ChainsType, NEW h \in Handlers, NEW r \in HandlerRec, handler' = [handler EXCEPT ![h] = r]
  PROVE  OthersKept(h) /\ handler'[h] = r
  BY Zenon DEF OthersKept, ChainsType

LEMMA SameHandlers ==
  ASSUME ChainsType, NEW h, handler' = handler
  PROVE  OthersKept(h)
  BY Zenon DEF OthersKept, ChainsType

LEMMA GotoUpdate ==
  ASSUME ChainsType, NEW h \in Handlers, NEW pc \in PCs, Goto(h, pc)
  PROVE  /\ OthersKept(h)
         /\ handler'[h].pc = pc /\ handler'[h].token = handler[h].token /\ handler'[h].chain = handler[h].chain
         /\ handler'[h].grant = handler[h].grant
  BY ZenonT(40) DEF OthersKept, ChainsType, HandlerRec, Goto

LEMMA TargetsUpdate ==
  ASSUME ChainsType, NEW h \in Handlers, NEW pc \in PCs, NEW T \in SUBSET Nat,
         handler' = [handler EXCEPT ![h].pc = pc, ![h].targets = T]
  PROVE  OthersKept(h) /\ handler'[h].pc = pc /\ handler'[h].targets = T
  <1> DEFINE r == [handler[h] EXCEPT !.pc = pc, !.targets = T]
  <1>1. handler \in [Handlers -> HandlerRec]
    BY Zenon DEF ChainsType
  <1>2. r \in HandlerRec /\ r.pc = pc /\ r.targets = T
    BY <1>1, Zenon DEF HandlerRec
  <1>3. handler' = [handler EXCEPT ![h] = r]
    BY <1>1, Zenon
  <1> QED BY <1>2, <1>3, HandlerUpdate, Zenon

LEMMA GrantUpdate ==
  ASSUME ChainsType, NEW h \in Handlers, NEW pc \in PCs, NEW g \in Nat,
         handler' = [handler EXCEPT ![h].pc = pc, ![h].grant = g]
  PROVE  OthersKept(h) /\ handler'[h].pc = pc /\ handler'[h].chain = handler[h].chain
  <1> DEFINE r == [handler[h] EXCEPT !.pc = pc, !.grant = g]
  <1>1. handler \in [Handlers -> HandlerRec]
    BY Zenon DEF ChainsType
  <1>2. r \in HandlerRec /\ r.pc = pc /\ r.chain = handler[h].chain
    BY <1>1, Zenon DEF HandlerRec
  <1>3. handler' = [handler EXCEPT ![h] = r]
    BY <1>1, Zenon
  <1> QED BY <1>2, <1>3, HandlerUpdate, Zenon

LEMMA IdleUpdate ==
  ASSUME ChainsType, NEW h \in Handlers, Done(h)
  PROVE  OthersKept(h) /\ handler'[h].pc = "idle"
  <1>1. Idle \in HandlerRec /\ Idle.pc = "idle"
    BY Zenon DEF Idle, HandlerRec, PCs, Ops
  <1> QED BY <1>1, HandlerUpdate, Zenon DEF Done

(* ------------------------ what a step preserves ------------------------ *)

(* The others can go on relying on what they relied on. *)
LEMMA OthersOK ==
  ASSUME ChainsInv, NEW h, TokensKept(h), CodesKept(h), LocksKept(h), OthersKept(h),
         DOMAIN token' = DOMAIN token \/ agent.exclusive = Nil,
         NEW g \in Handlers \ {h}
  PROVE  HandlerOK(g)'
  <1> DEFINE r == handler[g]
  <1>1. HandlerOK(g) /\ handler'[g] = r /\ g # Nil /\ g # h /\ r \in HandlerRec
    BY Zenon DEF ChainsInv, OthersKept, ChainsType
  <1>2. r.pc \in {"verify", "share", "mark", "rotate", "reuse"} =>
           r.token \in DOMAIN token' /\ token'[r.token].chain = r.chain
    BY <1>1, Zenon DEF HandlerOK, TokensKept
  <1>3. r.pc \in {"share", "mark", "rotate"} => r.grant = token'[r.token].grant
    BY <1>1, Zenon DEF HandlerOK, TokensKept
  <1>4. r.pc = "rotate" => token'[r.token].by = g /\ Active(r.token)'
    BY <1>1, ZenonT(40) DEF HandlerOK, TokensKept, Active
  <1>5. r.pc \in {"consent", "issue"} => code'[r.chain].by = g /\ ~code'[r.chain].used
    BY <1>1, Zenon DEF HandlerOK, CodesKept
  <1>6. r.pc \in {"mark", "rotate"} => g \in agent'.share
    BY <1>1, Zenon DEF HandlerOK, LocksKept
  <1>7. r.pc = "apply" => agent'.exclusive = g /\ ActiveTokens' \subseteq r.targets
    <2> SUFFICES ASSUME r.pc = "apply" PROVE agent'.exclusive = g /\ ActiveTokens' \subseteq r.targets
      BY Zenon
    <2>1. agent.exclusive = g /\ ActiveTokens \subseteq r.targets
      BY <1>1, Zenon DEF HandlerOK
    <2>2. agent'.exclusive = g
      BY <1>1, <2>1, Zenon DEF LocksKept
    <2>3. ActiveTokens' \subseteq ActiveTokens
      BY <1>1, <2>1, Zenon DEF ActiveTokens, Active, TokensKept
    <2> QED BY <2>1, <2>2, <2>3, Zenon
  <1>8. r.pc \in {"redeem", "consent", "issue"} => r.chain \in Codes
    BY <1>1, Zenon DEF HandlerOK
  <1> QED BY <1>1, <1>2, <1>3, <1>4, <1>5, <1>6, <1>7, <1>8, Zenon DEF HandlerOK

(* Chains are stopped only when no token is left to use. *)
StoppedKept ==
  \/ stopped' = stopped
  \/ ActiveTokens' = {} /\ stopped' \subseteq stopped \cup {token[t].chain : t \in DOMAIN token}

(* A step that adds no token keeps what holds of the tables. *)
LEMMA TablesOK ==
  ASSUME ChainsInv, NEW h, TokensKept(h), CodesKept(h), LocksKept(h),
         DOMAIN token' = DOMAIN token, StoppedKept
  PROVE  TableOK'
  <1>1. TableOK /\ ChainsType
    BY Zenon DEF ChainsInv
  <1>2. \A t \in DOMAIN token : token[t].chain \in Codes
    BY <1>1, TokenDomain, Zenon DEF ChainsType, TokenRow
  <1>3. (\A t \in DOMAIN token : code[token[t].chain].used)'
    BY <1>1, <1>2, Zenon DEF TableOK, TokensKept, CodesKept
  <1>4. (\A c \in stopped : c \in Codes /\ code[c].used)'
    <2> SUFFICES ASSUME NEW c \in stopped' PROVE c \in Codes /\ code'[c].used
      BY Zenon
    <2>1. c \in stopped \/ \E t \in DOMAIN token : c = token[t].chain
      BY Zenon DEF StoppedKept
    <2>2. c \in Codes /\ code[c].used
      BY <1>1, <1>2, <2>1, Zenon DEF TableOK
    <2> QED BY <2>2, Zenon DEF CodesKept
  <1>5. Lineage'
    BY <1>1, Zenon DEF TableOK, Lineage, TokensKept
  <1>6. ActiveTokens' \subseteq ActiveTokens
    BY Zenon DEF ActiveTokens, Active, TokensKept
  <1>7. OneActivePerChain'
    BY <1>1, <1>6, ZenonT(40) DEF TableOK, OneActivePerChain, TokensKept, ActiveTokens
  <1>8. StoppedStaysDead'
    <2>1. CASE stopped' = stopped
      BY <1>1, <1>6, <2>1, Zenon DEF TableOK, StoppedStaysDead, TokensKept, ActiveTokens
    <2>2. CASE ActiveTokens' = {}
      BY <2>2, Zenon DEF StoppedStaysDead
    <2> QED BY <2>1, <2>2, Zenon DEF StoppedKept
  <1>9. SingleUse' /\ ChainKeepsGrant'
    BY <1>1 DEF TableOK, SingleUse, ChainKeepsGrant, TokensKept
  <1> QED BY <1>3, <1>4, <1>5, <1>7, <1>8, <1>9, Zenon DEF TableOK, LocksKept

(* What is left to show of a step of h, or of the environment: h = Nil.    *)
LEMMA InvOK ==
  ASSUME ChainsInv, NEW h, TokensKept(h), CodesKept(h), LocksKept(h), OthersKept(h),
         DOMAIN token' = DOMAIN token \/ agent.exclusive = Nil,
         (grant = Nil \/ grant \in GrantRow)', (grants \in Nat)',
         TableOK', h \in Handlers => HandlerOK(h)'
  PROVE  ChainsInv'
  <1>1. ChainsType'
    BY Zenon DEF ChainsType, TokensKept, CodesKept, LocksKept, OthersKept
  <1>2. ASSUME NEW g \in Handlers PROVE HandlerOK(g)'
    <2>1. CASE g = h
      BY <2>1, Zenon
    <2>2. CASE g # h
      BY <2>2, OthersOK, Zenon
    <2> QED BY <2>1, <2>2, Zenon
  <1> QED BY <1>1, <1>2, Zenon DEF ChainsInv

LEMMA StepOK ==
  ASSUME ChainsInv, NEW h, TokensKept(h), CodesKept(h), LocksKept(h), OthersKept(h),
         DOMAIN token' = DOMAIN token, stopped' = stopped,
         (grant = Nil \/ grant \in GrantRow)', (grants \in Nat)',
         h \in Handlers => HandlerOK(h)'
  PROVE  ChainsInv'
  BY TablesOK, InvOK, Zenon DEF StoppedKept

(* A step that adds the token n to the chain c: the chain's other tokens   *)
(* cannot be used, are of the same grant and have not been succeeded by p. *)
LEMMA AddedTokenOK ==
  ASSUME ChainsInv, NEW h, TokensKept(h), CodesKept(h), LocksKept(h), stopped' = stopped,
         NEW n, n \notin DOMAIN token, DOMAIN token' = DOMAIN token \cup {n},
         NEW c \in Codes, NEW g, NEW p, token'[n] = NewToken(c, g, p),
         code'[c].used, c \notin stopped,
         \A t \in DOMAIN token : token[t].chain = c =>
           t \notin ActiveTokens' /\ token[t].grant = g /\ token[t].parent # p,
         p # 0 => p \in DOMAIN token /\ token'[p].used
  PROVE  TableOK'
  <1>1. TableOK /\ ChainsType
    BY Zenon DEF ChainsInv
  <1>2. \A t \in DOMAIN token : token[t].chain \in Codes
    BY <1>1, TokenDomain, Zenon DEF ChainsType, TokenRow
  <1>3. token'[n].chain = c /\ token'[n].grant = g /\ token'[n].parent = p
    BY DEF NewToken
  <1>4. (\A t \in DOMAIN token : code[token[t].chain].used)'
    <2> SUFFICES ASSUME NEW t \in DOMAIN token' PROVE code'[token'[t].chain].used
      BY Zenon
    <2>1. CASE t = n
      BY <1>3, <2>1, Zenon
    <2>2. CASE t \in DOMAIN token
      <3>1. code[token[t].chain].used /\ token'[t].chain = token[t].chain
        BY <1>1, <2>2, Zenon DEF TableOK, TokensKept
      <3> QED BY <1>2, <2>2, <3>1, Zenon DEF CodesKept
    <2> QED BY <2>1, <2>2, Zenon
  <1>5. (\A d \in stopped : d \in Codes /\ code[d].used)'
    BY <1>1, Zenon DEF TableOK, CodesKept
  <1>6. Lineage'
    BY <1>1, <1>3, SMT DEF TableOK, Lineage, TokensKept
  <1>7. \A t \in DOMAIN token : t \in ActiveTokens' => t \in ActiveTokens
    BY Zenon DEF ActiveTokens, Active, TokensKept
  <1>8. ActiveTokens' \subseteq DOMAIN token \cup {n}
    BY Zenon DEF ActiveTokens
  <1>9. OneActivePerChain'
    BY <1>1, <1>3, <1>7, <1>8 DEF TableOK, OneActivePerChain, TokensKept
  <1>10. StoppedStaysDead'
    BY <1>1, <1>3, <1>7, <1>8, Zenon DEF TableOK, StoppedStaysDead, TokensKept
  <1>11. SingleUse'
    BY <1>1, <1>3 DEF TableOK, SingleUse, TokensKept
  <1>12. ChainKeepsGrant'
    BY <1>1, <1>3 DEF TableOK, ChainKeepsGrant, TokensKept
  <1> QED BY <1>4, <1>5, <1>6, <1>9, <1>10, <1>11, <1>12, Zenon DEF TableOK, LocksKept

(* --------------------------- the requests ------------------------------ *)

(* A request that fails gives everything back. *)
LEMMA RollbackOK ==
  ASSUME ChainsInv, NEW h \in Handlers, Rollback(h), UNCHANGED <<grant, grants, stopped>>
  PROVE  ChainsInv'
  <1>1. ChainsType /\ (grant = Nil \/ grant \in GrantRow)' /\ (grants \in Nat)'
    BY Zenon DEF ChainsInv, ChainsType
  <1>2. TokensKept(h) /\ DOMAIN token' = DOMAIN token
    BY <1>1, ReleasedKept, Zenon DEF Rollback
  <1>3. CodesKept(h) /\ LocksKept(h)
    BY <1>1, ReleasedCodes, UnlockedLocks, Zenon DEF Rollback
  <1>4. OthersKept(h) /\ handler'[h].pc = "idle"
    BY <1>1, IdleUpdate, Zenon DEF Rollback
  <1>5. HandlerOK(h)'
    BY <1>4, Zenon DEF HandlerOK
  <1> QED BY <1>1, <1>2, <1>3, <1>4, <1>5, StepOK, Zenon

(* A step of h that changes no row but the grant's. *)
LEMMA QuietOK ==
  ASSUME ChainsInv, NEW h, UNCHANGED <<token, code, agent, stopped>>, OthersKept(h),
         (grant = Nil \/ grant \in GrantRow)', (grants \in Nat)',
         h \in Handlers => HandlerOK(h)'
  PROVE  ChainsInv'
  <1>1. ChainsType
    BY Zenon DEF ChainsInv
  <1>2. TokensKept(h) /\ DOMAIN token' = DOMAIN token /\ CodesKept(h) /\ LocksKept(h)
    BY <1>1, SameTokens, SameCodes, SameLocks, Zenon
  <1> QED BY <1>2, StepOK, Zenon

(* Where a handler relies on nothing, or only on the token it was given.   *)
Quiet(pc) == pc \in {"idle", "select", "revoke", "create", "update", "exclusive"}
Given(pc) == pc \in {"verify", "reuse"}

(* A request begins. *)
LEMMA BeginOK ==
  ASSUME ChainsType, NEW h \in Handlers, NEW pc \in PCs, NEW t \in Nat, NEW c \in Codes \cup {Nil}, NEW g \in Nat,
         NEW op \in Ops, Begin(h, pc, t, c, g, op)
  PROVE  /\ OthersKept(h)
         /\ handler'[h].pc = pc /\ handler'[h].token = t /\ handler'[h].chain = c /\ handler'[h].grant = g
  <1> DEFINE r == [pc |-> pc, token |-> t, chain |-> c, grant |-> g, targets |-> {}, op |-> op]
  <1>1. r \in HandlerRec
    BY Zenon DEF HandlerRec
  <1>2. OthersKept(h) /\ handler'[h] = r
    BY <1>1, HandlerUpdate, Zenon DEF Begin
  <1> QED BY <1>2

LEMMA FindTokenOK ==
  ASSUME ChainsInv, NEW h \in Handlers, NEW t, FindToken(h, t)
  PROVE  ChainsInv'
  <1>1. ChainsType /\ (grant = Nil \/ grant \in GrantRow)' /\ (grants \in Nat)'
    BY Zenon DEF ChainsInv, ChainsType, FindToken
  <1>2. t \in DOMAIN token /\ t \in Nat /\ token[t].chain \in Codes
    <2>1. t \in DOMAIN token
      BY Zenon DEF FindToken
    <2>2. DOMAIN token = 1..Len(token) /\ Len(token) \in Nat /\ token[t] \in TokenRow
      BY <1>1, <2>1, TokenDomain, Zenon DEF ChainsType
    <2> QED BY <2>1, <2>2 DEF TokenRow
  <1>3. PICK pc \in PCs, c \in Codes, op \in Ops : Given(pc) /\ c = token[t].chain /\ Begin(h, pc, t, c, 0, op)
    BY <1>2, Zenon DEF FindToken, Given, PCs, Ops
  <1>4. c \in Codes \cup {Nil} /\ 0 \in Nat
    OBVIOUS
  <1>5. OthersKept(h) /\ handler'[h].pc = pc /\ handler'[h].token = t /\ handler'[h].chain = c
    <2>1. ChainsType /\ t \in Nat /\ Begin(h, pc, t, c, 0, op)
      BY <1>1, <1>2, <1>3, Zenon
    <2> QED BY <1>4, <2>1, BeginOK, Zenon
  <1>6. HandlerOK(h)'
    BY <1>2, <1>3, <1>5, Zenon DEF HandlerOK, FindToken, Given
  <1> QED BY <1>1, <1>5, <1>6, QuietOK, Zenon DEF FindToken

LEMMA FindCodeOK ==
  ASSUME ChainsInv, NEW h \in Handlers, NEW c \in Codes, FindCode(h, c)
  PROVE  ChainsInv'
  <1>1. ChainsType /\ (grant = Nil \/ grant \in GrantRow)' /\ (grants \in Nat)'
    BY Zenon DEF ChainsInv, ChainsType, FindCode
  <1>2. PICK pc \in {"select", "redeem"} : Begin(h, pc, 0, c, 0, "redeem")
    BY Zenon DEF FindCode
  <1>3. pc \in PCs /\ "redeem" \in Ops
    BY Zenon DEF PCs, Ops
  <1>4. OthersKept(h) /\ handler'[h].pc = pc /\ handler'[h].chain = c
    <2>1. c \in Codes \cup {Nil} /\ 0 \in Nat
      OBVIOUS
    <2> QED BY <1>1, <1>2, <1>3, <2>1, BeginOK, Zenon
  <1>5. HandlerOK(h)'
    BY <1>4, Zenon DEF HandlerOK
  <1> QED BY <1>1, <1>4, <1>5, QuietOK, Zenon DEF FindCode

(* A request of the consent service or of the administration begins. *)
LEMMA ConsentRequestOK ==
  ASSUME ChainsInv, NEW h \in Handlers, RevokeConsent(h) \/ RevokeCredentials(h) \/ GrantConsent(h)
  PROVE  ChainsInv'
  <1>1. ChainsType /\ (grant = Nil \/ grant \in GrantRow)' /\ (grants \in Nat)'
    BY Zenon DEF ChainsInv, ChainsType, RevokeConsent, RevokeCredentials, GrantConsent
  <1>2. PICK pc \in PCs, g \in Nat, op \in Ops : Quiet(pc) /\ Begin(h, pc, 0, Nil, g, op)
    <2>1. CASE RevokeConsent(h) \/ RevokeCredentials(h)
      <3>1. "exclusive" \in PCs /\ "revoke" \in Ops /\ 0 \in Nat /\ Quiet("exclusive")
        BY DEF PCs, Ops, Quiet
      <3> QED BY <2>1, <3>1, Zenon DEF RevokeConsent, RevokeCredentials
    <2>2. CASE GrantConsent(h)
      <3>1. grant # Nil => grant.id \in Nat
        BY <1>1, Zenon DEF ChainsType, GrantRow
      <3>2. "renew" \in Ops /\ 0 \in Nat /\ \A q \in {"exclusive", "create", "update"} : q \in PCs /\ Quiet(q)
        BY DEF PCs, Ops, Quiet
      <3> QED BY <2>2, <3>1, <3>2, Zenon DEF GrantConsent
    <2> QED BY <2>1, <2>2, Zenon
  <1>3. Nil \in Codes \cup {Nil} /\ 0 \in Nat
    OBVIOUS
  <1>4. OthersKept(h) /\ handler'[h].pc = pc
    BY <1>1, <1>2, <1>3, BeginOK, Zenon
  <1>5. HandlerOK(h)'
    BY <1>2, <1>4, Zenon DEF HandlerOK, Quiet
  <1> QED BY <1>1, <1>4, <1>5, QuietOK, Zenon DEF RevokeConsent, RevokeCredentials, GrantConsent

LEMMA VerifyGrantOK ==
  ASSUME ChainsInv, NEW h \in Handlers, VerifyGrant(h)
  PROVE  ChainsInv'
  <1>1. ChainsType /\ HandlerOK(h) /\ (grant = Nil \/ grant \in GrantRow)' /\ (grants \in Nat)'
    BY Zenon DEF ChainsInv, ChainsType, VerifyGrant
  <1> DEFINE r == handler[h]
             d == [r EXCEPT !.pc = "select", !.op = "deny"]
             q == [r EXCEPT !.pc = "share", !.grant = grant.id]
  <1>2. r \in HandlerRec /\ r.pc = "verify" /\ r.token \in DOMAIN token /\ token[r.token].chain = r.chain
    BY <1>1, Zenon DEF ChainsType, HandlerOK, VerifyGrant, At
  <1>3. CASE Refused(r.token)
    <2>1. d \in HandlerRec /\ d.pc = "select"
      BY <1>2, Zenon DEF HandlerRec, PCs, Ops
    <2>2. handler' = [handler EXCEPT ![h] = d]
      BY <1>3, Zenon DEF VerifyGrant
    <2>3. OthersKept(h) /\ handler'[h] = d
      BY <1>1, <2>1, <2>2, HandlerUpdate, Zenon
    <2>4. HandlerOK(h)'
      BY <2>1, <2>3, Zenon DEF HandlerOK
    <2> QED BY <1>1, <2>3, <2>4, QuietOK, Zenon DEF VerifyGrant
  <1>4. CASE ~Refused(r.token)
    <2>1. grant.id \in Nat /\ grant.id = token[r.token].grant
      BY <1>1, <1>4, Zenon DEF ChainsType, GrantRow, Refused, Granted
    <2>2. q \in HandlerRec /\ q.pc = "share" /\ q.token = r.token /\ q.chain = r.chain /\ q.grant = grant.id
      BY <1>2, <2>1, Zenon DEF HandlerRec, PCs
    <2>3. handler' = [handler EXCEPT ![h] = q]
      BY <1>4, Zenon DEF VerifyGrant
    <2>4. OthersKept(h) /\ handler'[h] = q
      BY <1>1, <2>2, <2>3, HandlerUpdate, Zenon
    <2>5. token' = token
      BY Zenon DEF VerifyGrant
    <2>6. HandlerOK(h)'
      BY <1>2, <2>1, <2>2, <2>4, <2>5, Zenon DEF HandlerOK
    <2> QED BY <1>1, <2>4, <2>6, QuietOK, Zenon DEF VerifyGrant
  <1> QED BY <1>3, <1>4, Zenon

LEMMA ShareAgentOK ==
  ASSUME ChainsInv, NEW h \in Handlers, ShareAgent(h)
  PROVE  ChainsInv'
  <1>1. ChainsType /\ HandlerOK(h) /\ (grant = Nil \/ grant \in GrantRow)' /\ (grants \in Nat)' /\ stopped' = stopped
    BY Zenon DEF ChainsInv, ChainsType, ShareAgent
  <1>2. TokensKept(h) /\ DOMAIN token' = DOMAIN token /\ CodesKept(h) /\ token' = token
    BY <1>1, SameTokens, SameCodes, Zenon DEF ShareAgent
  <1>3. LocksKept(h) /\ h \in agent'.share
    BY <1>1, Zenon DEF LocksKept, ShareAgent, ShareLock, ChainsType, Agent
  <1>4. \/ At(h, "share") /\ Goto(h, "mark")
        \/ At(h, "reuse") /\ Goto(h, "select")
    BY Zenon DEF ShareAgent
  <1>5. OthersKept(h) /\ HandlerOK(h)'
    <2>1. CASE At(h, "share") /\ Goto(h, "mark")
      <3>1. "mark" \in PCs
        BY Zenon DEF PCs
      <3>2. /\ OthersKept(h) /\ handler'[h].pc = "mark" /\ handler'[h].token = handler[h].token
            /\ handler'[h].chain = handler[h].chain /\ handler'[h].grant = handler[h].grant
        BY <1>1, <2>1, <3>1, GotoUpdate, Zenon
      <3> QED BY <1>1, <1>2, <1>3, <2>1, <3>2, Zenon DEF HandlerOK, At
    <2>2. CASE At(h, "reuse") /\ Goto(h, "select")
      <3>1. "select" \in PCs
        BY Zenon DEF PCs
      <3>2. OthersKept(h) /\ handler'[h].pc = "select"
        BY <1>1, <2>2, <3>1, GotoUpdate, Zenon
      <3> QED BY <3>2, Zenon DEF HandlerOK
    <2> QED BY <1>4, <2>1, <2>2, Zenon
  <1> QED BY <1>1, <1>2, <1>3, <1>5, StepOK, Zenon

LEMMA ShareNoRowOK ==
  ASSUME ChainsInv, NEW h \in Handlers, ShareNoRow(h)
  PROVE  ChainsInv'
  <1>1. ChainsType /\ (grant = Nil \/ grant \in GrantRow)' /\ (grants \in Nat)' /\ UNCHANGED <<grant, grants, stopped>>
    BY Zenon DEF ChainsInv, ChainsType, ShareNoRow
  <1>2. CASE Rollback(h)
    BY <1>1, <1>2, RollbackOK, Zenon
  <1>3. CASE Goto(h, "select") /\ UNCHANGED <<token, code, agent>>
    <2>1. "select" \in PCs
      BY Zenon DEF PCs
    <2>2. OthersKept(h) /\ handler'[h].pc = "select"
      BY <1>1, <1>3, <2>1, GotoUpdate, Zenon
    <2>3. HandlerOK(h)'
      BY <2>2, Zenon DEF HandlerOK
    <2> QED BY <1>1, <1>3, <2>2, <2>3, QuietOK, Zenon
  <1> QED BY <1>2, <1>3, Zenon DEF ShareNoRow

LEMMA MarkUsedOK ==
  ASSUME ChainsInv, NEW h \in Handlers, MarkUsed(h)
  PROVE  ChainsInv'
  <1>1. ChainsType /\ HandlerOK(h) /\ (grant = Nil \/ grant \in GrantRow)' /\ (grants \in Nat)' /\ UNCHANGED <<grant, grants, stopped>>
    BY Zenon DEF ChainsInv, ChainsType, MarkUsed
  <1> DEFINE t == handler[h].token
             r == [token[t] EXCEPT !.by = h]
  <1>2. CASE Rollback(h)
    BY <1>1, <1>2, RollbackOK, Zenon
  <1>3. CASE /\ StillUnused(t) /\ token' = [token EXCEPT ![t].by = h]
             /\ Goto(h, "rotate") /\ UNCHANGED <<code, agent>>
    <2>1. /\ t \in DOMAIN token /\ token[t].chain = handler[h].chain /\ token[t].grant = handler[h].grant
          /\ h \in agent.share /\ token[t].by = Nil
      BY <1>1, Zenon DEF HandlerOK, MarkUsed, At
    <2>2. token[t] \in TokenRow
      BY <1>1, <2>1, TokenDomain, Zenon DEF ChainsType
    <2>3. /\ r \in TokenRow /\ SameIdentity(r, token[t])
          /\ r.by = h /\ r.used = token[t].used /\ r.gone = token[t].gone
      BY <2>2, Zenon DEF TokenRow, SameIdentity
    <2>4. token' = [token EXCEPT ![t] = r]
      BY <1>3, Zenon
    <2>5. TokensKept(h) /\ DOMAIN token' = DOMAIN token /\ token'[t] = r
      <3> HIDE DEF t, r
      <3> QED BY <1>1, <2>1, <2>3, <2>4, OneRowKept, Zenon
    <2>6. CodesKept(h) /\ LocksKept(h)
      BY <1>1, <1>3, SameCodes, SameLocks, Zenon
    <2>7. "rotate" \in PCs
      BY Zenon DEF PCs
    <2>8. /\ OthersKept(h) /\ handler'[h].pc = "rotate" /\ handler'[h].token = t
          /\ handler'[h].chain = handler[h].chain /\ handler'[h].grant = handler[h].grant
      BY <1>1, <1>3, <2>7, GotoUpdate, Zenon
    <2>9. HandlerOK(h)'
      <3>1. token'[t].by = h /\ token'[t].chain = handler'[h].chain /\ token'[t].grant = handler'[h].grant
        BY <2>1, <2>3, <2>5, <2>8, Zenon DEF SameIdentity
      <3>2. ~token'[t].used /\ ~token'[t].gone
        BY <1>3, <2>3, <2>5, Zenon DEF StillUnused, Active
      <3> QED BY <1>3, <2>1, <2>5, <2>8, <3>1, <3>2, Zenon DEF HandlerOK, Active
    <2> QED BY <1>1, <2>5, <2>6, <2>8, <2>9, StepOK, Zenon
  <1> QED BY <1>2, <1>3, Zenon DEF MarkUsed

LEMMA SelectChainOK ==
  ASSUME ChainsInv, NEW h \in Handlers, SelectChain(h)
  PROVE  ChainsInv'
  <1>1. ChainsType /\ (grant = Nil \/ grant \in GrantRow)' /\ (grants \in Nat)'
    BY Zenon DEF ChainsInv, ChainsType, SelectChain
  <1> DEFINE T == OfChain(handler[h].chain) \cap ActiveTokens
  <1>2. T \subseteq Nat
    <2>1. DOMAIN token = 1..Len(token) /\ Len(token) \in Nat
      BY <1>1, TokenDomain, Zenon DEF ChainsType
    <2> QED BY <2>1 DEF ActiveTokens
  <1>3. OthersKept(h) /\ handler'[h].pc = "revoke"
    <2> HIDE DEF T
    <2>1. handler' = [handler EXCEPT ![h].pc = "revoke", ![h].targets = T]
      BY Zenon DEF SelectChain, T
    <2>2. "revoke" \in PCs
      BY Zenon DEF PCs
    <2> QED BY <1>1, <1>2, <2>1, <2>2, TargetsUpdate, Zenon
  <1>4. HandlerOK(h)'
    BY <1>3, Zenon DEF HandlerOK
  <1> QED BY <1>1, <1>3, <1>4, QuietOK, Zenon DEF SelectChain

LEMMA RevokeChainOK ==
  ASSUME ChainsInv, NEW h \in Handlers, RevokeChain(h)
  PROVE  ChainsInv'
  <1>1. ChainsType /\ (grant = Nil \/ grant \in GrantRow)' /\ (grants \in Nat)'
    BY Zenon DEF ChainsInv, ChainsType, RevokeChain
  <1>2. TokensKept(h) /\ DOMAIN token' = DOMAIN token
    BY <1>1, RevokedKept, Zenon DEF RevokeChain
  <1>3. CodesKept(h) /\ LocksKept(h)
    BY <1>1, SameCodes, UnlockedLocks, Zenon DEF RevokeChain
  <1>4. OthersKept(h) /\ handler'[h].pc = "idle"
    BY <1>1, IdleUpdate, Zenon DEF RevokeChain
  <1>5. HandlerOK(h)'
    BY <1>4, Zenon DEF HandlerOK
  <1> QED BY <1>1, <1>2, <1>3, <1>4, <1>5, StepOK, Zenon DEF RevokeChain

LEMMA InvalidateCodeOK ==
  ASSUME ChainsInv, NEW h \in Handlers, InvalidateCode(h)
  PROVE  ChainsInv'
  <1>1. ChainsType /\ HandlerOK(h) /\ (grant = Nil \/ grant \in GrantRow)' /\ (grants \in Nat)' /\ UNCHANGED <<grant, grants, stopped>>
    BY Zenon DEF ChainsInv, ChainsType, InvalidateCode
  <1> DEFINE c == handler[h].chain
  <1>2. CASE Rollback(h)
    BY <1>1, <1>2, RollbackOK, Zenon
  <1>3. CASE /\ CodeUnused(c) /\ code' = [code EXCEPT ![c].by = h]
             /\ Goto(h, "consent") /\ UNCHANGED <<token, agent>>
    <2>1. c \in Codes /\ code[c].by = Nil /\ ~code[c].used
      BY <1>1, <1>3, Zenon DEF HandlerOK, InvalidateCode, At, CodeUnused
    <2>2. CodesKept(h) /\ code'[c].by = h /\ ~code'[c].used
      <3> HIDE DEF c
      <3> QED BY <1>1, <1>3, <2>1, Zenon DEF CodesKept, ChainsType, Code
    <2>3. TokensKept(h) /\ DOMAIN token' = DOMAIN token /\ LocksKept(h)
      BY <1>1, <1>3, SameTokens, SameLocks, Zenon
    <2>4. "consent" \in PCs
      BY Zenon DEF PCs
    <2>5. OthersKept(h) /\ handler'[h].pc = "consent" /\ handler'[h].chain = c
      BY <1>1, <1>3, <2>4, GotoUpdate, Zenon
    <2>6. HandlerOK(h)'
      BY <2>1, <2>2, <2>5, Zenon DEF HandlerOK
    <2> QED BY <1>1, <2>2, <2>3, <2>5, <2>6, StepOK, Zenon
  <1> QED BY <1>2, <1>3, Zenon DEF InvalidateCode

LEMMA FindGrantOK ==
  ASSUME ChainsInv, NEW h \in Handlers, FindGrant(h)
  PROVE  ChainsInv'
  <1>1. ChainsType /\ HandlerOK(h) /\ (grant = Nil \/ grant \in GrantRow)' /\ (grants \in Nat)' /\ UNCHANGED <<grant, grants, stopped>>
    BY Zenon DEF ChainsInv, ChainsType, FindGrant
  <1>2. CASE Rollback(h)
    BY <1>1, <1>2, RollbackOK, Zenon
  <1>3. CASE /\ Granted /\ handler' = [handler EXCEPT ![h].pc = "issue", ![h].grant = grant.id]
             /\ UNCHANGED <<token, code, agent>>
    <2>1. grant.id \in Nat
      BY <1>1, <1>3, Zenon DEF ChainsType, GrantRow, Granted
    <2>2. OthersKept(h) /\ handler'[h].pc = "issue" /\ handler'[h].chain = handler[h].chain
      <3>1. "issue" \in PCs
        BY Zenon DEF PCs
      <3> QED BY <1>1, <1>3, <2>1, <3>1, GrantUpdate, Zenon
    <2>3. HandlerOK(h)'
      BY <1>1, <1>3, <2>2, Zenon DEF HandlerOK, FindGrant, At
    <2> QED BY <1>1, <1>3, <2>2, <2>3, QuietOK, Zenon
  <1> QED BY <1>2, <1>3, Zenon DEF FindGrant

(* The consent service writes the grant. *)
LEMMA WriteGrantOK ==
  ASSUME ChainsInv, NEW h \in Handlers, CreateGrant(h) \/ UpdateGrant(h)
  PROVE  ChainsInv'
  <1>1. ChainsType
    BY Zenon DEF ChainsInv
  <1>2. (grant = Nil \/ grant \in GrantRow)' /\ (grants \in Nat)'
    <2>1. CASE CreateGrant(h)
      <3>1. grants \in Nat /\ (grant = Nil \/ grant \in GrantRow)
        BY <1>1, Zenon DEF ChainsType
      <3>2. CASE grants' = grants + 1 /\ grant' = [id |-> grants + 1, expired |-> FALSE]
        BY <3>1, <3>2 DEF GrantRow
      <3>3. CASE grant # Nil /\ grant' = [grant EXCEPT !.expired = FALSE] /\ grants' = grants
        BY <3>1, <3>3, Zenon DEF GrantRow
      <3> QED BY <2>1, <3>2, <3>3, Zenon DEF CreateGrant
    <2>2. CASE UpdateGrant(h)
      BY <1>1, <2>2, Zenon DEF ChainsType, GrantRow, UpdateGrant
    <2> QED BY <2>1, <2>2, Zenon
  <1>3. OthersKept(h) /\ handler'[h].pc = "idle"
    BY <1>1, IdleUpdate, Zenon DEF CreateGrant, UpdateGrant
  <1>4. HandlerOK(h)'
    BY <1>3, Zenon DEF HandlerOK
  <1> QED BY <1>2, <1>3, <1>4, QuietOK, Zenon DEF CreateGrant, UpdateGrant

LEMMA LockAgentOK ==
  ASSUME ChainsInv, NEW h \in Handlers, LockAgent(h)
  PROVE  ChainsInv'
  <1>1. ChainsType /\ (grant = Nil \/ grant \in GrantRow)' /\ (grants \in Nat)' /\ stopped' = stopped
    BY Zenon DEF ChainsInv, ChainsType, LockAgent
  <1>2. TokensKept(h) /\ DOMAIN token' = DOMAIN token /\ CodesKept(h) /\ token' = token
    BY <1>1, SameTokens, SameCodes, Zenon DEF LockAgent
  <1>3. LocksKept(h) /\ agent'.exclusive = h
    BY <1>1, Zenon DEF LocksKept, LockAgent, ChainsType, Agent
  <1>4. ActiveTokens \subseteq Nat
    <2>1. DOMAIN token = 1..Len(token) /\ Len(token) \in Nat
      BY <1>1, TokenDomain, Zenon DEF ChainsType
    <2> QED BY <2>1 DEF ActiveTokens
  <1>5. OthersKept(h) /\ handler'[h].pc = "apply" /\ handler'[h].targets = ActiveTokens
    <2>1. "apply" \in PCs
      BY Zenon DEF PCs
    <2> QED BY <1>1, <1>4, <2>1, TargetsUpdate, Zenon DEF LockAgent
  <1>6. ActiveTokens' = ActiveTokens
    BY <1>2, Zenon DEF ActiveTokens, Active
  <1>7. HandlerOK(h)'
    BY <1>3, <1>5, <1>6, Zenon DEF HandlerOK
  <1> QED BY <1>1, <1>2, <1>3, <1>5, <1>7, StepOK, Zenon

LEMMA CommitRotationOK ==
  ASSUME ChainsInv, NEW h \in Handlers, CommitRotation(h)
  PROVE  ChainsInv'
  <1>1. /\ ChainsType /\ TableOK /\ HandlerOK(h)
        /\ (grant = Nil \/ grant \in GrantRow)' /\ (grants \in Nat)' /\ stopped' = stopped
    BY Zenon DEF ChainsInv, ChainsType, CommitRotation
  <1> DEFINE s == handler[h].token
             c == handler[h].chain
             g == handler[h].grant
             n == Len(Spent(h)) + 1
  <1>2. /\ s \in DOMAIN token /\ token[s].chain = c /\ token[s].grant = g /\ token[s].by = h
        /\ Active(s) /\ h \in agent.share
    BY <1>1, Zenon DEF HandlerOK, CommitRotation, At
  <1>3. c \in Codes /\ g \in Nat /\ s \in Nat
    <2>1. handler[h] \in HandlerRec /\ token[s] \in TokenRow
      BY <1>1, <1>2, TokenDomain, Zenon DEF ChainsType
    <2> QED BY <1>2, <2>1, Zenon DEF HandlerRec, TokenRow
  <1>4. NewToken(c, g, s) \in TokenRow
    BY <1>3, Zenon DEF NewToken, TokenRow
  <1>5. /\ token' \in Seq(TokenRow) /\ DOMAIN token' = DOMAIN token \cup {n} /\ n \notin DOMAIN token
        /\ token'[n] = NewToken(c, g, s) /\ \A t \in DOMAIN token : token'[t] = Spent(h)[t]
    <2>1. Spent(h) \in Seq(TokenRow) /\ DOMAIN Spent(h) = DOMAIN token
      BY <1>1, SpentKept, Zenon
    <2>2. token' = Append(Spent(h), NewToken(c, g, s))
      BY Zenon DEF CommitRotation
    <2> HIDE DEF s, c, g
    <2> QED BY <1>4, <2>1, <2>2, AppendToken, SMT
  <1>6. TokensKept(h) /\ token'[s].used
    <2>1. \A t \in DOMAIN token :
              /\ Spent(h)[t].chain = token[t].chain
              /\ Spent(h)[t].grant = token[t].grant
              /\ Spent(h)[t].parent = token[t].parent
              /\ token[t].used => Spent(h)[t].used
              /\ token[t].gone => Spent(h)[t].gone
              /\ token[t].by # h => Spent(h)[t] = token[t]
              /\ token[t].by = h => Spent(h)[t].used
      BY <1>1, SpentKept, ZenonT(40)
    <2> HIDE DEF s, c, g, n
    <2> QED BY <1>2, <1>5, <2>1, Zenon DEF TokensKept
  <1>7. CodesKept(h) /\ LocksKept(h) /\ code' = code
    BY <1>1, SameCodes, UnlockedLocks, Zenon DEF CommitRotation
  <1>8. agent.exclusive = Nil
    BY <1>1, <1>2, Zenon DEF TableOK
  <1>9. OthersKept(h) /\ handler'[h].pc = "idle"
    BY <1>1, IdleUpdate, Zenon DEF CommitRotation
  <1>10. HandlerOK(h)'
    BY <1>9, Zenon DEF HandlerOK
  <1>11. code'[c].used /\ c \notin stopped
    BY <1>1, <1>2, <1>7, Zenon DEF TableOK, StoppedStaysDead, ActiveTokens
  <1>12. ASSUME NEW t \in DOMAIN token, token[t].chain = c
         PROVE  t \notin ActiveTokens' /\ token[t].grant = g /\ token[t].parent # s
    <2>1. token[t].grant = g
      BY <1>1, <1>2, <1>12, Zenon DEF TableOK, ChainKeepsGrant
    <2>2. token[t].parent # s
      <3>1. s # 0
        BY <1>1, <1>2, TokenDomain DEF ChainsType
      <3> QED BY <1>1, <1>2, <3>1, Zenon DEF TableOK, Lineage, Active
    <2>3. ~Active(t)'
      <3>1. CASE t = s
        BY <1>6, <3>1, Zenon DEF Active
      <3>2. CASE t # s
        <4>1. ~Active(t)
          BY <1>1, <1>2, <1>12, <3>2, Zenon DEF TableOK, OneActivePerChain, ActiveTokens
        <4> QED BY <1>6, <4>1, Zenon DEF Active, TokensKept
      <3> QED BY <3>1, <3>2, Zenon
    <2> QED BY <2>1, <2>2, <2>3, Zenon DEF ActiveTokens
  <1>13. TableOK'
    <2> HIDE DEF s, c, g, n
    <2> QED BY <1>1, <1>2, <1>3, <1>5, <1>6, <1>7, <1>11, <1>12, AddedTokenOK, SMT
  <1> QED BY <1>1, <1>6, <1>7, <1>8, <1>9, <1>10, <1>13, InvOK, Zenon

LEMMA CommitIssueOK ==
  ASSUME ChainsInv, NEW h \in Handlers, CommitIssue(h)
  PROVE  ChainsInv'
  <1>1. /\ ChainsType /\ TableOK /\ HandlerOK(h) /\ agent.exclusive = Nil
        /\ (grant = Nil \/ grant \in GrantRow)' /\ (grants \in Nat)' /\ stopped' = stopped
    BY Zenon DEF ChainsInv, ChainsType, CommitIssue
  <1> DEFINE c == handler[h].chain
             g == handler[h].grant
             n == Len(token) + 1
  <1>2. c \in Codes /\ code[c].by = h /\ ~code[c].used
    BY <1>1, Zenon DEF HandlerOK, CommitIssue, At
  <1>3. NewToken(c, g, 0) \in TokenRow
    BY <1>1, <1>2, Zenon DEF ChainsType, HandlerRec, NewToken, TokenRow
  <1>4. /\ token' \in Seq(TokenRow) /\ DOMAIN token' = DOMAIN token \cup {n} /\ n \notin DOMAIN token
        /\ token'[n] = NewToken(c, g, 0) /\ \A t \in DOMAIN token : token'[t] = token[t]
    <2>1. token' = Append(token, NewToken(c, g, 0)) /\ token \in Seq(TokenRow)
      BY <1>1, Zenon DEF CommitIssue, ChainsType
    <2> HIDE DEF c, g
    <2> QED BY <1>3, <2>1, AppendToken, SMT
  <1>5. TokensKept(h)
    <2> HIDE DEF c, g, n
    <2> QED BY <1>4, Zenon DEF TokensKept
  <1>6. CodesKept(h) /\ code'[c].used
    BY <1>1, <1>2, Zenon DEF CodesKept, ChainsType, Code, CommitIssue
  <1>7. LocksKept(h)
    BY SameLocks, Zenon DEF CommitIssue
  <1>8. OthersKept(h) /\ handler'[h].pc = "idle"
    BY <1>1, IdleUpdate, Zenon DEF CommitIssue
  <1>9. HandlerOK(h)'
    BY <1>8, Zenon DEF HandlerOK
  <1>10. c \notin stopped /\ \A t \in DOMAIN token : token[t].chain # c
    BY <1>1, <1>2, Zenon DEF TableOK
  <1>11. TableOK'
    <2> HIDE DEF c, g, n
    <2> QED BY <1>1, <1>2, <1>4, <1>5, <1>6, <1>7, <1>10, AddedTokenOK, SMT
  <1> QED BY <1>1, <1>5, <1>6, <1>7, <1>8, <1>9, <1>11, InvOK, Zenon

LEMMA RevokeAllOK ==
  ASSUME ChainsInv, NEW h \in Handlers, RevokeAll(h)
  PROVE  ChainsInv'
  <1>1. ChainsType /\ HandlerOK(h) /\ (grant = Nil \/ grant \in GrantRow)' /\ (grants \in Nat)'
    BY Zenon DEF ChainsInv, ChainsType, RevokeAll
  <1>2. /\ TokensKept(h) /\ DOMAIN token' = DOMAIN token
        /\ \A t \in DOMAIN token : t \in handler[h].targets => token'[t].used
    BY <1>1, RevokedKept, Zenon DEF RevokeAll
  <1>3. CodesKept(h) /\ LocksKept(h)
    BY <1>1, SameCodes, UnlockedLocks, Zenon DEF RevokeAll
  <1>4. OthersKept(h) /\ handler'[h].pc \in {"idle", "update"}
    <2>1. CASE Done(h)
      BY <1>1, <2>1, IdleUpdate, Zenon
    <2>2. CASE handler' = [handler EXCEPT ![h].pc = "update", ![h].targets = {}]
      <3>1. "update" \in PCs /\ {} \in SUBSET Nat
        BY Zenon DEF PCs
      <3> QED BY <1>1, <2>2, <3>1, TargetsUpdate, Zenon
    <2> QED BY <2>1, <2>2, Zenon DEF RevokeAll
  <1>5. HandlerOK(h)'
    BY <1>4, Zenon DEF HandlerOK
  <1>6. ActiveTokens' = {}
    <2>1. ActiveTokens \subseteq handler[h].targets
      BY <1>1, Zenon DEF HandlerOK, RevokeAll, At
    <2> QED BY <1>2, <2>1, Zenon DEF ActiveTokens, Active, TokensKept
  <1>7. StoppedKept
    BY <1>6, Zenon DEF StoppedKept, RevokeAll
  <1> QED BY <1>1, <1>2, <1>3, <1>4, <1>5, <1>7, TablesOK, InvOK, Zenon

LEMMA GrantExpiresOK ==
  ASSUME ChainsInv, GrantExpires
  PROVE  ChainsInv'
  <1>1. ChainsType /\ OthersKept(Nil)
    BY SameHandlers, Zenon DEF ChainsInv, GrantExpires
  <1>2. (grant = Nil \/ grant \in GrantRow)' /\ (grants \in Nat)'
    BY <1>1, Zenon DEF ChainsType, GrantRow, GrantExpires
  <1> QED BY <1>1, <1>2, QuietOK, Zenon DEF GrantExpires

LEMMA DeleteExpiredOK ==
  ASSUME ChainsInv, NEW t, DeleteExpired(t)
  PROVE  ChainsInv'
  <1>1. ChainsType /\ (grant = Nil \/ grant \in GrantRow)' /\ (grants \in Nat)' /\ stopped' = stopped
    BY Zenon DEF ChainsInv, ChainsType, DeleteExpired
  <1> DEFINE r == [token[t] EXCEPT !.gone = TRUE]
  <1>2. t \in DOMAIN token /\ token[t].by = Nil /\ token' = [token EXCEPT ![t] = r]
    BY Zenon DEF DeleteExpired
  <1>3. token[t] \in TokenRow
    BY <1>1, <1>2, TokenDomain, Zenon DEF ChainsType
  <1>4. r \in TokenRow /\ SameIdentity(r, token[t]) /\ r.used = token[t].used /\ r.gone
    BY <1>3, Zenon DEF TokenRow, SameIdentity
  <1>5. TokensKept(Nil) /\ DOMAIN token' = DOMAIN token
    <2> HIDE DEF r
    <2> QED BY <1>1, <1>2, <1>4, OneRowKept, Zenon
  <1>6. CodesKept(Nil) /\ LocksKept(Nil) /\ OthersKept(Nil)
    BY <1>1, SameCodes, SameLocks, SameHandlers, Zenon DEF DeleteExpired
  <1> QED BY <1>1, <1>5, <1>6, StepOK, Zenon

(* ----------------------------- theorems -------------------------------- *)

LEMMA ChainsInitOK == Init => ChainsInv
  <1> SUFFICES ASSUME Init PROVE ChainsInv
    BY Zenon
  <1>1. token = <<>> /\ DOMAIN token = {} /\ stopped = {}
    BY DEF Init
  <1>2. ChainsType
    <2>1. Idle \in HandlerRec
      BY Zenon DEF Idle, HandlerRec, PCs, Ops
    <2>2. handler \in [Handlers -> HandlerRec]
      BY <2>1, Zenon DEF Init
    <2>3. token \in Seq(TokenRow)
      BY <1>1
    <2>4. code \in [Codes -> Code] /\ agent \in Agent
      BY Zenon DEF Init, Code, Agent
    <2>5. grant \in GrantRow /\ grants \in Nat
      BY Zenon DEF Init, GrantRow
    <2> QED BY <2>2, <2>3, <2>4, <2>5, Zenon DEF ChainsType
  <1>3. \A h \in Handlers : HandlerOK(h)
    BY Zenon DEF Init, Idle, HandlerOK
  <1>4. TableOK
    BY <1>1, Zenon DEF TableOK, Lineage, OneActivePerChain, SingleUse, ChainKeepsGrant, StoppedStaysDead, ActiveTokens, Init
  <1> QED BY <1>2, <1>3, <1>4, Zenon DEF ChainsInv

LEMMA ChainsStepOK == ChainsInv /\ [Next]_vars => ChainsInv'
  <1> SUFFICES ASSUME ChainsInv, [Next]_vars PROVE ChainsInv'
    BY Zenon
  <1>1. ASSUME NEW h \in Handlers, Arrive(h) PROVE ChainsInv'
    BY <1>1, FindTokenOK, FindCodeOK, ConsentRequestOK, Zenon DEF Arrive
  <1>2. ASSUME NEW h \in Handlers, Step(h) PROVE ChainsInv'
    BY <1>2, VerifyGrantOK, ShareAgentOK, ShareNoRowOK, MarkUsedOK, CommitRotationOK, SelectChainOK, RevokeChainOK,
       InvalidateCodeOK, FindGrantOK, CommitIssueOK, WriteGrantOK, LockAgentOK, RevokeAllOK, Zenon DEF Step
  <1>3. ASSUME NEW h \in Handlers, Abort(h) PROVE ChainsInv'
    BY <1>3, RollbackOK, Zenon DEF Abort
  <1>4. CASE UNCHANGED vars
    <2>1. ChainsType /\ (grant = Nil \/ grant \in GrantRow)' /\ (grants \in Nat)'
      BY <1>4, Zenon DEF ChainsInv, ChainsType, vars
    <2>2. OthersKept(Nil)
      BY <1>4, <2>1, SameHandlers, Zenon DEF vars
    <2> QED BY <1>4, <2>1, <2>2, QuietOK, Zenon DEF vars
  <1> QED BY <1>1, <1>2, <1>3, <1>4, GrantExpiresOK, DeleteExpiredOK, Zenon DEF Next

(* The inductive invariant holds in every state of the broker: for any     *)
(* number of handlers, codes, tokens and grants, and with requests that    *)
(* fail, processes that die and rows that expire at any point.             *)
THEOREM ChainsInvariant == Spec => []ChainsInv
  BY ChainsInitOK, ChainsStepOK, PTL DEF Spec

(* Rotation replaces a token and never adds one, however the requests that *)
(* present it overlap (MarkUsed and CreateSuccessor in one transaction).   *)
THEOREM OneActiveTokenPerChain == Spec => []OneActivePerChain
  <1>1. ChainsInv => OneActivePerChain
    BY Zenon DEF ChainsInv, TableOK
  <1> QED BY <1>1, ChainsInvariant, PTL

(* A chain that had a token when all sessions were revoked never has one   *)
(* to use again: no rotation in flight crosses revokeByAgent.              *)
THEOREM RevokedChainsStayDead == Spec => []StoppedStaysDead
  <1>1. ChainsInv => StoppedStaysDead
    BY Zenon DEF ChainsInv, TableOK
  <1> QED BY <1>1, ChainsInvariant, PTL

(* A code and a token are exchanged at most once, and a chain is continued *)
(* only under the grant it was issued under.                               *)
THEOREM ExchangedOnceUnderOneGrant == Spec => [](SingleUse /\ ChainKeepsGrant)
  <1>1. ChainsInv => SingleUse /\ ChainKeepsGrant
    BY Zenon DEF ChainsInv, TableOK
  <1> QED BY <1>1, ChainsInvariant, PTL

(***************************************************************************)
(* The endpoints.  An authorization request goes from one check to the     *)
(* next; held is what was true at some moment of the request, and AuthGood *)
(* says what each stage has established: the grant was active, which       *)
(* services have been found usable, which requirements scoped.             *)
(***************************************************************************)
(* What a resolution may answer. *)
LEMMA ResolveAnswers ==
  ASSUME NEW form, NEW r \in ResolveClient(form)
  PROVE  /\ r.err \in {"", "server_error", "invalid_client"}
         /\ r.meta # NoRecord => form = "url"
         /\ r.err = "" /\ form = "url" => r.meta # NoRecord
         /\ r.err = "" => r.agent = agentRow /\ agentRow # NoRecord
  <1>1. \/ \E reason \in {"server_error", "invalid_client"} : r = Unresolved(reason)
        \/ form = "url" /\ agentRow # NoRecord /\ document # NoRecord /\ r = Resolved(agentRow, document)
        \/ form # "url" /\ agentRow # NoRecord /\ r = Resolved(agentRow, NoRecord)
    BY Zenon DEF ResolveClient, resolveCIMD, resolveOpaque
  <1>2. \A reason \in {"server_error", "invalid_client"} :
          Unresolved(reason).err = reason /\ Unresolved(reason).meta = NoRecord /\ reason # ""
    BY Zenon DEF Unresolved
  <1>3. \A a, d : Resolved(a, d).err = "" /\ Resolved(a, d).agent = a /\ Resolved(a, d).meta = d
    BY Zenon DEF Resolved
  <1>4. ASSUME NEW reason \in {"server_error", "invalid_client"}, r = Unresolved(reason)
        PROVE  r.err \in {"", "server_error", "invalid_client"} /\ r.err # "" /\ r.meta = NoRecord
    <2>1. r.err = reason /\ r.meta = NoRecord /\ reason # ""
      BY <1>2, <1>4, Zenon
    <2> QED BY <1>4, <2>1, Zenon
  <1>5. CASE form = "url" /\ agentRow # NoRecord /\ document # NoRecord /\ r = Resolved(agentRow, document)
    <2>1. r.err = "" /\ r.agent = agentRow /\ r.meta = document
      BY <1>3, <1>5, Zenon
    <2> QED BY <1>5, <2>1, Zenon
  <1>6. CASE form # "url" /\ agentRow # NoRecord /\ r = Resolved(agentRow, NoRecord)
    <2>1. r.err = "" /\ r.agent = agentRow /\ r.meta = NoRecord
      BY <1>3, <1>6, Zenon
    <2> QED BY <1>6, <2>1, Zenon
  <1> QED BY <1>1, <1>4, <1>5, <1>6, Zenon

AuthFields == DOMAIN NoRequest
Consented(q) == <<"granted", NoRecord>> \in held /\ q.grant.sets \subseteq q.first.declared
UsableIn(services) == \A v \in services : <<"usable", v>> \in held
ScopedIn(services) == \A v \in services : <<"scoped", v>> \in held
Entitled(q) == Consented(q) /\ UsableIn(q.grant.services) /\ ScopedIn(q.first.mandatory)
(* What a request has established at its stage.                            *)
AuthGood(q) ==
  /\ DOMAIN q = AuthFields
  /\ q.stage \in {"grant", "sessions", "requirements", "decide"} => q.agent = q.first
  /\ q.stage \in {"grant", "sessions"} => q.agent.mandatory \subseteq AuthServices
  /\ q.stage = "sessions" => /\ q.left \subseteq AuthServices
                             /\ Consented(q) /\ UsableIn(q.grant.services \ q.left)
  /\ q.stage = "requirements" => /\ q.left \subseteq AuthServices
                                 /\ Consented(q) /\ UsableIn(q.grant.services) /\ ScopedIn(q.first.mandatory \ q.left)
  /\ q.stage \in {"decide", "issue", "credential"} => Entitled(q)
  /\ q.stage = "done" /\ (q.to = "upstream" \/ q.code = "code") => Entitled(q)
AuthInv ==
  /\ userSession \in [AuthServices -> SessionStates]
  /\ agentRow # NoRecord => agentRow.mandatory \subseteq AuthServices
  /\ userGrant # NoRecord => userGrant.services \subseteq AuthServices
  /\ areq.stage # "none" => Facts(userGrant, userSession) \subseteq held
  /\ AuthGood(areq)

(* What has been true at some moment stays so. *)
LEMMA EntitlementsStay ==
  ASSUME NEW q, AuthGood(q), held \subseteq held'
  PROVE  AuthGood(q)'
  BY Zenon DEF AuthGood, Entitled, Consented, UsableIn, ScopedIn, AuthFields

(* A step of the request alone. *)
LEMMA AsksOK ==
  ASSUME AuthInv, NEW q, Asks(q), AuthGood(q), areq.stage # "none"
  PROVE  AuthInv'
  <1>1. areq' = q /\ UNCHANGED agentRow /\ UNCHANGED userGrant /\ UNCHANGED userSession /\ UNCHANGED held
    BY Zenon DEF Asks, clientVars
  <1>2. AuthGood(q)'
    BY <1>1, EntitlementsStay, Zenon
  <1>3. AuthGood(areq)'
    BY <1>1, <1>2, Zenon DEF AuthGood, Entitled, Consented, UsableIn, ScopedIn, AuthFields
  <1> QED BY <1>1, <1>3, Zenon DEF AuthInv, Facts

(* A request that does not proceed. *)
LEMMA RefusedOK ==
  ASSUME AuthInv, areq.stage # "none", NEW to, NEW reason, to # "upstream", reason # "code", Asks(Answer(to, reason))
  PROVE  AuthInv'
  <1>1. AuthGood(areq)
    BY Zenon DEF AuthInv
  <1>2. AuthGood(Answer(to, reason))
    BY <1>1, Zenon DEF Answer, AuthGood, AuthFields, NoRequest
  <1> QED BY <1>2, AsksOK, Zenon

LEMMA Refusals ==
  /\ "page" # "upstream" /\ "client" # "upstream" /\ "consent" # "upstream"
  /\ "consent" # "code" /\ "server_error" # "code" /\ "invalid_client" # "code" /\ "invalid_scope" # "code"
  /\ "unauthorized_client" # "code" /\ "invalid_redirect_uri" # "code" /\ "invalid_request" # "code"
  /\ "unsupported_response_type" # "code"
  BY Zenon

LEMMA AskConsentOK ==
  ASSUME AuthInv, areq.stage # "none", AskConsent \/ Asks(Answer("client", "server_error"))
  PROVE  AuthInv'
  BY Refusals, RefusedOK, Zenon DEF AskConsent

LEMMA AuthorizeOK ==
  ASSUME AuthInv, NEW form, NEW uri, NEW scope, NEW rtype, Authorize(form, uri, scope, rtype)
  PROVE  AuthInv'
  <1>1. PICK bad : bad = (form = "" \/ uri = "" \/ rtype = "")
    BY Zenon
  <1>2. PICK q : q = [NoRequest EXCEPT !.stage = IF bad THEN "done" ELSE "resolve",
                                     !.form = form, !.uri = uri, !.scope = scope, !.rtype = rtype, !.since = edits,
                                     !.to = IF bad THEN "page" ELSE "", !.code = IF bad THEN "invalid_request" ELSE ""]
    BY Zenon
  <1>3. /\ areq' = q /\ held' = Facts(userGrant, userSession) /\ UNCHANGED agentRow /\ UNCHANGED userGrant
        /\ UNCHANGED userSession
    BY <1>1, <1>2, Zenon DEF Authorize, clientVars
  <1>4. /\ DOMAIN q = AuthFields /\ q.stage \in {"done", "resolve"} /\ q.to \in {"page", ""}
        /\ q.code \in {"invalid_request", ""}
    BY <1>2, Zenon DEF AuthFields, NoRequest
  <1>5. /\ q.stage \notin {"grant", "sessions", "requirements", "decide"} /\ q.stage \notin {"grant", "sessions"}
        /\ q.stage # "sessions" /\ q.stage # "requirements" /\ q.stage \notin {"decide", "issue", "credential"}
        /\ q.to # "upstream" /\ q.code # "code"
    BY <1>4, Zenon
  <1>6. AuthGood(areq)'
    BY <1>3, <1>4, <1>5, Zenon DEF AuthGood, AuthFields
  <1> QED BY <1>3, <1>6, Zenon DEF AuthInv, Facts

LEMMA CheckClientOK ==
  ASSUME AuthInv, CheckClient
  PROVE  AuthInv'
  <1>1. areq.stage = "resolve" /\ areq.stage # "none" /\ AuthGood(areq)
    BY Zenon DEF CheckClient, AuthInv
  <1>2. PICK r \in ResolveClient(areq.form) :
          \/ r.err # "" /\ Asks(Answer("page", r.err))
          \/ Asks(Answer("page", "unauthorized_client"))
          \/ \E bad \in {"invalid_request", "invalid_redirect_uri"} : Asks(Answer("page", bad))
          \/ Asks([[areq EXCEPT !.agent = r.agent, !.meta = r.meta, !.first = r.agent]
                      EXCEPT !.stage = "done", !.to = "client", !.code = "invalid_scope"])
          \/ r.err = "" /\ Asks([[areq EXCEPT !.agent = r.agent, !.meta = r.meta, !.first = r.agent] EXCEPT !.stage = "grant"])
    <2>1. \A row, meta, uri : RedirectURIError(row, meta, uri) \in {"", "invalid_request", "invalid_redirect_uri"}
      BY Zenon DEF RedirectURIError
    <2>2. PICK r \in ResolveClient(areq.form) :
            Asks(IF r.err # "" THEN Answer("page", r.err)
                 ELSE IF ~AcceptsClientType(ClientType(r.agent)) THEN Answer("page", "unauthorized_client")
                 ELSE IF RedirectURIError(r.agent, r.meta, areq.uri) # ""
                 THEN Answer("page", RedirectURIError(r.agent, r.meta, areq.uri))
                 ELSE IF areq.scope # "" /\ ~IsScopeAllowed(r.agent, areq.scope)
                 THEN [[areq EXCEPT !.agent = r.agent, !.meta = r.meta, !.first = r.agent]
                         EXCEPT !.stage = "done", !.to = "client", !.code = "invalid_scope"]
                 ELSE [[areq EXCEPT !.agent = r.agent, !.meta = r.meta, !.first = r.agent] EXCEPT !.stage = "grant"])
      BY Zenon DEF CheckClient
    <2>3. PICK bad \in {"", "invalid_request", "invalid_redirect_uri"} : bad = RedirectURIError(r.agent, r.meta, areq.uri)
      BY <2>1, Zenon
    <2>4. bad # "" => bad \in {"invalid_request", "invalid_redirect_uri"}
      BY <2>3, Zenon
    <2> QED BY <2>2, <2>3, <2>4, Zenon
  <1>3. PICK a, d : a = r.agent /\ d = r.meta
    BY Zenon
  <1>4. CASE r.err # "" /\ Asks(Answer("page", r.err))
    <2>1. r.err # "code"
      BY <1>2, <1>4, ResolveAnswers, Refusals, Zenon
    <2> QED BY <1>1, <1>4, <2>1, Refusals, RefusedOK, Zenon
  <1>5. CASE \/ Asks(Answer("page", "unauthorized_client"))
             \/ \E bad \in {"invalid_request", "invalid_redirect_uri"} : Asks(Answer("page", bad))
    BY <1>1, <1>5, Refusals, RefusedOK, Zenon
  <1>6. PICK q : q = [areq EXCEPT !.agent = a, !.meta = d, !.first = a]
    BY Zenon
  <1>7. DOMAIN q = AuthFields /\ q.agent = a /\ q.first = a
    BY <1>1, <1>6, Zenon DEF AuthGood, AuthFields, NoRequest
  <1>8. CASE Asks([q EXCEPT !.stage = "done", !.to = "client", !.code = "invalid_scope"])
    <2>1. AuthGood([q EXCEPT !.stage = "done", !.to = "client", !.code = "invalid_scope"])
      BY <1>7, Zenon DEF AuthGood, AuthFields, NoRequest
    <2> QED BY <1>1, <1>8, <2>1, AsksOK, Zenon
  <1>9. CASE r.err = "" /\ Asks([q EXCEPT !.stage = "grant"])
    <2>1. a.mandatory \subseteq AuthServices
      BY <1>2, <1>3, <1>9, ResolveAnswers, Zenon DEF AuthInv
    <2>2. AuthGood([q EXCEPT !.stage = "grant"])
      BY <1>7, <2>1, Zenon DEF AuthGood, AuthFields, NoRequest
    <2> QED BY <1>1, <1>9, <2>2, AsksOK, Zenon
  <1> QED BY <1>2, <1>3, <1>4, <1>5, <1>6, <1>8, <1>9, Zenon

LEMMA CheckGrantOK ==
  ASSUME AuthInv, CheckGrant
  PROVE  AuthInv'
  <1>1. areq.stage = "grant" /\ areq.stage # "none" /\ AuthGood(areq)
    BY Zenon DEF CheckGrant, AuthInv
  <1>2. CASE AskConsent \/ Asks(Answer("client", "server_error"))
    BY <1>1, <1>2, AskConsentOK, Zenon
  <1>3. CASE /\ ~needsConsent(userGrant, areq.agent)
             /\ Asks([areq EXCEPT !.stage = "sessions", !.grant = userGrant, !.left = relevantServices(userGrant)])
    <2>1. /\ userGrant # NoRecord /\ userGrant.active /\ userGrant.sets \subseteq areq.agent.declared
          /\ relevantServices(userGrant) = userGrant.services
      BY <1>3, Zenon DEF needsConsent, relevantServices
    <2>2. <<"granted", NoRecord>> \in held
      BY <1>1, <2>1, Zenon DEF AuthInv, Facts
    <2>3. userGrant.services \subseteq AuthServices /\ areq.agent.mandatory \subseteq AuthServices /\ areq.agent = areq.first
      BY <1>1, <2>1, Zenon DEF AuthInv, AuthGood
    <2>4. PICK q : q = [areq EXCEPT !.stage = "sessions", !.grant = userGrant, !.left = userGrant.services]
      BY Zenon
    <2>5. /\ DOMAIN q = AuthFields /\ q.stage = "sessions" /\ q.grant = userGrant /\ q.left = userGrant.services
          /\ q.agent = areq.agent /\ q.first = areq.first
      BY <1>1, <2>4, Zenon DEF AuthGood, AuthFields, NoRequest
    <2>6. /\ "sessions" # "requirements" /\ "sessions" \notin {"decide", "issue", "credential"} /\ "sessions" # "done"
      BY Zenon
    <2>7. AuthGood(q)
      BY <2>1, <2>2, <2>3, <2>5, <2>6, Zenon DEF AuthGood, Consented, UsableIn
    <2> QED BY <1>1, <1>3, <2>1, <2>4, <2>7, AsksOK, Zenon
  <1> QED BY <1>2, <1>3, Zenon DEF CheckGrant

(* A session that is not unusable is a fact, and so is one with its scopes. *)
LEMMA SessionFacts ==
  ASSUME AuthInv, areq.stage # "none", NEW v \in AuthServices
  PROVE  /\ ~Unusable(v) => <<"usable", v>> \in held
         /\ MeetsRequirement(v) => <<"scoped", v>> \in held
  <1>1. userSession[v] \in SessionStates /\ Facts(userGrant, userSession) \subseteq held
    BY Zenon DEF AuthInv
  <1>2. ~Unusable(v) => userSession[v] \in {"narrow", "full"}
    BY <1>1, Zenon DEF Unusable, RequiresReauthentication, SessionStates
  <1> QED BY <1>1, <1>2, Zenon DEF Facts, MeetsRequirement, hasRequiredScopes

LEMMA CheckSessionOK ==
  ASSUME AuthInv, CheckSession
  PROVE  AuthInv'
  <1>1. /\ areq.stage = "sessions" /\ areq.stage # "none" /\ AuthGood(areq) /\ DOMAIN areq = AuthFields
        /\ areq.agent = areq.first /\ areq.agent.mandatory \subseteq AuthServices /\ areq.left \subseteq AuthServices
        /\ Consented(areq) /\ UsableIn(areq.grant.services \ areq.left)
    BY Zenon DEF CheckSession, AuthInv, AuthGood
  <1>2. CASE AskConsent \/ Asks(Answer("client", "server_error"))
    BY <1>1, <1>2, AskConsentOK, Zenon
  <1>3. CASE areq.left = {} /\ Asks([areq EXCEPT !.stage = "requirements", !.left = areq.agent.mandatory])
    <2>1. PICK q : q = [areq EXCEPT !.stage = "requirements", !.left = areq.agent.mandatory]
      BY Zenon
    <2>2. /\ DOMAIN q = AuthFields /\ q.stage = "requirements" /\ q.grant = areq.grant /\ q.left = areq.agent.mandatory
          /\ q.agent = areq.agent /\ q.first = areq.first
      BY <1>1, <2>1, Zenon DEF AuthFields, NoRequest
    <2>3. /\ "requirements" \notin {"grant", "sessions"} /\ "requirements" # "sessions"
          /\ "requirements" \notin {"decide", "issue", "credential"} /\ "requirements" # "done"
      BY Zenon
    <2>4. AuthGood(q)
      BY <1>1, <1>3, <2>2, <2>3, Zenon DEF AuthGood, Consented, UsableIn, ScopedIn
    <2> QED BY <1>1, <1>3, <2>1, <2>4, AsksOK, Zenon
  <1>4. ASSUME NEW v \in areq.left, ~Unusable(v), Asks([areq EXCEPT !.left = @ \ {v}]) PROVE AuthInv'
    <2>1. PICK q : q = [areq EXCEPT !.left = @ \ {v}]
      BY Zenon
    <2>2. /\ DOMAIN q = AuthFields /\ q.stage = "sessions" /\ q.grant = areq.grant /\ q.left = areq.left \ {v}
          /\ q.agent = areq.agent /\ q.first = areq.first
      BY <1>1, <2>1, Zenon DEF AuthFields, NoRequest
    <2>3. /\ "sessions" # "requirements" /\ "sessions" \notin {"decide", "issue", "credential"} /\ "sessions" # "done"
      BY Zenon
    <2>4. UsableIn(areq.grant.services \ (areq.left \ {v}))
      BY <1>1, <1>4, SessionFacts, Zenon DEF UsableIn
    <2>5. AuthGood(q)
      BY <1>1, <2>2, <2>3, <2>4, Zenon DEF AuthGood, Consented
    <2> QED BY <1>1, <1>4, <2>1, <2>5, AsksOK, Zenon
  <1> QED BY <1>2, <1>3, <1>4, Zenon DEF CheckSession

LEMMA CheckRequirementOK ==
  ASSUME AuthInv, CheckRequirement
  PROVE  AuthInv'
  <1>1. /\ areq.stage = "requirements" /\ areq.stage # "none" /\ AuthGood(areq) /\ DOMAIN areq = AuthFields
        /\ areq.agent = areq.first /\ areq.left \subseteq AuthServices /\ Consented(areq)
        /\ UsableIn(areq.grant.services) /\ ScopedIn(areq.first.mandatory \ areq.left)
    BY Zenon DEF CheckRequirement, AuthInv, AuthGood
  <1>2. CASE AskConsent \/ Asks(Answer("client", "server_error"))
    BY <1>1, <1>2, AskConsentOK, Zenon
  <1>3. CASE areq.left = {} /\ Asks([areq EXCEPT !.stage = "decide"])
    <2>1. PICK q : q = [areq EXCEPT !.stage = "decide"]
      BY Zenon
    <2>2. /\ DOMAIN q = AuthFields /\ q.stage = "decide" /\ q.grant = areq.grant
          /\ q.agent = areq.agent /\ q.first = areq.first
      BY <1>1, <2>1, Zenon DEF AuthFields, NoRequest
    <2>3. "decide" \notin {"grant", "sessions"} /\ "decide" # "sessions" /\ "decide" # "requirements" /\ "decide" # "done"
      BY Zenon
    <2>4. AuthGood(q)
      BY <1>1, <1>3, <2>2, <2>3, Zenon DEF AuthGood, Entitled, Consented, UsableIn, ScopedIn
    <2> QED BY <1>1, <1>3, <2>1, <2>4, AsksOK, Zenon
  <1>4. ASSUME NEW v \in areq.left, MeetsRequirement(v), Asks([areq EXCEPT !.left = @ \ {v}]) PROVE AuthInv'
    <2>1. PICK q : q = [areq EXCEPT !.left = @ \ {v}]
      BY Zenon
    <2>2. /\ DOMAIN q = AuthFields /\ q.stage = "requirements" /\ q.grant = areq.grant /\ q.left = areq.left \ {v}
          /\ q.agent = areq.agent /\ q.first = areq.first
      BY <1>1, <2>1, Zenon DEF AuthFields, NoRequest
    <2>3. /\ "requirements" \notin {"grant", "sessions"} /\ "requirements" # "sessions"
          /\ "requirements" \notin {"decide", "issue", "credential"} /\ "requirements" # "done"
      BY Zenon
    <2>4. ScopedIn(areq.first.mandatory \ (areq.left \ {v}))
      BY <1>1, <1>4, SessionFacts, Zenon DEF ScopedIn
    <2>5. AuthGood(q)
      BY <1>1, <2>2, <2>3, <2>4, Zenon DEF AuthGood, Consented
    <2> QED BY <1>1, <1>4, <2>1, <2>5, AsksOK, Zenon
  <1> QED BY <1>2, <1>3, <1>4, Zenon DEF CheckRequirement

(* An entitled request may go on to any answer. *)
LEMMA EntitledOK ==
  ASSUME AuthInv, areq.stage \in {"decide", "issue", "credential"}, NEW q, Asks(q), DOMAIN q = AuthFields,
         q.stage \in {"issue", "credential", "done"}, q.grant = areq.grant, q.first = areq.first
  PROVE  AuthInv'
  <1>1. Entitled(areq) /\ areq.stage # "none"
    BY Zenon DEF AuthInv, AuthGood
  <1>2. /\ q.stage \notin {"grant", "sessions", "requirements", "decide"} /\ q.stage \notin {"grant", "sessions"}
        /\ q.stage # "sessions" /\ q.stage # "requirements"
    BY Zenon
  <1>3. Entitled(q)
    BY <1>1, Zenon DEF Entitled, Consented
  <1> QED BY <1>1, <1>2, <1>3, AsksOK, Zenon DEF AuthGood

LEMMA AnswerFields ==
  ASSUME AuthInv, NEW to, NEW reason, NEW q, q = Answer(to, reason)
  PROVE  DOMAIN q = AuthFields /\ q.stage = "done" /\ q.grant = areq.grant /\ q.first = areq.first
  <1>1. DOMAIN areq = AuthFields
    BY Zenon DEF AuthInv, AuthGood
  <1> QED BY <1>1, Zenon DEF Answer, AuthFields, NoRequest

LEMMA ProceedOK ==
  ASSUME AuthInv, Proceed
  PROVE  AuthInv'
  <1>1. DOMAIN areq = AuthFields /\ areq.stage \in {"decide", "issue", "credential"} /\ areq.stage # "none"
    BY Zenon DEF AuthInv, AuthGood, Proceed
  <1>2. PICK q : /\ Asks(q)
                 /\ (\E to, reason : q = Answer(to, reason)) \/ q = [areq EXCEPT !.stage = "issue"]
    BY Zenon DEF Proceed
  <1>3. CASE \E to, reason : q = Answer(to, reason)
    BY <1>1, <1>2, <1>3, AnswerFields, EntitledOK, Zenon
  <1>4. CASE q = [areq EXCEPT !.stage = "issue"]
    <2>1. DOMAIN q = AuthFields /\ q.stage = "issue" /\ q.grant = areq.grant /\ q.first = areq.first
      BY <1>1, <1>4, Zenon DEF AuthFields, NoRequest
    <2> QED BY <1>1, <1>2, <2>1, EntitledOK, Zenon
  <1> QED BY <1>2, <1>3, <1>4, Zenon

LEMMA IssueResolvesOK ==
  ASSUME AuthInv, IssueResolves
  PROVE  AuthInv'
  <1>1. DOMAIN areq = AuthFields /\ areq.stage \in {"decide", "issue", "credential"}
    BY Zenon DEF AuthInv, AuthGood, IssueResolves
  <1>2. PICK q, r : Asks(q) /\ q = [areq EXCEPT !.stage = "credential", !.agent = r.agent, !.meta = r.meta, !.code = r.err]
    BY Zenon DEF IssueResolves
  <1>3. DOMAIN q = AuthFields /\ q.stage = "credential" /\ q.grant = areq.grant /\ q.first = areq.first
    BY <1>1, <1>2, Zenon DEF AuthFields, NoRequest
  <1> QED BY <1>1, <1>2, <1>3, EntitledOK, Zenon

LEMMA HandleAuthorizeOK ==
  ASSUME AuthInv, HandleAuthorize
  PROVE  AuthInv'
  <1>1. areq.stage \in {"decide", "issue", "credential"}
    BY Zenon DEF HandleAuthorize
  <1>2. PICK to, reason : Asks(Answer(to, reason))
    BY Zenon DEF HandleAuthorize, IssueFails
  <1>3. PICK q : q = Answer(to, reason)
    BY Zenon
  <1> QED BY <1>1, <1>2, <1>3, AnswerFields, EntitledOK, Zenon

LEMMA AuthAroundOK ==
  ASSUME AuthInv, AuthAround
  PROVE  AuthInv'
  <1>1. UNCHANGED areq
    BY Zenon DEF AuthAround, GrantIsChanged, SessionIsChanged
  <1>2. held \subseteq held' /\ (Facts(userGrant', userSession') \subseteq held' \/ UNCHANGED <<userGrant, userSession>>)
    BY Zenon DEF AuthAround, GrantIsChanged, SessionIsChanged
  <1>3. AuthGood(areq)'
    <2>1. PICK q : q = areq /\ AuthGood(q)
      BY Zenon DEF AuthInv
    <2>2. AuthGood(q)'
      BY <1>2, <2>1, EntitlementsStay, Zenon
    <2> QED BY <1>1, <2>1, <2>2, Zenon DEF AuthGood, Entitled, Consented, UsableIn, ScopedIn, AuthFields
  <1>4. areq'.stage # "none" => (Facts(userGrant, userSession))' \subseteq held'
    <2>1. CASE Facts(userGrant', userSession') \subseteq held'
      BY <2>1, Zenon DEF Facts
    <2>2. CASE UNCHANGED <<userGrant, userSession>>
      <3>1. UNCHANGED userGrant /\ UNCHANGED userSession
        BY <2>2, Zenon
      <3> QED BY <1>1, <1>2, <3>1, Zenon DEF AuthInv, Facts
    <2> QED BY <1>2, <2>1, <2>2, Zenon
  <1>5. userSession' \in [AuthServices -> SessionStates]
    BY Zenon DEF AuthInv, AuthAround, GrantIsChanged, SessionIsChanged
  <1>6. agentRow' # NoRecord => agentRow'.mandatory \subseteq AuthServices
    <2>1. agentRow' = agentRow \/ agentRow' \in AgentShapes \union {NoRecord}
      BY Zenon DEF AuthAround, GrantIsChanged, SessionIsChanged, AgentIsChanged, CredentialIsChanged, DocumentIsChanged
    <2> QED BY <2>1, ShapesOfServices, Zenon DEF OfServices, AuthInv
  <1>7. userGrant' # NoRecord => userGrant'.services \subseteq AuthServices
    <2>1. userGrant' = userGrant \/ userGrant' \in GrantShapes \union {NoRecord}
      BY Zenon DEF AuthAround, GrantIsChanged, SessionIsChanged
    <2> QED BY <2>1, ShapesOfServices, Zenon DEF OfServices, AuthInv
  <1> QED BY <1>3, <1>4, <1>5, <1>6, <1>7, Zenon DEF AuthInv

(* A code, or a redirect to the upstream server, means that the user's     *)
(* grant was active and within what the agent declares, its services'      *)
(* sessions usable and the mandatory ones fully scoped, each at some       *)
(* moment of the request, however all of it changes meanwhile.             *)
THEOREM ProceedsOnlyWhenEntitled ==
  ASSUME NEW CONSTANT requests, NEW CONSTANT config, NEW CONSTANT row, NEW CONSTANT secret, NEW CONSTANT doc,
         NEW CONSTANT bounds, NEW CONSTANT given, NEW CONSTANT sessions \in [AuthServices -> SessionStates],
         OfServices({row}, {given})
  PROVE  AuthSpec(requests, config, row, secret, doc, bounds, given, sessions) => []ProceedsWhenEntitled
  <1>1. ASSUME ClientInit(config, row, secret, doc, bounds), AuthInit(given, sessions) PROVE AuthInv
    <2>1. areq = NoRequest /\ agentRow = row /\ userGrant = given /\ userSession = sessions
      BY <1>1, Zenon DEF ClientInit, AuthInit
    <2>2. NoRequest.stage = "none"
      BY Zenon DEF NoRequest
    <2>3. AuthGood(NoRequest)
      BY Zenon DEF AuthGood, AuthFields, NoRequest
    <2> QED BY <2>1, <2>2, <2>3, Zenon DEF AuthInv, OfServices
  <1>2. ASSUME AuthInv, [AuthCalls(requests)]_authVars PROVE AuthInv'
    <2>1. CASE UNCHANGED authVars
      <3>1. UNCHANGED agentRow /\ UNCHANGED userGrant /\ UNCHANGED userSession /\ UNCHANGED held /\ UNCHANGED areq
        BY <2>1, Zenon DEF authVars, clientVars
      <3>2. AuthGood(areq)'
        BY <1>2, <3>1, Zenon DEF AuthInv, AuthGood, Entitled, Consented, UsableIn, ScopedIn, AuthFields
      <3> QED BY <1>2, <3>1, <3>2, Zenon DEF AuthInv, Facts
    <2> QED BY <1>2, <2>1, AuthorizeOK, CheckClientOK, CheckGrantOK, CheckSessionOK, CheckRequirementOK, ProceedOK,
               IssueResolvesOK, HandleAuthorizeOK, AuthAroundOK, Zenon DEF AuthCalls, AuthStep
  <1>3. AuthInv => ProceedsWhenEntitled
    BY Zenon DEF AuthInv, AuthGood, Entitled, Consented, UsableIn, ScopedIn, ProceedsWhenEntitled, Answered
  <1> QED BY <1>1, <1>2, <1>3, PTL DEF AuthSpec

(***************************************************************************)
(* The token endpoint.  A bound chain is a CIMD client's; a rotation       *)
(* reaches the minting only as MayMint allows, and the row it rotates is   *)
(* the one it was checked against.                                         *)
(***************************************************************************)
TokenFields == DOMAIN NoTokenCall
TokenShape(t) == DOMAIN t = TokenFields
BoundRow == wasBound => refreshRow.bound /\ refreshRow.client = "url"
(* A request at the minting of a rotation has proved itself, is no CIMD client's, or needs not. *)
MayMint(t) ==
  \/ t.verified
  \/ t.meta = NoRecord /\ t.form # "url"
  \/ /\ t.meta # NoRecord => t.meta.auth # "private_key_jwt"
     /\ ~(refreshRow.client = t.form /\ refreshRow.bound)
(* What a token request has established at its stage.                      *)
TokenGood(t) ==
  /\ TokenShape(t)
  /\ t.meta # NoRecord => t.form = "url"
  /\ t.stage = "credential" => t.code \in {"", "server_error", "invalid_client"}
  /\ t.stage = "credential" /\ t.code = "" /\ t.form = "url" => t.meta # NoRecord
  /\ t.stage \in {"secret", "compare"} => t.meta = NoRecord /\ t.form # "url"
  /\ t.stage = "mint" /\ t.grant = "refresh_token" => MayMint(t)
  /\ t.stage = "done" /\ t.from = "local" /\ t.grant = "refresh_token" /\ wasBound => t.verified
TokenInv == BoundRow /\ TokenGood(tcall)

(* A step of the call alone. *)
LEMMA TokenMoves ==
  ASSUME TokenInv, NEW t, Moves(t), TokenGood(t)
  PROVE  TokenInv'
  <1>1. tcall' = t /\ UNCHANGED refreshRow /\ UNCHANGED wasBound
    BY Zenon DEF Moves
  <1> QED BY <1>1, Zenon DEF TokenInv, BoundRow, TokenGood, MayMint, TokenShape, TokenFields

LEMMA EndedGood ==
  ASSUME NEW t, TokenGood(t), NEW from, from # "local", NEW reason
  PROVE  TokenGood([t EXCEPT !.stage = "done", !.from = from, !.code = reason])
  BY Zenon DEF TokenGood, TokenShape, TokenFields, NoTokenCall

(* A request that ends without a token of the broker. *)
LEMMA TokenEndsOK ==
  ASSUME TokenInv, NEW from, from # "local", NEW reason, Moves(Ends(from, reason))
  PROVE  TokenInv'
  <1>1. TokenGood(tcall)
    BY Zenon DEF TokenInv
  <1> QED BY <1>1, EndedGood, TokenMoves, Zenon DEF Ends

LEMMA TokenFailsOK ==
  ASSUME TokenInv, NEW reason, Moves(Fails(reason))
  PROVE  TokenInv'
  <1>1. "error" # "local"
    BY Zenon
  <1> QED BY <1>1, TokenEndsOK, Zenon DEF Fails

LEMMA TokenRequestOK ==
  ASSUME TokenInv, NEW flaw, NEW form, NEW given, NEW secret, NEW assertion, NEW header,
         TokenRequest(flaw, form, given, secret, assertion, header)
  PROVE  TokenInv'
  <1> DEFINE q == [NoTokenCall EXCEPT !.stage = "resolve", !.form = form, !.grant = given,
                                    !.secret = secret, !.assertion = assertion, !.header = header]
             e(from, reason) == [q EXCEPT !.stage = "done", !.from = from, !.code = reason]
  <1>1. UNCHANGED refreshRow /\ UNCHANGED wasBound
    BY Zenon DEF TokenRequest
  <1>2. tcall' = q \/ \E from \in {"exchange", "error"} : \E reason : tcall' = e(from, reason)
    BY Zenon DEF TokenRequest
  <1>3. TokenGood(q)
    BY Zenon DEF TokenGood, TokenShape, TokenFields, NoTokenCall
  <1>4. \A from \in {"exchange", "error"} : from # "local"
    BY Zenon
  <1> HIDE DEF q
  <1>5. \A from \in {"exchange", "error"} : \A reason : TokenGood(e(from, reason))
    BY <1>3, <1>4, EndedGood, Zenon
  <1> HIDE DEF e
  <1>6. PICK t : t = tcall' /\ TokenGood(t)
    BY <1>2, <1>3, <1>5, Zenon
  <1> QED BY <1>1, <1>6, Zenon DEF TokenInv, BoundRow, TokenGood, MayMint, TokenShape, TokenFields

LEMMA ResolveForTokenGrantOK ==
  ASSUME TokenInv, ResolveForTokenGrant
  PROVE  TokenInv'
  <1>1. TokenGood(tcall) /\ tcall.stage = "resolve"
    BY Zenon DEF TokenInv, ResolveForTokenGrant
  <1>2. \A a, s : s \in {"proxy", "local"} => TokenGood([tcall EXCEPT !.agent = a, !.stage = s])
    BY <1>1, Zenon DEF TokenGood, TokenShape, TokenFields, NoTokenCall
  <1>3. \/ \E reason : Moves(Fails(reason))
        \/ \E a, s : s \in {"proxy", "local"} /\ Moves([tcall EXCEPT !.agent = a, !.stage = s])
    BY Zenon DEF ResolveForTokenGrant
  <1> QED BY <1>2, <1>3, TokenFailsOK, TokenMoves, Zenon

LEMMA ProxyGrantOK ==
  ASSUME TokenInv, ProxyGrant
  PROVE  TokenInv'
  <1>1. \/ \E reason : Moves(Fails(reason))
        \/ \E reason : Moves(Ends("upstream", reason))
    BY Zenon DEF ProxyGrant, CompleteProxy
  <1>2. "upstream" # "local"
    BY Zenon
  <1> QED BY <1>1, <1>2, TokenFailsOK, TokenEndsOK, Zenon

LEMMA DispatchLocalGrantOK ==
  ASSUME TokenInv, DispatchLocalGrant
  PROVE  TokenInv'
  <1>1. TokenGood(tcall)
    BY Zenon DEF TokenInv
  <1>2. TokenGood([tcall EXCEPT !.stage = "client"])
    BY <1>1, Zenon DEF TokenGood, TokenShape, TokenFields, NoTokenCall
  <1> QED BY <1>2, TokenFailsOK, TokenMoves, Zenon DEF DispatchLocalGrant

LEMMA ProviderResolvesOK ==
  ASSUME TokenInv, ProviderResolves
  PROVE  TokenInv'
  <1>1. TokenGood(tcall)
    BY Zenon DEF TokenInv
  <1>2. PICK r \in ResolveClient(tcall.form) :
          Moves([tcall EXCEPT !.stage = "credential", !.agent = r.agent, !.meta = r.meta, !.code = r.err])
    BY Zenon DEF ProviderResolves
  <1>3. PICK e, a, d : e = r.err /\ a = r.agent /\ d = r.meta
    BY Zenon
  <1>4. /\ e \in {"", "server_error", "invalid_client"} /\ (d # NoRecord => tcall.form = "url")
        /\ e = "" /\ tcall.form = "url" => d # NoRecord
    BY <1>2, <1>3, ResolveAnswers, Zenon
  <1>5. TokenGood([tcall EXCEPT !.stage = "credential", !.agent = a, !.meta = d, !.code = e])
    BY <1>1, <1>4, Zenon DEF TokenGood, TokenShape, TokenFields, NoTokenCall
  <1> QED BY <1>2, <1>3, <1>5, TokenMoves, Zenon

LEMMA ProviderClientOK ==
  ASSUME TokenInv, ProviderClient
  PROVE  TokenInv'
  <1>1. /\ TokenGood(tcall) /\ tcall.stage = "credential" /\ TokenShape(tcall)
        /\ tcall.code \in {"", "server_error", "invalid_client"}
        /\ tcall.meta # NoRecord => tcall.form = "url"
        /\ tcall.code = "" /\ tcall.form = "url" => tcall.meta # NoRecord
    BY Zenon DEF TokenInv, TokenGood, ProviderClient
  <1>2. PICK secret, r : /\ r = [err |-> tcall.code, agent |-> tcall.agent, meta |-> tcall.meta]
                         /\ LET kind == ClientCheck(tcall.grant, GetClient(r, secret)) IN
                            Moves(CASE kind = "unavailable" -> Fails("server_error")
                                    [] kind = "not_found" -> Fails("invalid_client")
                                    [] kind = "confidential" -> [tcall EXCEPT !.stage = "secret", !.kind = kind, !.code = ""]
                                    [] kind = "public" -> [tcall EXCEPT !.stage = "assertion", !.kind = kind, !.code = ""])
    BY Zenon DEF ProviderClient
  <1>3. r.err = tcall.code /\ r.meta = tcall.meta
    BY <1>2, Zenon
  <1>4. PICK g, k : g = GetClient(r, secret) /\ k = ClientCheck(tcall.grant, g)
    BY Zenon
  <1>5. /\ g \in {"unavailable", "not_found", "public", "confidential"}
        /\ g = "confidential" => r.err = "" /\ r.meta = NoRecord
    BY <1>1, <1>3, <1>4, Zenon DEF GetClient
  <1>6. k \in {"unavailable", "not_found", "public", "confidential"} /\ (k = "confidential" => g = "confidential")
    BY <1>4, <1>5, Zenon DEF ClientCheck
  <1>7. CASE k = "unavailable" \/ k = "not_found"
    <2>1. \E reason : Moves(Fails(reason))
      BY <1>2, <1>4, <1>7, Zenon
    <2> QED BY <2>1, TokenFailsOK, Zenon
  <1>8. CASE k = "confidential"
    <2>1. Moves([tcall EXCEPT !.stage = "secret", !.kind = k, !.code = ""])
      BY <1>2, <1>4, <1>8, Zenon
    <2>2. tcall.meta = NoRecord /\ tcall.form # "url"
      BY <1>1, <1>3, <1>5, <1>6, <1>8, Zenon
    <2>3. TokenGood([tcall EXCEPT !.stage = "secret", !.kind = k, !.code = ""])
      BY <1>1, <2>2, Zenon DEF TokenGood, TokenShape, TokenFields, NoTokenCall
    <2> QED BY <2>1, <2>3, TokenMoves, Zenon
  <1>9. CASE k = "public"
    <2>1. Moves([tcall EXCEPT !.stage = "assertion", !.kind = k, !.code = ""])
      BY <1>2, <1>4, <1>9, Zenon
    <2>2. TokenGood([tcall EXCEPT !.stage = "assertion", !.kind = k, !.code = ""])
      BY <1>1, Zenon DEF TokenGood, TokenShape, TokenFields, NoTokenCall
    <2> QED BY <2>1, <2>2, TokenMoves, Zenon
  <1> QED BY <1>6, <1>7, <1>8, <1>9, Zenon

LEMMA AuthenticationOK ==
  ASSUME TokenInv, AuthenticateReads \/ Authenticate
  PROVE  TokenInv'
  <1>1. TokenGood(tcall) /\ tcall.stage \in {"secret", "compare"} /\ tcall.meta = NoRecord /\ tcall.form # "url"
    BY Zenon DEF TokenInv, TokenGood, AuthenticateReads, Authenticate
  <1>2. TokenGood([tcall EXCEPT !.stage = "compare", !.stored = credential])
    BY <1>1, Zenon DEF TokenGood, TokenShape, TokenFields, NoTokenCall
  <1>3. \A a : TokenGood([tcall EXCEPT !.stage = "mint", !.agent = a])
    BY <1>1, Zenon DEF TokenGood, MayMint, TokenShape, TokenFields, NoTokenCall
  <1>4. \/ \E reason : Moves(Fails(reason))
        \/ Moves([tcall EXCEPT !.stage = "compare", !.stored = credential])
        \/ \E a : Moves([tcall EXCEPT !.stage = "mint", !.agent = a])
    BY Zenon DEF AuthenticateReads, Authenticate
  <1> QED BY <1>2, <1>3, <1>4, TokenFailsOK, TokenMoves, Zenon

LEMMA authenticatePublicClientOK ==
  ASSUME TokenInv, authenticatePublicClient
  PROVE  TokenInv'
  <1>1. TokenGood(tcall) /\ TokenShape(tcall) /\ tcall.stage = "assertion"
    BY Zenon DEF TokenInv, TokenGood, authenticatePublicClient
  <1>2. PICK required : /\ required \in BOOLEAN
                        /\ tcall.grant = "refresh_token" /\ ~required => ~refreshRequiresPrivateKeyJWT(refreshRow)
                        /\ \/ \E reason : Moves(Fails(reason))
                           \/ required /\ Moves([tcall EXCEPT !.stage = "mint", !.verified = TRUE])
                           \/ ~required /\ Moves([tcall EXCEPT !.stage = "mint"])
    BY Zenon DEF authenticatePublicClient
  <1>3. TokenGood([tcall EXCEPT !.stage = "mint", !.verified = TRUE])
    BY <1>1, Zenon DEF TokenGood, MayMint, TokenShape, TokenFields, NoTokenCall
  <1>4. ASSUME ~required PROVE TokenGood([tcall EXCEPT !.stage = "mint"])
    <2>1. tcall.grant = "refresh_token" => MayMint(tcall)
      BY <1>2, <1>4, Zenon DEF refreshRequiresPrivateKeyJWT, requiresPrivateKeyJWT, MayMint
    <2>2. PICK t : t = [tcall EXCEPT !.stage = "mint"]
      BY Zenon
    <2>3. /\ TokenShape(t) /\ t.stage = "mint" /\ t.grant = tcall.grant /\ t.verified = tcall.verified
          /\ t.meta = tcall.meta /\ t.form = tcall.form
      BY <1>1, <2>2, Zenon DEF TokenShape, TokenFields, NoTokenCall
    <2>4. "mint" \notin {"secret", "compare"} /\ "mint" # "credential" /\ "mint" # "done"
      BY Zenon
    <2> QED BY <1>1, <2>1, <2>2, <2>3, <2>4, Zenon DEF TokenGood, MayMint
  <1> QED BY <1>2, <1>3, <1>4, TokenFailsOK, TokenMoves, Zenon

LEMMA MintTokenOK ==
  ASSUME TokenInv, MintToken
  PROVE  TokenInv'
  <1>1. /\ TokenGood(tcall) /\ TokenShape(tcall) /\ tcall.stage = "mint" /\ BoundRow
        /\ tcall.grant = "refresh_token" => MayMint(tcall)
        /\ tcall.meta # NoRecord => tcall.form = "url"
    BY Zenon DEF TokenInv, TokenGood, MintToken
  <1>2. requiresPrivateKeyJWT => tcall.form = "url"
    BY <1>1, Zenon DEF requiresPrivateKeyJWT
  <1>3. PICK t : t = Ends("local", "token")
    BY Zenon
  <1>4. /\ TokenShape(t) /\ t.stage = "done" /\ t.from = "local" /\ t.grant = tcall.grant
        /\ t.verified = tcall.verified /\ t.meta = tcall.meta /\ t.form = tcall.form
    BY <1>1, <1>3, Zenon DEF Ends, TokenShape, TokenFields, NoTokenCall
  <1>5. "done" \notin {"secret", "compare"} /\ "done" # "credential" /\ "done" # "mint"
    BY Zenon
  <1>6. "client_credentials" # "refresh_token" /\ "authorization_code" # "refresh_token"
    BY Zenon
  <1>7. ASSUME tcall.grant = "client_credentials", Moves(t) PROVE TokenInv'
    <2>1. TokenGood(t)
      BY <1>1, <1>4, <1>5, <1>6, <1>7, Zenon DEF TokenGood
    <2> QED BY <1>7, <2>1, TokenMoves, Zenon
  (* A new or rotated refresh token. *)
  <1>8. ASSUME NEW b, refreshRow' = [client |-> tcall.form, bound |-> b], tcall' = t,
               wasBound' => b /\ tcall.form = "url",
               tcall.grant = "refresh_token" /\ wasBound' => tcall.verified
        PROVE  TokenInv'
    <2>1. refreshRow'.client = tcall.form /\ refreshRow'.bound = b
      BY <1>8, Zenon
    <2>2. BoundRow'
      BY <1>8, <2>1, Zenon DEF BoundRow
    <2>3. TokenGood(tcall)'
      BY <1>1, <1>4, <1>5, <1>8, Zenon DEF TokenGood, TokenShape, TokenFields
    <2> QED BY <2>2, <2>3, Zenon DEF TokenInv
  <1>9. CASE /\ tcall.grant = "authorization_code" /\ tcall' = t
             /\ refreshRow' = [client |-> tcall.form, bound |-> SuccessorBinding(NoRecord)]
             /\ wasBound' = requiresPrivateKeyJWT
    BY <1>2, <1>6, <1>8, <1>9, Zenon DEF SuccessorBinding
  <1>10. CASE /\ tcall.grant = "refresh_token" /\ refreshRow # NoRecord /\ refreshRow.client = tcall.form /\ tcall' = t
              /\ refreshRow' = [client |-> tcall.form, bound |-> SuccessorBinding(refreshRow)]
              /\ wasBound' = (wasBound \/ requiresPrivateKeyJWT)
    <2>1. wasBound => refreshRow.bound /\ tcall.form = "url"
      BY <1>1, <1>10, Zenon DEF BoundRow
    <2>2. wasBound \/ requiresPrivateKeyJWT => tcall.verified
      BY <1>1, <1>10, <2>1, Zenon DEF MayMint, requiresPrivateKeyJWT
    <2> QED BY <1>2, <1>8, <1>10, <2>1, <2>2, Zenon DEF SuccessorBinding
  <1> QED BY <1>3, <1>7, <1>9, <1>10, TokenFailsOK, Zenon DEF MintToken

LEMMA NoCallGood == TokenGood(NoTokenCall)
  BY Zenon DEF TokenGood, TokenShape, TokenFields, NoTokenCall

LEMMA TokenNextOK ==
  ASSUME TokenInv, NEW requests, [TokenCalls(requests)]_tokenVars
  PROVE  TokenInv'
  <1>1. CASE TokenCallReturns
    <2>1. tcall' = NoTokenCall /\ UNCHANGED refreshRow /\ UNCHANGED wasBound /\ BoundRow
      BY <1>1, Zenon DEF TokenCallReturns, TokenInv
    <2> QED BY <2>1, NoCallGood, Zenon DEF TokenInv, BoundRow, TokenGood, MayMint, TokenShape, TokenFields
  <1>2. CASE TokenAround \/ UNCHANGED tokenVars
    <2>1. UNCHANGED tcall /\ UNCHANGED refreshRow /\ UNCHANGED wasBound
      BY <1>2, Zenon DEF TokenAround, tokenVars
    <2> QED BY <2>1, Zenon DEF TokenInv, BoundRow, TokenGood, MayMint, TokenShape, TokenFields
  <1> QED BY <1>1, <1>2, TokenRequestOK, ResolveForTokenGrantOK, ProxyGrantOK, DispatchLocalGrantOK, ProviderResolvesOK,
             ProviderClientOK, AuthenticationOK, authenticatePublicClientOK, MintTokenOK, Zenon DEF TokenCalls, TokenStep

(* Once a refresh token chain was begun or continued with private_key_jwt, *)
(* every later rotation has a verified assertion, for any documents,       *)
(* agents and sequence of requests (refreshRequiresPrivateKeyJWT,          *)
(* CreateRefreshTokenSession).                                             *)
THEOREM BoundChainsStayBound ==
  ASSUME NEW CONSTANT requests, NEW CONSTANT config, NEW CONSTANT row, NEW CONSTANT secret, NEW CONSTANT doc,
         NEW CONSTANT bounds
  PROVE  TokenSpec(requests, config, row, secret, doc, bounds) => []BoundChainStaysBound
  <1>1. TokenInit => TokenInv
    BY NoCallGood, Zenon DEF TokenInit, TokenInv, BoundRow
  <1>2. TokenInv /\ [TokenCalls(requests)]_tokenVars => TokenInv'
    BY TokenNextOK, Zenon
  <1>3. TokenInv => BoundChainStaysBound
    BY Zenon DEF TokenInv, BoundRow, TokenGood, BoundChainStaysBound, Minted
  <1> QED BY <1>1, <1>2, <1>3, PTL DEF TokenSpec
=============================================================================
