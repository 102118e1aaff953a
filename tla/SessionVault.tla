---------------------------- MODULE SessionVault ----------------------------
(***************************************************************************)
(* The vault of third-party OAuth2 sessions: one row per (principal,       *)
(* service) key, kept by the user-session repository and changed by the    *)
(* session service of any number of broker replicas.                       *)
(*                                                                         *)
(* A process is one goroutine executing one operation of                   *)
(* OAuth2SessionService: a connect or reconnect callback, a termination,   *)
(* or a refresh with one of its triggers (on demand, forced, background,   *)
(* sweep).  Everything a process reads before it owns the row lock may be  *)
(* stale when it gets the lock.  The upstream provider is external: it     *)
(* mints a grant per authorization code and may rotate the grant's refresh *)
(* token at every refresh, after which the older one is dead.              *)
(*                                                                         *)
(* A token is its grant and the serial number of the provider's answer     *)
(* that carried it.  Ciphertexts, scopes and token types are left out.     *)
(***************************************************************************)
EXTENDS Naturals, FiniteSets

CONSTANTS
  Keys,                \* (principal, service) pairs
  Procs,               \* goroutines, over all replicas
  Replicas,            \* broker instances, each the set of its goroutines
  Clients,             \* upstream client identities a service can present
  Nil,                 \* absent row, token, time, claim or process
  LockedSessionSlots,  \* capacity of the adapter's lockedSessionSlots
  MaxRetries,          \* attempts of RefreshAccessToken
  Lookahead,           \* RefreshLookahead, in ticks
  Lifetimes,           \* expires_in values the provider may answer, Nil for none
  MaxTime,             \* bound: ticks of the clock
  MaxGrants,           \* bound: authorization codes redeemed
  MaxServed,           \* bound: token answers per grant after the first
  MaxUUID              \* bound: session and callback identifiers drawn

ASSUME VaultAssumption ==
  /\ LockedSessionSlots \in Nat \ {0}
  /\ MaxRetries \in Nat \ {0}
  /\ Lookahead \in Nat
  /\ Lifetimes \subseteq Nat \cup {Nil}
  /\ Replicas \subseteq SUBSET Procs
  /\ MaxTime \in Nat /\ MaxGrants \in Nat /\ MaxServed \in Nat /\ MaxUUID \in Nat
  /\ Nil \notin Nat /\ Nil \notin Keys /\ Nil \notin Procs /\ Nil \notin Clients

VARIABLES
  row,        \* Keys -> Session or Nil: the user_sessions table
  holder,     \* Keys -> process holding the row lock, or Nil
  op,         \* Procs -> what the goroutine is doing
  claims,     \* sealed state tokens given to browsers (replayable)
  clientID,   \* Keys -> client identity the service presents at this time
  now,        \* wall clock
  nextUUID,   \* source of fresh session and callback identifiers
  nextGrant,  \* next grant the provider will mint
  served,     \* grant -> serial of the provider's latest answer
  live,       \* grant -> serial of the refresh token the provider accepts
  issuedTo,   \* grant -> client identity the provider issued it to
  revoked,    \* grants withdrawn at the provider
  orphans,    \* refresh requests whose sender stopped waiting
  lost,       \* history: grants with a rotation the broker never stored
  gone,       \* history: identifiers of terminated sessions
  applied     \* history: callbacks whose tokens were stored

provider == <<served, live, issuedTo, revoked, orphans>>
history == <<lost, gone, applied>>
vars == <<row, holder, op, claims, clientID, now, nextUUID,
          nextGrant, provider, history>>

Grants == 1..MaxGrants
Token == [grant : Grants, serial : Nat]
OrNil(S) == S \cup {Nil}

Session == [ID : Nat, CallbackID : Nat, UpstreamClientID : Clients,
            access : Token, refresh : OrNil(Token),
            expiresAt : OrNil(Nat), rejected : BOOLEAN]

Claims == [key : Keys, SessionID : OrNil(Nat), SessionCallbackID : OrNil(Nat),
           UpstreamClientID : Clients]

ASSUME NilAssumption == Nil \notin Session /\ Nil \notin Token /\ Nil \notin Claims

Triggers == {"on_demand", "forced", "background", "sweep"}
\* What the provider's answer to a refresh means to refreshOnce.
Answers == {"none", "rotated", "renewed", "invalid_grant", "transient", "failed"}

Op == [pc : {"idle", "slot", "lock", "held", "sent", "answered", "insert", "delete"},
       key : OrNil(Keys), trigger : Triggers \cup {"callback", "terminate"},
       due : OrNil(Nat), claim : OrNil(Claims), client : OrNil(Clients),
       access : OrNil(Token), refresh : OrNil(Token), expiresAt : OrNil(Nat),
       answer : Answers, attempt : Nat]

Start(k) == [pc |-> "idle", key |-> k, trigger |-> "on_demand", due |-> Nil,
            claim |-> Nil, client |-> Nil, access |-> Nil, refresh |-> Nil,
            expiresAt |-> Nil, answer |-> "none", attempt |-> 0]
Idle == Start(Nil)

(* ----------------------------- session rows ---------------------------- *)

RefreshRejected(s) == s.rejected
HasValidAccessToken(s) == s.expiresAt # Nil => now < s.expiresAt
AccessTokenExpiresBy(s, t) == s.expiresAt # Nil /\ s.expiresAt <= t
CanRefresh(s) == s.refresh # Nil /\ ~RefreshRejected(s)

Expiries == {IF d = Nil THEN Nil ELSE now + d : d \in Lifetimes}

(* ------------------------------ processes ------------------------------ *)

IsIdle(p) == op[p].pc = "idle"
At(p, label) == op[p].pc = label
\* The operation returns, whatever its result.
Return(p) == op' = [op EXCEPT ![p] = Idle]
Goto(p, label) == op' = [op EXCEPT ![p].pc = label]
Unlock(p) == holder' = [holder EXCEPT ![op[p].key] = IF @ = p THEN Nil ELSE @]

InSlot(p) == op[p].pc \in {"lock", "held", "sent", "answered"}

(* initiateOAuth2Flow: the state token records the row it started from. *)
InitiateOAuth2Flow(k) ==
  LET previous == row[k]
  IN  /\ claims' = claims \cup
           {[key |-> k,
             SessionID |-> IF previous = Nil THEN Nil ELSE previous.ID,
             SessionCallbackID |-> IF previous = Nil THEN Nil ELSE previous.CallbackID,
             UpstreamClientID |-> clientID[k]]}
      /\ UNCHANGED <<row, holder, op, clientID, now, nextUUID, nextGrant, provider, history>>

(* HandleCallback up to createSession: the code exchange presents the      *)
(* identity the state token was sealed with, and yields a fresh grant.     *)
HandleCallback(p, c) ==
  /\ IsIdle(p)
  /\ c \in claims
  /\ clientID[c.key] = c.UpstreamClientID
  /\ nextGrant <= MaxGrants
  /\ nextGrant' = nextGrant + 1
  /\ served' = [served EXCEPT ![nextGrant] = 0]
  /\ live' = [live EXCEPT ![nextGrant] = 0]
  /\ issuedTo' = [issuedTo EXCEPT ![nextGrant] = c.UpstreamClientID]
  /\ \E e \in Expiries, r \in {Nil, [grant |-> nextGrant, serial |-> 0]} :
       op' = [op EXCEPT ![p] = [Start(c.key) EXCEPT
                !.pc = "slot", !.trigger = "callback", !.claim = c,
                !.access = [grant |-> nextGrant, serial |-> 0],
                !.refresh = r, !.expiresAt = e]]
  /\ UNCHANGED <<row, holder, claims, clientID, now, nextUUID, revoked, orphans, history>>

(* Entering refreshLockedSession: the service entity is read before the    *)
(* lock, so the client identity it carries may be old when it is used.     *)
StartRefresh(p, k, trigger, due) ==
  /\ IsIdle(p)
  /\ op' = [op EXCEPT ![p] = [Start(k) EXCEPT
              !.pc = "slot", !.trigger = trigger, !.due = due, !.client = clientID[k]]]

(* GetValidAccessToken, the token expired: refresh on demand. *)
RefreshOnDemand(p, k) ==
  /\ row[k] # Nil
  /\ ~RefreshRejected(row[k])
  /\ ~HasValidAccessToken(row[k])
  /\ StartRefresh(p, k, "on_demand", Nil)
  /\ UNCHANGED <<row, holder, claims, clientID, now, nextUUID, nextGrant, provider, history>>

ForceRefreshSession(p, k) ==
  /\ row[k] # Nil
  /\ StartRefresh(p, k, "forced", Nil)
  /\ UNCHANGED <<row, holder, claims, clientID, now, nextUUID, nextGrant, provider, history>>

(* GetValidAccessToken, the token valid but near its end: it is returned,  *)
(* and the session is submitted to the background refresher.               *)
RefreshInBackground(p, k) ==
  /\ row[k] # Nil
  /\ HasValidAccessToken(row[k])
  /\ CanRefresh(row[k])
  /\ AccessTokenExpiresBy(row[k], now + Lookahead)
  /\ StartRefresh(p, k, "background", Nil)
  /\ UNCHANGED <<row, holder, claims, clientID, now, nextUUID, nextGrant, provider, history>>

(* A sweep lists an expiring row and keeps the threshold it listed with. *)
RefreshInSweep(p, k) ==
  /\ row[k] # Nil
  /\ ~RefreshRejected(row[k])
  /\ AccessTokenExpiresBy(row[k], now + Lookahead)
  /\ StartRefresh(p, k, "sweep", now + Lookahead)
  /\ UNCHANGED <<row, holder, claims, clientID, now, nextUUID, nextGrant, provider, history>>

(* TerminateSession finds the row first and deletes it in a later step. *)
TerminateSession(p, k) ==
  /\ IsIdle(p)
  /\ row[k] # Nil
  /\ op' = [op EXCEPT ![p] = [Start(k) EXCEPT !.pc = "delete", !.trigger = "terminate"]]
  /\ UNCHANGED <<row, holder, claims, clientID, now, nextUUID, nextGrant, provider, history>>

(* --------------------------- WithLockedSession ------------------------- *)

AcquireSlot(p) ==
  /\ At(p, "slot")
  /\ Cardinality({q \in Procs : InSlot(q)}) < LockedSessionSlots
  /\ Goto(p, "lock")
  /\ UNCHANGED <<row, holder, claims, clientID, now, nextUUID, nextGrant, provider, history>>

LockSession(p) ==
  /\ At(p, "lock")
  /\ row[op[p].key] # Nil
  /\ holder[op[p].key] = Nil
  /\ holder' = [holder EXCEPT ![op[p].key] = p]
  /\ Goto(p, "held")
  /\ UNCHANGED <<row, claims, clientID, now, nextUUID, nextGrant, provider, history>>

\* Mutant: a reconnect whose session is gone may create one.
MayCreate_Reconnect(o) == o.trigger = "callback"
\* Only a flow that started without a session goes on to CreateIfAbsent.
MayCreate(o) == o.trigger = "callback" /\ o.claim.SessionID = Nil

(* No row to lock: a refresh reports the session missing, and a callback   *)
(* that started from a session gives up with ErrSessionNotFound.           *)
LockMissing(p) ==
  /\ At(p, "lock")
  /\ row[op[p].key] = Nil
  /\ IF MayCreate(op[p]) THEN Goto(p, "insert") ELSE Return(p)
  /\ UNCHANGED <<row, holder, claims, clientID, now, nextUUID, nextGrant, provider, history>>

\* Mutant: any generation of the session is replaced.
StartedFrom_AnyGeneration(claim, s) == s.ID = claim.SessionID
StartedFrom(claim, s) ==
  s.ID = claim.SessionID /\ s.CallbackID = claim.SessionCallbackID

\* Mutant: a callback without a refresh token leaves the old one in place.
NewGeneration_KeepsRefresh(s, o) ==
  [s EXCEPT !.CallbackID = nextUUID, !.UpstreamClientID = o.claim.UpstreamClientID,
            !.access = o.access, !.refresh = IF o.refresh = Nil THEN @ ELSE o.refresh,
            !.expiresAt = o.expiresAt, !.rejected = FALSE]
(* A reconnect replaces both credentials and forgets a rejection. *)
NewGeneration(s, o) ==
  [s EXCEPT !.CallbackID = nextUUID, !.UpstreamClientID = o.claim.UpstreamClientID,
            !.access = o.access, !.refresh = o.refresh,
            !.expiresAt = o.expiresAt, !.rejected = FALSE]

NewSession(o) ==
  [ID |-> nextUUID, CallbackID |-> nextUUID,
   UpstreamClientID |-> o.claim.UpstreamClientID,
   access |-> o.access, refresh |-> o.refresh,
   expiresAt |-> o.expiresAt, rejected |-> FALSE]

\* Which session the flow was bound to, and which one it wrote.
Completion(claim, written) ==
  [key |-> claim.key, session |-> claim.SessionID, base |-> claim.SessionCallbackID,
   written |-> written, stored |-> nextUUID]

(* createSession under the lock: only the generation the flow started from *)
(* is replaced; the tokens of any other callback are dropped.              *)
StoreCallback(p) ==
  LET k == op[p].key
      current == row[k]
  IN  /\ At(p, "held")
      /\ op[p].trigger = "callback"
      /\ \/ /\ StartedFrom(op[p].claim, current)
            /\ nextUUID < MaxUUID
            /\ row' = [row EXCEPT ![k] = NewGeneration(current, op[p])]
            /\ nextUUID' = nextUUID + 1
            /\ applied' = applied \cup {Completion(op[p].claim, current.ID)}
         \/ /\ ~StartedFrom(op[p].claim, current)
            /\ UNCHANGED <<row, nextUUID, applied>>
      /\ Unlock(p)
      /\ Return(p)
      /\ UNCHANGED <<claims, clientID, now, nextGrant, provider, lost, gone>>

(* CreateIfAbsent: the unique key decides, the loser gets the winner's row. *)
CreateIfAbsent(p) ==
  LET k == op[p].key
  IN  /\ At(p, "insert")
      /\ \/ /\ row[k] = Nil
            /\ nextUUID < MaxUUID
            /\ row' = [row EXCEPT ![k] = NewSession(op[p])]
            /\ nextUUID' = nextUUID + 1
            /\ applied' = applied \cup {Completion(op[p].claim, nextUUID)}
         \/ /\ row[k] # Nil
            /\ UNCHANGED <<row, nextUUID, applied>>
      /\ Return(p)
      /\ UNCHANGED <<holder, claims, clientID, now, nextGrant, provider, lost, gone>>

(* DeleteByPrincipalAndService waits for the row lock like any writer. *)
DeleteSession(p) ==
  LET k == op[p].key
  IN  /\ At(p, "delete")
      /\ holder[k] = Nil
      /\ row' = [row EXCEPT ![k] = Nil]
      /\ gone' = IF row[k] = Nil THEN gone ELSE gone \cup {row[k].ID}
      /\ Return(p)
      /\ UNCHANGED <<holder, claims, clientID, now, nextUUID, nextGrant, provider, lost, applied>>

(* ------------------------- refreshLockedSession ------------------------ *)

DueBy(p) ==
  CASE op[p].trigger = "on_demand"  -> now
    [] op[p].trigger = "background" -> now + Lookahead
    [] op[p].trigger = "sweep"      -> op[p].due

IsDue(p, s) == op[p].trigger # "forced" => AccessTokenExpiresBy(s, DueBy(p))

(* selectCredentials: a stored secret comes with the service entity read   *)
(* before the lock, credential files are read now.                         *)
Presentable(p) == {op[p].client, clientID[op[p].key]}

\* Mutant: whatever client is configured presents the token.
SameIdentity_Unchecked(c, s) == TRUE
SameIdentity(c, s) == c = s.UpstreamClientID

WillRefresh(p, s) ==
  /\ ~RefreshRejected(s)
  /\ IsDue(p, s)
  /\ CanRefresh(s)

(* Rejected, not due, no refresh token or identity mismatch: the lock is   *)
(* released with the row as it was.                                        *)
SkipRefresh(p) ==
  /\ At(p, "held")
  /\ op[p].trigger \in Triggers
  /\ \/ ~WillRefresh(p, row[op[p].key])
     \/ \E c \in Presentable(p) : ~SameIdentity(c, row[op[p].key])
  /\ Unlock(p)
  /\ Return(p)
  /\ UNCHANGED <<row, claims, clientID, now, nextUUID, nextGrant, provider, history>>

SendRefresh(p) ==
  LET s == row[op[p].key]
  IN  /\ At(p, "held")
      /\ op[p].trigger \in Triggers
      /\ WillRefresh(p, s)
      /\ \E c \in Presentable(p) :
           /\ SameIdentity(c, s)
           /\ op' = [op EXCEPT ![p] = [@ EXCEPT !.pc = "sent", !.client = c,
                                                !.refresh = s.refresh, !.attempt = 1]]
      /\ UNCHANGED <<row, holder, claims, clientID, now, nextUUID, nextGrant, provider, history>>

(* ------------------------------ the provider --------------------------- *)

Accepts(t) == t.serial = live[t.grant] /\ t.grant \notin revoked

Answer(p, a) ==
  op' = [op EXCEPT ![p] = [@ EXCEPT !.pc = "answered", !.answer = a]]

(* The provider accepts the token and its answer arrives, with or without  *)
(* a new refresh token.                                                    *)
ProviderRenews(p) ==
  LET g == op[p].refresh.grant
      n == served[g] + 1
  IN  /\ At(p, "sent")
      /\ Accepts(op[p].refresh) /\ n <= MaxServed
      /\ \E a \in {"rotated", "renewed"}, e \in Expiries :
           /\ op' = [op EXCEPT ![p] = [@ EXCEPT !.pc = "answered", !.answer = a,
                       !.access = [grant |-> g, serial |-> n], !.expiresAt = e]]
           /\ live' = IF a = "rotated" THEN [live EXCEPT ![g] = n] ELSE live
      /\ served' = [served EXCEPT ![g] = n]
      /\ UNCHANGED <<row, holder, claims, clientID, now, nextUUID, nextGrant, issuedTo, revoked, orphans, history>>

(* It rotates the token but the answer is unreadable: truncated,           *)
(* malformed, or a server error after the fact.                            *)
ProviderAnswerLost(p) ==
  LET g == op[p].refresh.grant
      n == served[g] + 1
  IN  /\ At(p, "sent")
      /\ Accepts(op[p].refresh) /\ n <= MaxServed
      /\ \E a \in {"transient", "failed"} : Answer(p, a)
      /\ served' = [served EXCEPT ![g] = n]
      /\ live' = [live EXCEPT ![g] = n]
      /\ lost' = lost \cup {g}
      /\ UNCHANGED <<row, holder, claims, clientID, now, nextUUID, nextGrant, issuedTo, revoked, orphans, gone, applied>>

ProviderRefuses(p) ==
  /\ At(p, "sent")
  /\ ~Accepts(op[p].refresh)
  /\ Answer(p, "invalid_grant")
  /\ UNCHANGED <<row, holder, claims, clientID, now, nextUUID, nextGrant, provider, history>>

ProviderFails(p) ==
  /\ At(p, "sent")
  /\ \E a \in {"transient", "failed"} : Answer(p, a)
  /\ UNCHANGED <<row, holder, claims, clientID, now, nextUUID, nextGrant, provider, history>>

(* A request nobody waits for any more still reaches the provider. *)
ProviderServesOrphan(t) ==
  /\ t \in orphans
  /\ orphans' = orphans \ {t}
  /\ IF Accepts(t) /\ served[t.grant] < MaxServed
     THEN /\ served' = [served EXCEPT ![t.grant] = @ + 1]
          /\ live' = [live EXCEPT ![t.grant] = served[t.grant] + 1]
          /\ lost' = lost \cup {t.grant}
     ELSE UNCHANGED <<served, live, lost>>
  /\ UNCHANGED <<row, holder, op, claims, clientID, now, nextUUID, nextGrant, issuedTo, revoked, gone, applied>>

ProviderRevokes(g) ==
  /\ g < nextGrant
  /\ g \notin revoked
  /\ revoked' = revoked \cup {g}
  /\ UNCHANGED <<row, holder, op, claims, clientID, now, nextUUID, nextGrant, served, live, issuedTo, orphans, history>>

(* ---------------------- the rest of the locked refresh ----------------- *)

\* Mutant: attempts are not counted.
NextAttempt_Uncounted(o) == o.attempt
NextAttempt(o) == o.attempt + 1

(* RefreshAccessToken repeats a complete 429 or 5xx with the same token. *)
RetryRefresh(p) ==
  /\ At(p, "answered")
  /\ op[p].answer = "transient"
  /\ op[p].attempt < MaxRetries
  /\ op' = [op EXCEPT ![p] = [@ EXCEPT !.pc = "sent", !.answer = "none", !.attempt = NextAttempt(op[p])]]
  /\ UNCHANGED <<row, holder, claims, clientID, now, nextUUID, nextGrant, provider, history>>

\* Mutant: a rotated refresh token is not stored.
SetSessionTokens_DropsRotation(s, p) ==
  [s EXCEPT !.access = op[p].access, !.expiresAt = op[p].expiresAt]
(* setSessionTokens: the refresh token and the rejection mark change only  *)
(* when the answer carries a new refresh token.                            *)
SetSessionTokens(s, p) ==
  [s EXCEPT !.access = op[p].access,
            !.expiresAt = op[p].expiresAt,
            !.refresh = IF op[p].answer = "rotated" THEN op[p].access ELSE @,
            !.rejected = IF op[p].answer = "rotated" THEN FALSE ELSE @]

CommitRefresh(p) ==
  LET k == op[p].key
  IN  /\ At(p, "answered")
      /\ op[p].answer \in {"rotated", "renewed"}
      /\ row' = [row EXCEPT ![k] = SetSessionTokens(@, p)]
      /\ Unlock(p)
      /\ Return(p)
      /\ UNCHANGED <<claims, clientID, now, nextUUID, nextGrant, provider, history>>

\* Mutant: any definite error answer counts as a rejection of the token.
IsRejection_AnyError(o) == o.answer \in {"invalid_grant", "failed"}
IsRejection(o) == o.answer = "invalid_grant"

CommitRejection(p) ==
  /\ At(p, "answered")
  /\ IsRejection(op[p])
  /\ row' = [row EXCEPT ![op[p].key].rejected = TRUE]
  /\ Unlock(p)
  /\ Return(p)
  /\ UNCHANGED <<claims, clientID, now, nextUUID, nextGrant, provider, history>>

LosesRotation(p) == At(p, "answered") /\ op[p].answer = "rotated"

(* A refresh that ends in an error after the provider answered: no further *)
(* attempt is allowed, or the new tokens could not be encrypted or stored. *)
FailRefresh(p) ==
  /\ At(p, "answered")
  /\ lost' = IF LosesRotation(p) THEN lost \cup {op[p].refresh.grant} ELSE lost
  /\ Unlock(p)
  /\ Return(p)
  /\ UNCHANGED <<row, claims, clientID, now, nextUUID, nextGrant, provider, gone, applied>>

(* The operation ends before it stores anything: its deadline passes while *)
(* it waits for a slot, the lock or the provider, or the database or the   *)
(* service entity cannot be read.  A request already sent stays on its way.*)
Timeout(p) ==
  /\ op[p].pc \in {"slot", "lock", "held", "sent", "insert", "delete"}
  /\ orphans' = IF At(p, "sent") THEN orphans \cup {op[p].refresh} ELSE orphans
  /\ Unlock(p)
  /\ Return(p)
  /\ UNCHANGED <<row, claims, clientID, now, nextUUID, nextGrant, served, live, issuedTo, revoked, history>>

(* A replica dies with all its goroutines: the database rolls their        *)
(* transactions back, and what the provider answered them is lost.         *)
Crash(r) ==
  /\ \E p \in r : ~IsIdle(p)
  /\ orphans' = orphans \cup {op[p].refresh : p \in {q \in r : At(q, "sent")}}
  /\ lost' = lost \cup {op[p].refresh.grant : p \in {q \in r : LosesRotation(q)}}
  /\ holder' = [k \in Keys |-> IF holder[k] \in r THEN Nil ELSE holder[k]]
  /\ op' = [p \in Procs |-> IF p \in r THEN Idle ELSE op[p]]
  /\ UNCHANGED <<row, claims, clientID, now, nextUUID, nextGrant, served, live, issuedTo, revoked, gone, applied>>

(* The operator replaces the service's client registration. *)
RotateCredentials(k, c) ==
  /\ clientID[k] # c
  /\ clientID' = [clientID EXCEPT ![k] = c]
  /\ UNCHANGED <<row, holder, op, claims, now, nextUUID, nextGrant, provider, history>>

Tick ==
  /\ now < MaxTime
  /\ now' = now + 1
  /\ UNCHANGED <<row, holder, op, claims, clientID, nextUUID, nextGrant, provider, history>>

Init ==
  /\ row = [k \in Keys |-> Nil]
  /\ holder = [k \in Keys |-> Nil]
  /\ op = [p \in Procs |-> Idle]
  /\ claims = {}
  /\ clientID \in [Keys -> Clients]
  /\ now = 0
  /\ nextUUID = 1
  /\ nextGrant = 1
  /\ served = [g \in Grants |-> 0]
  /\ live = [g \in Grants |-> 0]
  /\ issuedTo = [g \in Grants |-> Nil]
  /\ revoked = {} /\ orphans = {} /\ lost = {} /\ gone = {} /\ applied = {}

\* What process p does on its own once it has started.
Step(p) ==
  \/ AcquireSlot(p) \/ LockSession(p) \/ LockMissing(p)
  \/ StoreCallback(p) \/ CreateIfAbsent(p) \/ DeleteSession(p)
  \/ SkipRefresh(p) \/ SendRefresh(p) \/ RetryRefresh(p)
  \/ CommitRefresh(p) \/ CommitRejection(p) \/ FailRefresh(p)
  \/ Timeout(p)

Begin(p) ==
  \/ \E c \in claims : HandleCallback(p, c)
  \/ \E k \in Keys :
       \/ RefreshOnDemand(p, k) \/ ForceRefreshSession(p, k)
       \/ RefreshInBackground(p, k) \/ RefreshInSweep(p, k)
       \/ TerminateSession(p, k)

Provider ==
  \/ \E p \in Procs :
       ProviderRenews(p) \/ ProviderAnswerLost(p) \/ ProviderRefuses(p) \/ ProviderFails(p)
  \/ \E t \in orphans : ProviderServesOrphan(t)
  \/ \E g \in Grants : ProviderRevokes(g)

Next ==
  \/ \E k \in Keys : InitiateOAuth2Flow(k)
  \/ \E p \in Procs : Begin(p) \/ Step(p)
  \/ Provider
  \/ \E r \in Replicas : Crash(r)
  \/ \E k \in Keys, c \in Clients : RotateCredentials(k, c)
  \/ Tick

Spec == Init /\ [][Next]_vars

(* ------------------------------- invariants ---------------------------- *)

TypeInvariant ==
  /\ row \in [Keys -> OrNil(Session)]
  /\ holder \in [Keys -> OrNil(Procs)]
  /\ op \in [Procs -> Op]
  /\ \A p \in Procs : op[p].pc # "idle" => op[p].key \in Keys
  /\ claims \subseteq Claims
  /\ clientID \in [Keys -> Clients]
  /\ now \in Nat /\ nextUUID \in Nat /\ nextGrant \in Nat \ {0}
  /\ served \in [Grants -> Nat] /\ live \in [Grants -> Nat]
  /\ issuedTo \in [Grants -> OrNil(Clients)]
  /\ revoked \subseteq Grants /\ lost \subseteq Grants
  /\ orphans \subseteq Token
  /\ gone \subseteq Nat
  /\ applied \subseteq [key : Keys, session : OrNil(Nat), base : OrNil(Nat),
                         written : Nat, stored : Nat]

Locked(p) == op[p].pc \in {"held", "sent", "answered"}

(* The two credentials of a row always come from one upstream grant, and   *)
(* that grant was issued to the client identity the row records:           *)
(* createSession replaces both credentials "so tokens from different       *)
(* upstream accounts cannot be mixed", whatever refreshes and reconnects   *)
(* race with it.                                                           *)
CredentialsOfOneGrant ==
  \A k \in Keys : row[k] # Nil =>
    /\ row[k].refresh # Nil => row[k].refresh.grant = row[k].access.grant
    /\ issuedTo[row[k].access.grant] = row[k].UpstreamClientID

(* While a refresh request is outstanding its sender holds the row lock,   *)
(* the row still stores the presented token, unrejected, and the client    *)
(* presenting it is the one the grant was issued to: refreshLockedSession  *)
(* re-reads the row under the lock and selectCredentials compares          *)
(* identities, so no refresh token is presented from a stale copy.         *)
PresentedTokenIsStored ==
  \A p \in Procs : At(p, "sent") \/ At(p, "answered") =>
    LET k == op[p].key
    IN  /\ holder[k] = p
        /\ row[k] # Nil
        /\ row[k].refresh = op[p].refresh
        /\ ~row[k].rejected
        /\ op[p].client = issuedTo[op[p].refresh.grant]

(* The stored refresh token is the one the provider accepts, unless the    *)
(* rotation is in the hands of the lock holder about to store it, or an    *)
(* answer was lost to a failure.  Concurrent refreshes of any replicas     *)
(* never make the vault keep a token that one of them rotated away.        *)
StoredTokenIsLive ==
  \A k \in Keys : row[k] # Nil /\ row[k].refresh # Nil =>
    LET t == row[k].refresh
    IN  \/ t.serial = live[t.grant]
        \/ t.grant \in lost
        \/ \E p \in Procs : holder[k] = p /\ LosesRotation(p) /\ op[p].key = k

(* A row marked rejected holds a refresh token the provider will never     *)
(* accept again ("invalid_grant means the stored refresh token can never   *)
(* succeed again"): no late rejection lands on a token a reconnect or a    *)
(* concurrent refresh has replaced.                                        *)
RejectedTokenIsDead ==
  \A k \in Keys : row[k] # Nil /\ row[k].rejected =>
    row[k].refresh # Nil /\ ~Accepts(row[k].refresh)

(* A terminated session does not come back: neither a refresh nor a        *)
(* reconnect in progress writes its row again, and a reconnect bound to it *)
(* creates no other session in its place (ErrSessionNotFound).             *)
NoResurrection ==
  /\ \A k \in Keys : row[k] # Nil => row[k].ID \notin gone
  /\ \A a \in applied : a.session # Nil => a.written = a.session

(* Of all the callbacks that started from one generation of a session, at  *)
(* most one is stored, also when state tokens are presented repeatedly or  *)
(* callbacks reach different replicas together.                            *)
FirstCompletionWins ==
  \A a, b \in applied : a.base # Nil /\ a.key = b.key /\ a.base = b.base => a = b

(* ---------------------------- action properties ------------------------ *)

(* Between two callbacks a session keeps its grant, only moves to newer    *)
(* access tokens, and a recorded rejection stays: refreshes never undo     *)
(* each other's writes or revive a rejected session.                       *)
RefreshesOnlyAdvance ==
  [][\A k \in Keys :
       row[k] # Nil /\ row'[k] # Nil /\ row'[k].CallbackID = row[k].CallbackID =>
         /\ row'[k].access.grant = row[k].access.grant
         /\ row'[k].access.serial >= row[k].access.serial
         /\ row[k].rejected => row'[k] = row[k]]_vars

(* -------------------------------- liveness ----------------------------- *)

(* Every wait of an operation is bounded by its context, and a running     *)
(* goroutine takes its next step.                                          *)
FairSpec == Spec /\ \A p \in Procs : WF_vars(Step(p))

(* A row lock is always released: retries are bounded and every exit of    *)
(* the locked callback ends the transaction, so no refresh keeps the       *)
(* waiters of its session out for ever.                                    *)
LockReleased ==
  \A p \in Procs : Locked(p) ~> IsIdle(p)

=============================================================================
