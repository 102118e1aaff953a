------------------------- MODULE SessionVaultGrants -------------------------
(***************************************************************************)
(* What SessionVault does with the provider's grants: which token a row    *)
(* stores, which one a refresh presents, and what a rejection means.       *)
(***************************************************************************)
EXTENDS SessionVaultProofs

(* ------------------- callbacks in progress ----------------------------- *)

IsCallback(o) == o.pc # "idle" /\ o.trigger = "callback"

(* A callback in progress keeps what HandleCallback gave it. *)
CallbacksKept ==
  \A q \in Procs : IsCallback(op'[q]) =>
    /\ IsCallback(op[q]) /\ op'[q].key = op[q].key /\ op'[q].claim = op[q].claim
    /\ op'[q].access = op[q].access /\ op'[q].refresh = op[q].refresh

LEMMA ReturnKeeps ==
  ASSUME NEW p \in Procs, op \in [Procs -> Op], Return(p) PROVE CallbacksKept
  BY IdleOp, Zenon DEF Return, CallbacksKept, IsCallback

LEMMA GotoKeeps ==
  ASSUME NEW p \in Procs, op \in [Procs -> Op], op[p].pc # "idle",
         NEW label \in {"lock", "held", "insert"}, op' = [op EXCEPT ![p].pc = label]
  PROVE  CallbacksKept
  BY GotoUpdate, Zenon DEF CallbacksKept, IsCallback

LEMMA NoCallbackKeeps ==
  ASSUME NEW p \in Procs, op \in [Procs -> Op], NEW o, o.trigger # "callback",
         op' = [op EXCEPT ![p] = o]
  PROVE  CallbacksKept
  BY Zenon DEF CallbacksKept, IsCallback

LEMMA StepKeepsCallbacks ==
  ASSUME Inv1, NEW p \in Procs, Step(p) PROVE CallbacksKept
  <1> op \in [Procs -> Op]
    BY Zenon DEF Inv1, TypeInvariant
  <1>1. CASE AcquireSlot(p)
    BY <1>1, GotoKeeps, Zenon DEF AcquireSlot, Goto, At
  <1>2. CASE LockSession(p)
    BY <1>2, GotoKeeps, Zenon DEF LockSession, Goto, At
  <1>3. CASE LockMissing(p)
    BY <1>3, GotoKeeps, ReturnKeeps, Zenon DEF LockMissing, Goto, At
  <1>4. CASE StoreCallback(p)
    BY <1>4, ReturnKeeps, Zenon DEF StoreCallback
  <1>5. CASE CreateIfAbsent(p)
    BY <1>5, ReturnKeeps, Zenon DEF CreateIfAbsent
  <1>6. CASE DeleteSession(p)
    BY <1>6, ReturnKeeps, Zenon DEF DeleteSession
  <1>7. CASE SkipRefresh(p) \/ CommitRefresh(p) \/ CommitRejection(p) \/ FailRefresh(p) \/ Timeout(p)
    BY <1>7, ReturnKeeps, Zenon DEF SkipRefresh, CommitRefresh, CommitRejection, FailRefresh, Timeout
  <1>8. CASE SendRefresh(p)
    <2>1. PICK c : op' = [op EXCEPT ![p] = [@ EXCEPT !.pc = "sent", !.client = c,
                                              !.refresh = row[op[p].key].refresh, !.attempt = 1]]
      BY <1>8, Zenon DEF SendRefresh
    <2>2. op[p].trigger # "callback"
      BY <1>8, Zenon DEF SendRefresh, Triggers
    <2> QED BY <2>1, <2>2, NoCallbackKeeps, Zenon DEF Op
  <1>9. CASE RetryRefresh(p)
    <2>1. op[p].trigger # "callback"
      BY <1>9, Zenon DEF RetryRefresh, At, Inv1, OpsWellFormed, Triggers
    <2> QED BY <1>9, <2>1, NoCallbackKeeps, Zenon DEF RetryRefresh, Op
  <1> QED BY <1>1, <1>2, <1>3, <1>4, <1>5, <1>6, <1>7, <1>8, <1>9, Zenon DEF Step

LEMMA BeginKeepsCallbacks ==
  ASSUME Inv1, NEW p \in Procs, NEW k \in Keys,
         \/ RefreshOnDemand(p, k) \/ ForceRefreshSession(p, k)
         \/ RefreshInBackground(p, k) \/ RefreshInSweep(p, k) \/ TerminateSession(p, k)
  PROVE  CallbacksKept
  <1> op \in [Procs -> Op]
    BY Zenon DEF Inv1, TypeInvariant
  <1>1. CASE TerminateSession(p, k)
    BY <1>1, NoCallbackKeeps, Zenon DEF TerminateSession, Start
  <1>2. ASSUME NEW trigger \in Triggers, NEW due, StartRefresh(p, k, trigger, due)
        PROVE  CallbacksKept
    <2>1. op' = [op EXCEPT ![p] = [Start(k) EXCEPT !.pc = "slot", !.trigger = trigger, !.due = due,
                                                   !.client = clientID[k]]]
      BY <1>2, Zenon DEF StartRefresh
    <2> QED BY <2>1, NoCallbackKeeps, Zenon DEF Start, Triggers
  <1> QED BY <1>1, <1>2, Zenon DEF RefreshOnDemand, ForceRefreshSession, RefreshInBackground, RefreshInSweep, Triggers

LEMMA ProviderKeepsCallbacks ==
  ASSUME Inv1, NEW p \in Procs,
         ProviderRenews(p) \/ ProviderAnswerLost(p) \/ ProviderRefuses(p) \/ ProviderFails(p)
  PROVE  CallbacksKept
  <1>1. op \in [Procs -> Op] /\ op[p] \in Op /\ op[p].trigger # "callback"
    BY Zenon DEF Inv1, TypeInvariant, OpsWellFormed, Triggers, At, ProviderRenews, ProviderAnswerLost, ProviderRefuses, ProviderFails
  <1>2. ASSUME NEW a, Answer(p, a) PROVE CallbacksKept
    BY <1>1, <1>2, NoCallbackKeeps, Zenon DEF Answer, Op
  <1>3. CASE ProviderRenews(p)
    <2>1. PICK a, e : op' = [op EXCEPT ![p] = [@ EXCEPT !.pc = "answered", !.answer = a,
            !.access = [grant |-> op[p].refresh.grant, serial |-> served[op[p].refresh.grant] + 1], !.expiresAt = e]]
      BY <1>3, Zenon DEF ProviderRenews
    <2> QED BY <1>1, <2>1, NoCallbackKeeps, Zenon DEF Op
  <1> QED BY <1>2, <1>3, Zenon DEF ProviderAnswerLost, ProviderRefuses, ProviderFails

LEMMA CrashKeepsCallbacks ==
  ASSUME Inv1, NEW r \in Replicas, Crash(r) PROVE CallbacksKept
  BY IdleOp, Zenon DEF Crash, CallbacksKept, IsCallback

(* ----------------------------- grants ---------------------------------- *)

Presenting(o) == o.pc \in {"sent", "answered"}

(* Each grant has one owner: a row, or a callback not yet stored, whose    *)
(* refresh token nobody has presented.                                     *)
GrantsOwned ==
  /\ \A k \in Keys : row[k] # Nil => row[k].access.grant < nextGrant
  /\ \A j, k \in Keys : row[j] # Nil /\ row[k] # Nil /\ row[j].access.grant = row[k].access.grant => j = k
  /\ \A p \in Procs : IsCallback(op[p]) =>
       /\ op[p].access.grant < nextGrant
       /\ op[p].access.serial = 0 /\ live[op[p].access.grant] = 0
       /\ op[p].refresh # Nil => op[p].refresh = op[p].access
       /\ issuedTo[op[p].access.grant] = op[p].claim.UpstreamClientID
       /\ \A k \in Keys : row[k] # Nil => row[k].access.grant # op[p].access.grant
       /\ \A q \in Procs : IsCallback(op[q]) /\ op[q].access.grant = op[p].access.grant => q = p
       /\ \A t \in orphans : t.grant # op[p].access.grant
  /\ \A t \in orphans : t.grant < nextGrant

(* Serial numbers only grow, and what an answered refresh knows of them. *)
SerialsKnown ==
  /\ \A g \in Grants : live[g] <= served[g]
  /\ \A k \in Keys : row[k] # Nil =>
       /\ row[k].access.serial <= served[row[k].access.grant]
       /\ row[k].refresh # Nil => row[k].refresh.serial <= served[row[k].refresh.grant]
  /\ \A p \in Procs : op[p].pc = "answered" =>
       /\ op[p].answer \in {"rotated", "renewed"} =>
            /\ op[p].access.grant = op[p].refresh.grant
            /\ op[p].access.serial <= served[op[p].refresh.grant]
            /\ row[op[p].key].access.serial <= op[p].access.serial
       /\ op[p].answer = "rotated" =>
            \/ op[p].access.serial = live[op[p].refresh.grant]
            \/ op[p].refresh.grant \in lost
       /\ op[p].answer = "invalid_grant" => ~Accepts(op[p].refresh)

Inv3 == /\ GrantsOwned /\ SerialsKnown /\ CredentialsOfOneGrant /\ PresentedTokenIsStored
        /\ StoredTokenIsLive /\ RejectedTokenIsDead

LEMMA InitInv3 == Init => Inv3
  BY VaultAssumption DEF Init, Inv3, GrantsOwned, SerialsKnown, CredentialsOfOneGrant, PresentedTokenIsStored,
     StoredTokenIsLive, RejectedTokenIsDead, IsCallback, Idle, Start, At

(* A refresh that goes on presenting its token is untouched. *)
PresentersKept ==
  \A q \in Procs : Presenting(op'[q]) => op'[q] = op[q] /\ holder'[op[q].key] = q

RotationsAccounted ==
  \A q \in Procs : LosesRotation(q) => op'[q] = op[q] \/ op[q].refresh.grant \in lost'

LEMMA TokenFacts ==
  ASSUME Inv1
  PROVE  /\ \A k \in Keys : row[k] # Nil =>
              /\ row[k] \in Session /\ row[k].access \in Token
              /\ row[k].refresh # Nil => row[k].refresh \in Token
         /\ \A p \in Procs : Presenting(op[p]) => op[p].refresh \in Token /\ op[p].key \in Keys
         /\ \A p \in Procs : IsCallback(op[p]) => op[p].access \in Token
         /\ \A t \in Token : t.grant \in Grants /\ t.serial \in Nat
  BY Zenon DEF Inv1, TypeInvariant, OpsWellFormed, Presenting, IsCallback, Session, OrNil, Token

(* Steps in which rows and the provider's tokens stay as they are. *)
LEMMA FrameInv3 ==
  ASSUME Inv1, Inv3, CallbacksKept, PresentersKept, RotationsAccounted,
         UNCHANGED <<row, served, live, issuedTo, revoked, nextGrant>>, lost \subseteq lost',
         orphans' \subseteq orphans \cup {op[p].refresh : p \in {q \in Procs : At(q, "sent")}}
  PROVE  Inv3'
  <1>1. GrantsOwned'
    <2>1. \A t \in orphans' : t \in orphans \/ \E k \in Keys : row[k] # Nil /\ row[k].access.grant = t.grant
      <3>1. \A p \in Procs : At(p, "sent") => op[p].key \in Keys
        BY TokenFacts, Zenon DEF At, Presenting
      <3> QED BY <3>1, TokenFacts, NilAssumption DEF At, Presenting, Inv3, PresentedTokenIsStored, CredentialsOfOneGrant
    <2> QED BY <2>1 DEF Inv3, GrantsOwned, CallbacksKept
  <1>2. SerialsKnown'
    <2>1. \A p \in Procs : op'[p].pc = "answered" => op'[p] = op[p]
      BY Zenon DEF PresentersKept, Presenting
    <2> QED BY <2>1, Zenon DEF Inv3, SerialsKnown, Accepts
  <1>3. CredentialsOfOneGrant'
    BY Zenon DEF Inv3, CredentialsOfOneGrant
  <1>4. PresentedTokenIsStored'
    BY DEF Inv3, PresentedTokenIsStored, PresentersKept, Presenting, At
  <1>5. StoredTokenIsLive'
    <2> SUFFICES ASSUME NEW k \in Keys, row[k] # Nil, row[k].refresh # Nil,
                        row[k].refresh.serial # live[row[k].refresh.grant],
                        row[k].refresh.grant \notin lost'
                 PROVE  \E p \in Procs : holder'[k] = p /\ LosesRotation(p)' /\ op'[p].key = k
      BY Zenon DEF StoredTokenIsLive
    <2>1. PICK p \in Procs : holder[k] = p /\ LosesRotation(p) /\ op[p].key = k
      BY Zenon DEF Inv3, StoredTokenIsLive
    <2>2. op[p].refresh = row[k].refresh
      BY <2>1, Zenon DEF Inv3, PresentedTokenIsStored, LosesRotation
    <2>3. op'[p] = op[p]
      BY <2>1, <2>2, Zenon DEF RotationsAccounted
    <2>4. holder'[k] = p
      BY <2>1, <2>3, Zenon DEF PresentersKept, Presenting, LosesRotation, At
    <2> QED BY <2>1, <2>3, <2>4, Zenon DEF LosesRotation, At
  <1>6. RejectedTokenIsDead'
    BY Zenon DEF Inv3, RejectedTokenIsDead, Accepts
  <1> QED BY <1>1, <1>2, <1>3, <1>4, <1>5, <1>6, Zenon DEF Inv3

(* A step of p that leaves it waiting for no answer. *)
LEMMA QuietStep ==
  ASSUME Inv1, NEW p \in Procs, \A q \in Procs \ {p} : op'[q] = op[q],
         ~Presenting(op'[p]),
         \A k \in Keys : holder[k] # p /\ holder[k] # Nil => holder'[k] = holder[k],
         LosesRotation(p) => op[p].refresh.grant \in lost'
  PROVE  PresentersKept /\ RotationsAccounted
  <1>1. \A q \in Procs : Presenting(op[q]) => op[q].key \in Keys /\ holder[op[q].key] = q /\ q # Nil
    BY VaultAssumption DEF Inv1, TypeInvariant, LockDiscipline, Locked, Presenting
  <1> QED BY <1>1, Zenon DEF PresentersKept, RotationsAccounted

LEMMA UpdateQuiet ==
  ASSUME Inv1, NEW p \in Procs, NEW o, op' = [op EXCEPT ![p] = o], o.pc \notin {"sent", "answered"},
         \A k \in Keys : holder[k] # p /\ holder[k] # Nil => holder'[k] = holder[k],
         LosesRotation(p) => op[p].refresh.grant \in lost'
  PROVE  PresentersKept /\ RotationsAccounted
  <1>1. op'[p] = o /\ \A q \in Procs \ {p} : op'[q] = op[q]
    BY Zenon DEF Inv1, TypeInvariant
  <1> QED BY <1>1, QuietStep, Zenon DEF Presenting

LEMMA ReturnQuiet ==
  ASSUME Inv1, NEW p \in Procs, op[p].pc # "idle", Return(p), Unlock(p) \/ holder' = holder,
         LosesRotation(p) => op[p].refresh.grant \in lost'
  PROVE  PresentersKept /\ RotationsAccounted
  <1>1. op' = [op EXCEPT ![p] = Idle] /\ Idle.pc \notin {"sent", "answered"}
    BY IdleOp, Zenon DEF Return
  <1>2. \A k \in Keys : holder[k] # p /\ holder[k] # Nil => holder'[k] = holder[k]
    BY Zenon DEF Unlock, Inv1, TypeInvariant
  <1> QED BY <1>1, <1>2, UpdateQuiet, Zenon

LEMMA GotoQuiet ==
  ASSUME Inv1, NEW p \in Procs, op[p].pc \in {"slot", "lock"},
         NEW label \in {"lock", "held", "insert"}, op' = [op EXCEPT ![p].pc = label],
         \A k \in Keys : holder[k] # Nil => holder'[k] = holder[k]
  PROVE  PresentersKept /\ RotationsAccounted
  <1>1. op'[p].pc = label /\ \A q \in Procs \ {p} : op'[q] = op[q]
    BY GotoUpdate, Zenon DEF Inv1, TypeInvariant
  <1> QED BY <1>1, QuietStep, Zenon DEF Presenting, LosesRotation, At

LEMMA QuietStepsInv3 ==
  ASSUME Inv1, Inv3, NEW p \in Procs,
         \/ AcquireSlot(p) \/ LockSession(p) \/ LockMissing(p) \/ SkipRefresh(p)
         \/ FailRefresh(p) \/ Timeout(p)
  PROVE  Inv3'
  <1>1. CallbacksKept
    BY StepKeepsCallbacks, Zenon DEF Step
  <1>2. /\ UNCHANGED <<row, served, live, issuedTo, revoked, nextGrant>> /\ lost \subseteq lost'
        /\ orphans' \subseteq orphans \cup {op[q].refresh : q \in {q \in Procs : At(q, "sent")}}
    BY Zenon DEF AcquireSlot, LockSession, LockMissing, SkipRefresh, FailRefresh, Timeout, provider, history
  <1>3. PresentersKept /\ RotationsAccounted
    <2>1. CASE AcquireSlot(p)
      BY <2>1, GotoQuiet, Zenon DEF AcquireSlot, Goto, At
    <2>2. CASE LockSession(p)
      <3>1. \A k \in Keys : holder[k] # Nil => holder'[k] = holder[k]
        BY <2>2, Zenon DEF LockSession, Inv1, TypeInvariant
      <3> QED BY <2>2, <3>1, GotoQuiet, Zenon DEF LockSession, Goto, At
    <2>3. CASE LockMissing(p)
      BY <2>3, GotoQuiet, ReturnQuiet, Zenon DEF LockMissing, Goto, At, LosesRotation
    <2>4. CASE SkipRefresh(p)
      BY <2>4, ReturnQuiet, Zenon DEF SkipRefresh, At, LosesRotation
    <2>5. CASE FailRefresh(p)
      BY <2>5, ReturnQuiet, Zenon DEF FailRefresh, At
    <2>6. CASE Timeout(p)
      BY <2>6, ReturnQuiet, Zenon DEF Timeout, At, LosesRotation
    <2> QED BY <2>1, <2>2, <2>3, <2>4, <2>5, <2>6, Zenon
  <1> QED BY <1>1, <1>2, <1>3, FrameInv3, Zenon

LEMMA BeginInv3 ==
  ASSUME Inv1, Inv3, NEW p \in Procs, NEW k \in Keys,
         \/ RefreshOnDemand(p, k) \/ ForceRefreshSession(p, k)
         \/ RefreshInBackground(p, k) \/ RefreshInSweep(p, k) \/ TerminateSession(p, k)
  PROVE  Inv3'
  <1>1. CallbacksKept
    BY BeginKeepsCallbacks, Zenon
  <1>2. UNCHANGED <<row, served, live, issuedTo, revoked, nextGrant, lost, orphans, holder>>
    BY Zenon DEF RefreshOnDemand, ForceRefreshSession, RefreshInBackground, RefreshInSweep, TerminateSession,
           provider, history
  <1>3. op[p].pc = "idle" /\ \E o : op' = [op EXCEPT ![p] = o] /\ o.pc \notin {"sent", "answered"}
    <2>1. ASSUME NEW trigger, NEW due, StartRefresh(p, k, trigger, due)
          PROVE  op[p].pc = "idle" /\ \E o : op' = [op EXCEPT ![p] = o] /\ o.pc \notin {"sent", "answered"}
      <3>1. op[p].pc = "idle" /\ op' = [op EXCEPT ![p] = [Start(k) EXCEPT
              !.pc = "slot", !.trigger = trigger, !.due = due, !.client = clientID[k]]]
        BY <2>1, Zenon DEF StartRefresh, IsIdle
      <3>2. [Start(k) EXCEPT !.pc = "slot", !.trigger = trigger, !.due = due, !.client = clientID[k]].pc = "slot"
        BY Zenon DEF Start
      <3> QED BY <3>1, <3>2, Zenon
    <2>2. CASE TerminateSession(p, k)
      <3>1. op[p].pc = "idle" /\ op' = [op EXCEPT ![p] = [Start(k) EXCEPT !.pc = "delete", !.trigger = "terminate"]]
        BY <2>2, Zenon DEF TerminateSession, IsIdle
      <3>2. [Start(k) EXCEPT !.pc = "delete", !.trigger = "terminate"].pc = "delete"
        BY Zenon DEF Start
      <3> QED BY <3>1, <3>2, Zenon
    <2> QED BY <2>1, <2>2, Zenon DEF RefreshOnDemand, ForceRefreshSession, RefreshInBackground, RefreshInSweep
  <1>4. PresentersKept /\ RotationsAccounted
    BY <1>2, <1>3, UpdateQuiet, Zenon DEF LosesRotation, At
  <1> QED BY <1>1, <1>2, <1>4, FrameInv3, Zenon

LEMMA CrashInv3 ==
  ASSUME Inv1, Inv3, NEW r \in Replicas, Crash(r) PROVE Inv3'
  <1>1. CallbacksKept
    BY CrashKeepsCallbacks, Zenon
  <1>2. r \subseteq Procs
    BY VaultAssumption, Zenon
  <1>3. /\ UNCHANGED <<row, served, live, issuedTo, revoked, nextGrant>> /\ lost \subseteq lost'
        /\ orphans' \subseteq orphans \cup {op[q].refresh : q \in {q \in Procs : At(q, "sent")}}
    BY <1>2, Zenon DEF Crash
  <1>4. /\ \A p \in r : op'[p] = Idle /\ (LosesRotation(p) => op[p].refresh.grant \in lost')
        /\ \A p \in Procs \ r : op'[p] = op[p]
        /\ \A k \in Keys : holder[k] \notin r => holder'[k] = holder[k]
    BY <1>2, Zenon DEF Crash
  <1>5. \A q \in Procs : Presenting(op[q]) => op[q].key \in Keys /\ holder[op[q].key] = q
    BY Zenon DEF Inv1, TypeInvariant, LockDiscipline, Locked, Presenting
  <1>6. PresentersKept /\ RotationsAccounted
    BY <1>2, <1>4, <1>5, IdleOp, Zenon DEF PresentersKept, RotationsAccounted, Presenting
  <1> QED BY <1>1, <1>3, <1>6, FrameInv3, Zenon

LEMMA HandleCallbackInv3 ==
  ASSUME Inv1, Inv3, NEW p \in Procs, NEW c \in claims, HandleCallback(p, c) PROVE Inv3'
  <1> DEFINE token == [grant |-> nextGrant, serial |-> 0]
  <1>1. /\ op[p].pc = "idle" /\ nextGrant \in Grants /\ nextGrant \in Nat /\ nextGrant' = nextGrant + 1
        /\ served' = [served EXCEPT ![nextGrant] = 0]
        /\ live' = [live EXCEPT ![nextGrant] = 0]
        /\ issuedTo' = [issuedTo EXCEPT ![nextGrant] = c.UpstreamClientID]
        /\ UNCHANGED <<row, holder, revoked, orphans, lost>>
    BY VaultAssumption DEF HandleCallback, IsIdle, history, Inv1, TypeInvariant, Grants
  <1>2. PICK e \in Expiries, r \in {Nil, token} : op' = [op EXCEPT ![p] = [Start(c.key) EXCEPT
                !.pc = "slot", !.trigger = "callback", !.claim = c,
                !.access = token, !.refresh = r, !.expiresAt = e]]
    BY Zenon DEF HandleCallback
  <1>3. /\ op'[p].access = token /\ op'[p].refresh \in {Nil, token} /\ op'[p].claim = c
        /\ op'[p].pc = "slot"
        /\ \A q \in Procs \ {p} : op'[q] = op[q]
    BY <1>2, Zenon DEF Start, Inv1, TypeInvariant
  <1>4. /\ \A g \in Grants \ {nextGrant} : served'[g] = served[g] /\ live'[g] = live[g] /\ issuedTo'[g] = issuedTo[g]
        /\ served'[nextGrant] = 0 /\ live'[nextGrant] = 0 /\ issuedTo'[nextGrant] = c.UpstreamClientID
    BY <1>1, Zenon DEF Inv1, TypeInvariant
  <1>5. \A k \in Keys : row[k] # Nil =>
          /\ row[k].access.grant \in Grants \ {nextGrant} /\ row[k].access.grant < nextGrant'
          /\ row[k].refresh # Nil => row[k].refresh.grant \in Grants \ {nextGrant}
    BY <1>1, TokenFacts DEF Inv3, GrantsOwned, CredentialsOfOneGrant, Grants
  <1>6. \A q \in Procs : Presenting(op[q]) => op[q].refresh.grant \in Grants \ {nextGrant}
    BY <1>5, TokenFacts, NilAssumption DEF Inv3, PresentedTokenIsStored, Presenting, At
  <1>7. \A q \in Procs : IsCallback(op[q]) =>
          op[q].access.grant \in Grants \ {nextGrant} /\ op[q].access.grant < nextGrant'
    BY <1>1, TokenFacts DEF Inv3, GrantsOwned, Grants
  <1>8. \A t \in orphans : t.grant \in Grants \ {nextGrant} /\ t.grant < nextGrant'
    BY <1>1, TokenFacts DEF Inv3, GrantsOwned, Grants, Inv1, TypeInvariant
  <1>9. GrantsOwned'
    <2>1. token.grant = nextGrant /\ token.serial = 0 /\ nextGrant < nextGrant'
      BY <1>1
    <2> HIDE DEF token
    <2> QED BY <1>1, <1>3, <1>4, <1>5, <1>7, <1>8, <2>1 DEF Inv3, GrantsOwned, IsCallback
  <1>10. SerialsKnown'
    <2>1. \A q \in Procs : op'[q].pc = "answered" => q # p
      BY <1>3, Zenon
    <2>2. \A g \in Grants : live'[g] <= served'[g]
      BY <1>1, <1>4 DEF Inv3, SerialsKnown
    <2> QED BY <1>1, <1>3, <1>4, <1>5, <1>6, <2>1, <2>2 DEF Inv3, SerialsKnown, Accepts, Presenting
  <1>11. CredentialsOfOneGrant'
    BY <1>1, <1>4, <1>5, ZenonT(40) DEF Inv3, CredentialsOfOneGrant
  <1>12. PresentedTokenIsStored'
    BY <1>1, <1>3, <1>4, <1>6 DEF Inv3, PresentedTokenIsStored, At, Presenting
  <1>13. StoredTokenIsLive'
    BY <1>1, <1>3, <1>4, <1>5 DEF Inv3, StoredTokenIsLive, LosesRotation, At
  <1>14. RejectedTokenIsDead'
    BY <1>1, <1>4, <1>5 DEF Inv3, RejectedTokenIsDead, Accepts
  <1> QED BY <1>9, <1>10, <1>11, <1>12, <1>13, <1>14, Zenon DEF Inv3

(* A refresh sends its token, again or for the first time, or learns that  *)
(* it got no tokens.                                                       *)
LEMMA PresenterStepInv3 ==
  ASSUME Inv1, Inv3, CallbacksKept, NEW p \in Procs, \A q \in Procs \ {p} : op'[q] = op[q],
         UNCHANGED <<row, holder, served, live, issuedTo, revoked, orphans, nextGrant, lost>>,
         op'[p].key \in Keys, holder[op'[p].key] = p, row[op'[p].key] # Nil,
         row[op'[p].key].refresh = op'[p].refresh, ~row[op'[p].key].rejected,
         op'[p].client = issuedTo[op'[p].refresh.grant],
         op'[p].pc = "answered" => /\ op'[p].answer \notin {"rotated", "renewed"}
                                   /\ op'[p].answer = "invalid_grant" => ~Accepts(op'[p].refresh),
         ~LosesRotation(p)
  PROVE  Inv3'
  <1>1. GrantsOwned'
    BY DEF Inv3, GrantsOwned, CallbacksKept
  <1>2. SerialsKnown'
    BY DEF Inv3, SerialsKnown, Accepts
  <1>3. CredentialsOfOneGrant'
    BY Zenon DEF Inv3, CredentialsOfOneGrant
  <1>4. PresentedTokenIsStored'
    BY DEF Inv3, PresentedTokenIsStored, At
  <1>5. StoredTokenIsLive'
    BY DEF Inv3, StoredTokenIsLive, LosesRotation, At
  <1>6. RejectedTokenIsDead'
    BY Zenon DEF Inv3, RejectedTokenIsDead, Accepts
  <1> QED BY <1>1, <1>2, <1>3, <1>4, <1>5, <1>6, Zenon DEF Inv3

LEMMA SendRefreshInv3 ==
  ASSUME Inv1, Inv3, NEW p \in Procs, SendRefresh(p) PROVE Inv3'
  <1> DEFINE s == row[op[p].key]
             new(c) == [op[p] EXCEPT !.pc = "sent", !.client = c, !.refresh = s.refresh, !.attempt = 1]
  <1>1. /\ op[p].pc = "held" /\ op[p].key \in Keys /\ op[p] \in Op /\ holder[op[p].key] = p /\ s # Nil
        /\ s.refresh # Nil /\ ~s.rejected
        /\ UNCHANGED <<row, holder, served, live, issuedTo, revoked, orphans, nextGrant, lost>>
    BY Zenon DEF SendRefresh, WillRefresh, CanRefresh, RefreshRejected, At, Inv1, TypeInvariant, LockDiscipline,
           Locked, provider, history
  <1>2. PICK c : SameIdentity(c, s) /\ op' = [op EXCEPT ![p] = new(c)]
    BY Zenon DEF SendRefresh
  <1>3. new(c).pc = "sent" /\ new(c).client = c /\ new(c).refresh = s.refresh /\ new(c).key = op[p].key
    BY <1>1, Zenon DEF Op
  <1> HIDE DEF new
  <1>4. op'[p] = new(c) /\ \A q \in Procs \ {p} : op'[q] = op[q]
    BY <1>2, Zenon DEF Inv1, TypeInvariant
  <1>5. c = issuedTo[s.refresh.grant]
    BY <1>1, <1>2, Zenon DEF SameIdentity, Inv3, CredentialsOfOneGrant
  <1>6. CallbacksKept
    BY StepKeepsCallbacks, Zenon DEF Step
  <1> QED BY <1>1, <1>3, <1>4, <1>5, <1>6, PresenterStepInv3, ZenonT(40) DEF LosesRotation, At

LEMMA RetryRefreshInv3 ==
  ASSUME Inv1, Inv3, NEW p \in Procs, RetryRefresh(p) PROVE Inv3'
  <1> DEFINE new == [op[p] EXCEPT !.pc = "sent", !.answer = "none", !.attempt = NextAttempt(op[p])]
  <1>1. /\ op[p].pc = "answered" /\ op[p].answer = "transient" /\ op[p].key \in Keys /\ op[p] \in Op
        /\ op' = [op EXCEPT ![p] = new]
        /\ UNCHANGED <<row, holder, served, live, issuedTo, revoked, orphans, nextGrant, lost>>
    BY Zenon DEF RetryRefresh, At, Inv1, TypeInvariant, provider, history
  <1>2. new.pc = "sent" /\ new.client = op[p].client /\ new.refresh = op[p].refresh /\ new.key = op[p].key
    BY <1>1, Zenon DEF Op
  <1> HIDE DEF new
  <1>3. op'[p] = new /\ \A q \in Procs \ {p} : op'[q] = op[q]
    BY <1>1, Zenon DEF Inv1, TypeInvariant
  <1>4. /\ holder[op[p].key] = p /\ row[op[p].key] # Nil /\ row[op[p].key].refresh = op[p].refresh
        /\ ~row[op[p].key].rejected /\ op[p].client = issuedTo[op[p].refresh.grant]
    BY <1>1, Zenon DEF Inv3, PresentedTokenIsStored, At
  <1>5. CallbacksKept
    BY StepKeepsCallbacks, Zenon DEF Step
  <1> QED BY <1>1, <1>2, <1>3, <1>4, <1>5, PresenterStepInv3 DEF LosesRotation, At

LEMMA EmptyAnswerInv3 ==
  ASSUME Inv1, Inv3, NEW p \in Procs, ProviderRefuses(p) \/ ProviderFails(p) PROVE Inv3'
  <1>1. /\ op[p].pc = "sent" /\ op[p].key \in Keys
        /\ UNCHANGED <<row, holder, served, live, issuedTo, revoked, orphans, nextGrant, lost>>
    BY Zenon DEF ProviderRefuses, ProviderFails, At, Inv1, TypeInvariant, provider, history
  <1>2. PICK a \in {"invalid_grant", "transient", "failed"} :
          /\ op' = [op EXCEPT ![p] = [@ EXCEPT !.pc = "answered", !.answer = a]]
          /\ a = "invalid_grant" => ~Accepts(op[p].refresh)
    BY Zenon DEF ProviderRefuses, ProviderFails, Answer
  <1>3. /\ \A q \in Procs \ {p} : op'[q] = op[q]
        /\ op'[p].pc = "answered" /\ op'[p].answer = a /\ op'[p].key = op[p].key
        /\ op'[p].refresh = op[p].refresh /\ op'[p].client = op[p].client
    BY <1>2, AnswerUpdate, Zenon DEF Inv1, TypeInvariant
  <1>4. /\ holder[op[p].key] = p /\ row[op[p].key] # Nil /\ row[op[p].key].refresh = op[p].refresh
        /\ ~row[op[p].key].rejected /\ op[p].client = issuedTo[op[p].refresh.grant]
    BY <1>1, Zenon DEF Inv3, PresentedTokenIsStored, At
  <1>5. CallbacksKept
    BY ProviderKeepsCallbacks, Zenon
  <1> QED BY <1>1, <1>2, <1>3, <1>4, <1>5, PresenterStepInv3, ZenonT(40) DEF LosesRotation, At

(* The row whose token a refresh presents is the only owner of its grant. *)
LEMMA PresenterOwnsGrant ==
  ASSUME Inv1, Inv3, NEW p \in Procs, Presenting(op[p])
  PROVE  /\ \A k \in Keys : row[k] # Nil /\ row[k].access.grant = op[p].refresh.grant => k = op[p].key
         /\ \A q \in Procs : Presenting(op[q]) /\ op[q].refresh.grant = op[p].refresh.grant => q = p
         /\ \A q \in Procs : IsCallback(op[q]) => op[q].access.grant # op[p].refresh.grant
  <1>1. \A q \in Procs : Presenting(op[q]) =>
          /\ op[q].key \in Keys /\ holder[op[q].key] = q /\ row[op[q].key] # Nil
          /\ row[op[q].key].access.grant = op[q].refresh.grant
    BY TokenFacts, NilAssumption DEF Inv3, PresentedTokenIsStored, CredentialsOfOneGrant, Presenting, At
  <1> QED BY <1>1 DEF Inv3, GrantsOwned

LEMMA ProviderRenewsInv3 ==
  ASSUME Inv1, Inv3, NEW p \in Procs, ProviderRenews(p) PROVE Inv3'
  <1> DEFINE g == op[p].refresh.grant
             n == served[g] + 1
             k == op[p].key
             new(a, e) == [op[p] EXCEPT !.pc = "answered", !.answer = a,
                             !.access = [grant |-> g, serial |-> n], !.expiresAt = e]
  <1>1. /\ op[p].pc = "sent" /\ k \in Keys /\ op[p] \in Op /\ g \in Grants /\ served[g] \in Nat /\ n \in Nat
        /\ UNCHANGED <<row, holder, nextGrant, issuedTo, revoked, orphans, lost>>
        /\ served' = [served EXCEPT ![g] = n]
    BY DEF ProviderRenews, At, Inv1, TypeInvariant, OpsWellFormed, Token, history
  <1>2. PICK a \in {"rotated", "renewed"}, e \in Expiries :
          /\ op' = [op EXCEPT ![p] = new(a, e)]
          /\ live' = IF a = "rotated" THEN [live EXCEPT ![g] = n] ELSE live
    BY Zenon DEF ProviderRenews
  <1>3. /\ new(a, e).pc = "answered" /\ new(a, e).client = op[p].client /\ new(a, e).answer = a
        /\ new(a, e).access.grant = g /\ new(a, e).access.serial = n
        /\ new(a, e).refresh = op[p].refresh /\ new(a, e).key = k
    BY <1>1, Zenon DEF Op
  <1> HIDE DEF new
  <1>4. op'[p] = new(a, e) /\ \A q \in Procs \ {p} : op'[q] = op[q]
    BY <1>2, Zenon DEF Inv1, TypeInvariant
  <1>5. CallbacksKept
    BY ProviderKeepsCallbacks, Zenon
  <1>6. /\ served'[g] = n /\ live'[g] = (IF a = "rotated" THEN n ELSE live[g])
        /\ \A h \in Grants \ {g} : served'[h] = served[h] /\ live'[h] = live[h]
        /\ \A h \in Grants : served[h] \in Nat /\ live[h] \in Nat
    BY <1>1, <1>2, Zenon DEF Inv1, TypeInvariant
  <1>7. /\ \A j \in Keys : row[j] # Nil /\ row[j].access.grant = g => j = k
        /\ \A q \in Procs : Presenting(op[q]) /\ op[q].refresh.grant = g => q = p
        /\ \A q \in Procs : IsCallback(op[q]) => op[q].access.grant # g
    BY <1>1, PresenterOwnsGrant, Zenon DEF Presenting
  <1>8. /\ holder[k] = p /\ row[k] # Nil /\ row[k].refresh = op[p].refresh /\ ~row[k].rejected
        /\ op[p].client = issuedTo[g] /\ row[k].access.grant = g
    BY <1>1, TokenFacts, NilAssumption DEF Inv3, PresentedTokenIsStored, CredentialsOfOneGrant, At, Presenting
  <1>9. \A j \in Keys : row[j] # Nil =>
          /\ row[j].access.grant \in Grants /\ row[j].access.serial \in Nat
          /\ row[j].refresh # Nil => /\ row[j].refresh.grant = row[j].access.grant
                                     /\ row[j].refresh.serial \in Nat
    BY TokenFacts, Zenon DEF Inv3, CredentialsOfOneGrant
  <1> HIDE DEF n, g, k
  <1>10. GrantsOwned'
    <2>1. \A q \in Procs : IsCallback(op[q]) => op[q].access.grant \in Grants
      BY TokenFacts, Zenon
    <2> QED BY <1>1, <1>5, <1>6, <1>7, <2>1 DEF Inv3, GrantsOwned, CallbacksKept
  <1>11. SerialsKnown'
    <2>1. \A h \in Grants : served[h] <= served'[h] /\ live'[h] <= served'[h]
      BY <1>1, <1>6 DEF Inv3, SerialsKnown, n
    <2>2. \A j \in Keys : row'[j] # Nil =>
            /\ row'[j].access.serial <= served'[row'[j].access.grant]
            /\ row'[j].refresh # Nil => row'[j].refresh.serial <= served'[row'[j].refresh.grant]
      <3> SUFFICES ASSUME NEW j \in Keys, row[j] # Nil
                   PROVE  /\ row[j].access.serial <= served'[row[j].access.grant]
                          /\ row[j].refresh # Nil => row[j].refresh.serial <= served'[row[j].refresh.grant]
        BY <1>1, Zenon
      <3>1. /\ row[j].access.serial <= served[row[j].access.grant]
            /\ row[j].refresh # Nil => row[j].refresh.serial <= served[row[j].refresh.grant]
        BY Zenon DEF Inv3, SerialsKnown
      <3> QED BY <1>1, <1>6, <1>9, <2>1, <3>1
    <2>3. \A q \in Procs \ {p} : Presenting(op[q]) =>
            op[q].refresh.grant \in Grants \ {g}
      BY <1>7, TokenFacts, Zenon
    <2>4. row[k].access.serial <= n
      BY <1>1, <1>8, <1>9 DEF Inv3, SerialsKnown, n, k
    <2>5. ASSUME NEW q \in Procs \ {p}, op'[q].pc = "answered"
          PROVE  /\ op'[q] = op[q] /\ Presenting(op[q]) /\ op[q].pc = "answered"
                 /\ served'[op[q].refresh.grant] = served[op[q].refresh.grant]
                 /\ live'[op[q].refresh.grant] = live[op[q].refresh.grant]
                 /\ Accepts(op[q].refresh)' <=> Accepts(op[q].refresh)
      BY <1>1, <1>4, <1>6, <2>3, <2>5, ZenonT(40) DEF Presenting, Accepts
    <2>6. \A q \in Procs \ {p} : op'[q].pc = "answered" =>
            /\ op'[q].answer \in {"rotated", "renewed"} =>
                 /\ op'[q].access.grant = op'[q].refresh.grant
                 /\ op'[q].access.serial <= served'[op'[q].refresh.grant]
                 /\ row'[op'[q].key].access.serial <= op'[q].access.serial
            /\ op'[q].answer = "rotated" =>
                 \/ op'[q].access.serial = live'[op'[q].refresh.grant]
                 \/ op'[q].refresh.grant \in lost'
            /\ op'[q].answer = "invalid_grant" => ~Accepts(op[q].refresh)'
      BY <1>1, <2>5 DEF Inv3, SerialsKnown, Accepts
    <2>7. /\ op'[p].answer = a /\ op'[p].access.grant = g /\ op'[p].refresh.grant = g
          /\ op'[p].access.serial = n /\ op'[p].key = k
      BY <1>3, <1>4, Zenon DEF g
    <2>8. n <= served'[g] /\ row'[k].access.serial <= n /\ (a = "rotated" => n = live'[g])
      BY <1>1, <1>6, <2>4
    <2> QED BY <1>2, <2>1, <2>2, <2>6, <2>7, <2>8, Zenon DEF SerialsKnown, Accepts
  <1>12. CredentialsOfOneGrant'
    BY <1>1, ZenonT(40) DEF Inv3, CredentialsOfOneGrant
  <1>13. PresentedTokenIsStored'
    <2>1. ASSUME NEW q \in Procs \ {p}, op'[q].pc \in {"sent", "answered"}
          PROVE  /\ op'[q] = op[q] /\ holder[op[q].key] = q /\ row[op[q].key] # Nil
                 /\ row[op[q].key].refresh = op[q].refresh /\ ~row[op[q].key].rejected
                 /\ op[q].client = issuedTo[op[q].refresh.grant]
      BY <1>4, <2>1, Zenon DEF Inv3, PresentedTokenIsStored, At
    <2>2. op'[p].key = k /\ op'[p].refresh = op[p].refresh /\ op'[p].client = op[p].client
      BY <1>3, <1>4, Zenon
    <2>3. issuedTo[op[p].refresh.grant] = op[p].client
      BY <1>8, Zenon DEF g
    <2>4. ASSUME NEW q \in Procs, op'[q].pc \in {"sent", "answered"}
          PROVE  /\ holder[op'[q].key] = q /\ row[op'[q].key] # Nil
                 /\ row[op'[q].key].refresh = op'[q].refresh /\ ~row[op'[q].key].rejected
                 /\ op'[q].client = issuedTo[op'[q].refresh.grant]
      <3>1. CASE q = p
        BY <1>8, <2>2, <2>3, <3>1, Zenon
      <3>2. CASE q # p
        BY <2>1, <2>4, <3>2, Zenon
      <3> QED BY <3>1, <3>2, Zenon
    <2> QED BY <1>1, <2>4, Zenon DEF PresentedTokenIsStored, At
  <1>14. StoredTokenIsLive'
    <2> SUFFICES ASSUME NEW j \in Keys, row[j] # Nil, row[j].refresh # Nil,
                        row[j].refresh.serial # live'[row[j].refresh.grant],
                        row[j].refresh.grant \notin lost
                 PROVE  \E q \in Procs : holder[j] = q /\ LosesRotation(q)' /\ op'[q].key = j
      BY <1>1, Zenon DEF StoredTokenIsLive
    <2>1. LosesRotation(p)' <=> a = "rotated"
      BY <1>3, <1>4, Zenon DEF LosesRotation, At
    <2>2. CASE j = k /\ a = "rotated"
      BY <1>3, <1>4, <1>8, <2>1, <2>2, Zenon
    <2>3. CASE ~(j = k /\ a = "rotated")
      <3>1. live'[row[j].refresh.grant] = live[row[j].refresh.grant]
        BY <1>6, <1>7, <1>9, <2>3, Zenon
      <3>2. PICK q \in Procs : holder[j] = q /\ LosesRotation(q) /\ op[q].key = j
        BY <3>1, Zenon DEF Inv3, StoredTokenIsLive
      <3>3. q # p
        BY <1>1, <3>2 DEF LosesRotation, At
      <3>4. op'[q] = op[q]
        BY <1>4, <3>3, Zenon
      <3> QED BY <3>2, <3>4, Zenon DEF LosesRotation, At
    <2> QED BY <2>2, <2>3, Zenon
  <1>15. RejectedTokenIsDead'
    BY <1>1, <1>6, <1>7, <1>8, <1>9 DEF Inv3, RejectedTokenIsDead, Accepts
  <1> QED BY <1>10, <1>11, <1>12, <1>13, <1>14, <1>15, Zenon DEF Inv3

(* The provider rotates a token and nobody gets to know it. *)
LEMMA LostRotationInv3 ==
  ASSUME Inv1, Inv3, CallbacksKept, NEW g \in Grants,
         served' = [served EXCEPT ![g] = served[g] + 1],
         live' = [live EXCEPT ![g] = served[g] + 1], lost' = lost \cup {g},
         UNCHANGED <<row, holder, issuedTo, revoked, nextGrant>>, orphans' \subseteq orphans,
         \A q \in Procs : IsCallback(op[q]) => op[q].access.grant # g,
         \A q \in Procs : Presenting(op'[q]) =>
           /\ Presenting(op[q]) /\ op'[q].key = op[q].key
           /\ op'[q].refresh = op[q].refresh /\ op'[q].client = op[q].client,
         \A q \in Procs : op'[q].pc = "answered" /\ op'[q].answer \in {"rotated", "renewed", "invalid_grant"} =>
           op'[q] = op[q],
         \A q \in Procs : LosesRotation(q) => op'[q] = op[q]
  PROVE  Inv3'
  <1>1. /\ served'[g] = served[g] + 1 /\ live'[g] = served[g] + 1
        /\ \A h \in Grants \ {g} : served'[h] = served[h] /\ live'[h] = live[h]
        /\ \A h \in Grants : served[h] \in Nat /\ live[h] \in Nat
    BY Zenon DEF Inv1, TypeInvariant
  <1>2. \A h \in Grants : served[h] <= served'[h] /\ live'[h] <= served'[h]
    BY <1>1 DEF Inv3, SerialsKnown
  <1>3. \A j \in Keys : row[j] # Nil =>
          /\ row[j].access.grant \in Grants /\ row[j].access.serial \in Nat
          /\ row[j].access.serial <= served[row[j].access.grant]
          /\ row[j].refresh # Nil => /\ row[j].refresh.grant \in Grants /\ row[j].refresh.serial \in Nat
                                     /\ row[j].refresh.serial <= served[row[j].refresh.grant]
    BY TokenFacts, Zenon DEF Inv3, SerialsKnown
  <1>4. \A q \in Procs : Presenting(op[q]) =>
          /\ op[q].key \in Keys /\ row[op[q].key] # Nil /\ row[op[q].key].refresh = op[q].refresh
          /\ op[q].refresh # Nil
    BY TokenFacts, NilAssumption, ZenonT(40) DEF Inv3, PresentedTokenIsStored, Presenting, At
  <1>5. GrantsOwned'
    <2>1. \A q \in Procs : IsCallback(op[q]) => op[q].access.grant \in Grants
      BY TokenFacts, Zenon
    <2> QED BY <1>1, <2>1 DEF Inv3, GrantsOwned, CallbacksKept
  <1>6. SerialsKnown'
    <2>1. \A j \in Keys : row'[j] # Nil =>
            /\ row'[j].access.serial <= served'[row'[j].access.grant]
            /\ row'[j].refresh # Nil => row'[j].refresh.serial <= served'[row'[j].refresh.grant]
      BY <1>1, <1>2, <1>3
    <2>2. ASSUME NEW q \in Procs, op'[q].pc = "answered", op'[q].answer \in {"rotated", "renewed", "invalid_grant"}
          PROVE  /\ op'[q] = op[q] /\ op[q].pc = "answered"
                 /\ op[q].refresh.grant \in Grants /\ op[q].refresh.serial \in Nat
                 /\ op[q].refresh.serial <= served[op[q].refresh.grant]
      BY <1>3, <1>4, <2>2, Zenon DEF Presenting
    <2>3. ASSUME NEW q \in Procs, op'[q].pc = "answered", op'[q].answer \in {"rotated", "renewed"}
          PROVE  /\ op'[q].access.grant = op'[q].refresh.grant
                 /\ op'[q].access.serial <= served'[op'[q].refresh.grant]
                 /\ row'[op'[q].key].access.serial <= op'[q].access.serial
      <3>1. /\ op[q].access.grant = op[q].refresh.grant
            /\ op[q].access.serial <= served[op[q].refresh.grant]
            /\ row[op[q].key].access.serial <= op[q].access.serial
        BY <2>2, <2>3, Zenon DEF Inv3, SerialsKnown
      <3>2. op[q].access.serial \in Nat
        BY <2>2, <2>3, TokenFacts, ZenonT(40) DEF Inv1, OpsWellFormed
      <3> QED BY <1>1, <1>2, <2>2, <2>3, <3>1, <3>2
    <2>4. ASSUME NEW q \in Procs, op'[q].pc = "answered", op'[q].answer = "rotated"
          PROVE  \/ op'[q].access.serial = live'[op'[q].refresh.grant]
                 \/ op'[q].refresh.grant \in lost'
      BY <1>1, <2>2, <2>4 DEF Inv3, SerialsKnown
    <2>5. ASSUME NEW q \in Procs, op'[q].pc = "answered", op'[q].answer = "invalid_grant"
          PROVE  ~Accepts(op[q].refresh)'
      BY <1>1, <2>2, <2>5 DEF Inv3, SerialsKnown, Accepts
    <2> QED BY <1>2, <2>1, <2>3, <2>4, <2>5, Zenon DEF SerialsKnown, Accepts
  <1>7. CredentialsOfOneGrant'
    BY Zenon DEF Inv3, CredentialsOfOneGrant
  <1>8. PresentedTokenIsStored'
    BY DEF Inv3, PresentedTokenIsStored, At, Presenting
  <1>9. StoredTokenIsLive'
    BY <1>1, <1>3 DEF Inv3, StoredTokenIsLive, LosesRotation, At
  <1>10. RejectedTokenIsDead'
    BY <1>1, <1>3 DEF Inv3, RejectedTokenIsDead, Accepts
  <1> QED BY <1>5, <1>6, <1>7, <1>8, <1>9, <1>10, Zenon DEF Inv3

LEMMA ProviderAnswerLostInv3 ==
  ASSUME Inv1, Inv3, NEW p \in Procs, ProviderAnswerLost(p) PROVE Inv3'
  <1> DEFINE g == op[p].refresh.grant
  <1>1. /\ op[p].pc = "sent" /\ g \in Grants
        /\ served' = [served EXCEPT ![g] = served[g] + 1] /\ live' = [live EXCEPT ![g] = served[g] + 1]
        /\ lost' = lost \cup {g} /\ UNCHANGED <<row, holder, issuedTo, revoked, nextGrant, orphans>>
    BY Zenon DEF ProviderAnswerLost, At, Inv1, OpsWellFormed, Token
  <1>2. PICK a \in {"transient", "failed"} :
          op' = [op EXCEPT ![p] = [@ EXCEPT !.pc = "answered", !.answer = a]]
    BY Zenon DEF ProviderAnswerLost, Answer
  <1>3. /\ \A q \in Procs \ {p} : op'[q] = op[q]
        /\ op'[p].pc = "answered" /\ op'[p].answer = a /\ op'[p].key = op[p].key
        /\ op'[p].refresh = op[p].refresh /\ op'[p].client = op[p].client
    BY <1>2, AnswerUpdate, Zenon DEF Inv1, TypeInvariant
  <1>4. \A q \in Procs : IsCallback(op[q]) => op[q].access.grant # g
    BY <1>1, PresenterOwnsGrant, Zenon DEF Presenting
  <1>5. CallbacksKept
    BY ProviderKeepsCallbacks, Zenon
  <1> HIDE DEF g
  <1> QED BY <1>1, <1>3, <1>4, <1>5, LostRotationInv3, Zenon DEF Presenting, LosesRotation, At

LEMMA AsideInv3 ==
  ASSUME Inv1, Inv3,
         \/ \E t \in orphans : ProviderServesOrphan(t)
         \/ \E g \in Grants : ProviderRevokes(g)
         \/ \E k \in Keys, c \in Clients : RotateCredentials(k, c)
         \/ \E k \in Keys : InitiateOAuth2Flow(k)
         \/ Tick
         \/ UNCHANGED vars
  PROVE  Inv3'
  <1>1. op' = op /\ row' = row /\ holder' = holder
    BY Zenon DEF ProviderServesOrphan, ProviderRevokes, RotateCredentials, InitiateOAuth2Flow, Tick, vars
  <1>2. CallbacksKept
    BY <1>1, Zenon DEF CallbacksKept, IsCallback
  <1>3. PresentersKept /\ RotationsAccounted
    BY <1>1, Zenon DEF PresentersKept, RotationsAccounted, Presenting, Inv3, PresentedTokenIsStored, At
  <1>4. ASSUME NEW t \in orphans, ProviderServesOrphan(t) PROVE Inv3'
    <2>1. t.grant \in Grants
      BY Zenon DEF Inv1, TypeInvariant, Token
    <2>2. \A q \in Procs : IsCallback(op[q]) => op[q].access.grant # t.grant
      BY Zenon DEF Inv3, GrantsOwned
    <2>3. UNCHANGED <<row, holder, issuedTo, revoked, nextGrant>> /\ orphans' \subseteq orphans
      BY <1>4, Zenon DEF ProviderServesOrphan
    <2>4. CASE UNCHANGED <<served, live, lost>>
      BY <1>2, <1>3, <2>3, <2>4, FrameInv3, Zenon
    <2>5. CASE /\ served' = [served EXCEPT ![t.grant] = @ + 1]
               /\ live' = [live EXCEPT ![t.grant] = served[t.grant] + 1]
               /\ lost' = lost \cup {t.grant}
      BY <1>1, <1>2, <2>1, <2>2, <2>3, <2>5, LostRotationInv3, Zenon
    <2> QED BY <1>4, <2>4, <2>5, Zenon DEF ProviderServesOrphan
  <1>5. ASSUME NEW g \in Grants, ProviderRevokes(g) PROVE Inv3'
    <2>1. UNCHANGED <<served, live, issuedTo, nextGrant, orphans, lost>> /\ revoked \subseteq revoked'
      BY <1>5, Zenon DEF ProviderRevokes, history
    <2>2. \A t : ~Accepts(t) => ~(t.serial = live[t.grant] /\ t.grant \notin revoked')
      BY <2>1, ZenonT(40) DEF Accepts
    <2>3. /\ GrantsOwned'
          /\ CredentialsOfOneGrant'
          /\ PresentedTokenIsStored'
      <3>1. GrantsOwned'
        BY <1>1, <2>1, Zenon DEF Inv3, GrantsOwned, IsCallback, At
      <3>2. CredentialsOfOneGrant'
        BY <1>1, <2>1, Zenon DEF Inv3, CredentialsOfOneGrant, At
      <3>3. PresentedTokenIsStored'
        BY <1>1, <2>1, Zenon DEF Inv3, PresentedTokenIsStored, At
      <3> QED BY <3>1, <3>2, <3>3, Zenon
    <2>4. SerialsKnown' /\ RejectedTokenIsDead'
      BY <1>1, <2>1, <2>2, Zenon DEF Inv3, SerialsKnown, RejectedTokenIsDead, Accepts
    <2>5. StoredTokenIsLive'
      BY <1>1, <2>1, Zenon DEF Inv3, StoredTokenIsLive, LosesRotation, At
    <2> QED BY <2>3, <2>4, <2>5, Zenon DEF Inv3
  <1>6. CASE \/ \E k \in Keys, c \in Clients : RotateCredentials(k, c)
             \/ \E k \in Keys : InitiateOAuth2Flow(k)
             \/ Tick
             \/ UNCHANGED vars
    <2>1. UNCHANGED <<served, live, issuedTo, revoked, nextGrant, orphans, lost>>
      BY <1>6, Zenon DEF RotateCredentials, InitiateOAuth2Flow, Tick, vars, provider, history
    <2> QED BY <1>1, <1>2, <1>3, <2>1, FrameInv3, Zenon
  <1> QED BY <1>4, <1>5, <1>6, Zenon

=============================================================================
