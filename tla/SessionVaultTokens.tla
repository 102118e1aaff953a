------------------------- MODULE SessionVaultTokens -------------------------
(***************************************************************************)
(* The identifiers of sessions, which callbacks and terminations hand on,  *)
(* then the operations of SessionVault that write a row and what follows   *)
(* for the stored tokens: never of two grants, never older than the        *)
(* provider's current one, never declared dead while it lives, never       *)
(* replaced by an older one.                                               *)
(***************************************************************************)
EXTENDS SessionVaultGrants

(* ----------------------- identifiers of sessions ----------------------- *)

(* Identifiers are drawn once: no two rows, no terminated session and no   *)
(* replaced generation share one with a row.                               *)
IdentifiersFresh ==
  /\ \A k \in Keys : row[k] # Nil => row[k].ID < nextUUID /\ row[k].CallbackID < nextUUID
  /\ \A j, k \in Keys : row[j] # Nil /\ row[k] # Nil /\ row[j].ID = row[k].ID => j = k
  /\ \A i \in gone : i < nextUUID
  /\ \A a \in applied : a.base # Nil =>
       a.base < nextUUID /\ (row[a.key] # Nil => row[a.key].CallbackID # a.base)

(* A callback acts for a state token that was issued. *)
ClaimsIssued ==
  /\ \A c \in claims : c.SessionID = Nil => c.SessionCallbackID = Nil
  /\ \A p \in Procs : IsCallback(op[p]) => op[p].claim \in claims

Inv2 == IdentifiersFresh /\ ClaimsIssued /\ NoResurrection /\ FirstCompletionWins

IdentitiesKept ==
  /\ \A k \in Keys : row[k] = Nil <=> row'[k] = Nil
  /\ \A k \in Keys : row[k] # Nil =>
       row'[k].ID = row[k].ID /\ row'[k].CallbackID = row[k].CallbackID

LEMMA FrameInv2 ==
  ASSUME Inv1, Inv2, CallbacksKept, IdentitiesKept, UNCHANGED <<nextUUID, gone, applied, claims>>
  PROVE  Inv2'
  <1>1. \A a \in applied : a.key \in Keys
    BY Zenon DEF Inv1, TypeInvariant
  <1>2. IdentifiersFresh'
    BY <1>1, Zenon DEF Inv2, IdentifiersFresh, IdentitiesKept
  <1>3. ClaimsIssued'
    BY Zenon DEF Inv2, ClaimsIssued, CallbacksKept
  <1>4. NoResurrection'
    BY Zenon DEF Inv2, NoResurrection, IdentitiesKept
  <1>5. FirstCompletionWins'
    BY Zenon DEF Inv2, FirstCompletionWins
  <1> QED BY <1>2, <1>3, <1>4, <1>5, Zenon DEF Inv2

LEMMA SameRows == ASSUME row' = row PROVE IdentitiesKept
  BY Zenon DEF IdentitiesKept

LEMMA InitInv2 == Init => Inv2
  BY DEF Init, Inv2, IdentifiersFresh, ClaimsIssued, NoResurrection, FirstCompletionWins, IsCallback, Idle, Start

LEMMA InitiateInv2 ==
  ASSUME Inv1, Inv2, NEW k \in Keys, InitiateOAuth2Flow(k) PROVE Inv2'
  <1>1. IdentifiersFresh' /\ NoResurrection' /\ FirstCompletionWins'
    BY Zenon DEF InitiateOAuth2Flow, Inv2, IdentifiersFresh, NoResurrection, FirstCompletionWins, history
  <1>2. ClaimsIssued'
    <2>1. row[k] # Nil => row[k].ID \in Nat
      BY Zenon DEF Inv1, TypeInvariant, Session, OrNil
    <2> DEFINE c == [key |-> k,
             SessionID |-> IF row[k] = Nil THEN Nil ELSE row[k].ID,
             SessionCallbackID |-> IF row[k] = Nil THEN Nil ELSE row[k].CallbackID,
             UpstreamClientID |-> clientID[k]]
    <2>2. claims' = claims \cup {c} /\ op' = op
      BY Zenon DEF InitiateOAuth2Flow
    <2>3. c.SessionID = Nil => c.SessionCallbackID = Nil
      BY <2>1, VaultAssumption, Zenon
    <2> HIDE DEF c
    <2> QED BY <2>2, <2>3, Zenon DEF Inv2, ClaimsIssued
  <1> QED BY <1>1, <1>2, Zenon DEF Inv2

LEMMA HandleCallbackInv2 ==
  ASSUME Inv1, Inv2, NEW p \in Procs, NEW c \in claims, HandleCallback(p, c) PROVE Inv2'
  <1>1. UNCHANGED <<row, nextUUID, claims, gone, applied>>
    BY Zenon DEF HandleCallback, history
  <1>2. IdentifiersFresh' /\ NoResurrection' /\ FirstCompletionWins'
    BY <1>1, Zenon DEF Inv2, IdentifiersFresh, NoResurrection, FirstCompletionWins
  <1>3. PICK e, r : op' = [op EXCEPT ![p] = [Start(c.key) EXCEPT
                !.pc = "slot", !.trigger = "callback", !.claim = c,
                !.access = [grant |-> nextGrant, serial |-> 0],
                !.refresh = r, !.expiresAt = e]]
    BY Zenon DEF HandleCallback
  <1>4. op'[p].claim = c /\ \A q \in Procs \ {p} : op'[q] = op[q]
    BY <1>3, Zenon DEF Start, Inv1, TypeInvariant
  <1>5. ClaimsIssued'
    BY <1>1, <1>4, Zenon DEF Inv2, ClaimsIssued, IsCallback
  <1> QED BY <1>2, <1>5, Zenon DEF Inv2

(* The new generation carries a fresh identifier, so the one it replaces   *)
(* can never be matched again.                                             *)
LEMMA StoreCallbackInv2 ==
  ASSUME Inv1, Inv2, NEW p \in Procs, StoreCallback(p) PROVE Inv2'
  <1> DEFINE k == op[p].key
             claim == op[p].claim
  <1>1. /\ op[p].pc = "held" /\ op[p].trigger = "callback" /\ k \in Keys /\ row[k] \in Session
        /\ claim \in Claims /\ claim.key = k /\ claim \in claims
        /\ UNCHANGED <<claims, gone>> /\ Return(p)
    BY DEF StoreCallback, At, Inv1, Inv2, TypeInvariant, OpsWellFormed, ClaimsIssued, IsCallback,
           LockDiscipline, Locked, OrNil
  <1>2. CallbacksKept
    BY <1>1, ReturnKeeps, Zenon DEF Inv1, TypeInvariant
  <1>3. CASE UNCHANGED <<row, nextUUID, applied>>
    BY <1>1, <1>2, <1>3, SameRows, FrameInv2, Zenon
  <1>4. CASE /\ StartedFrom(claim, row[k])
             /\ row' = [row EXCEPT ![k] = NewGeneration(row[k], op[p])]
             /\ nextUUID' = nextUUID + 1
             /\ applied' = applied \cup {Completion(claim, row[k].ID)}
    <2> DEFINE new == Completion(claim, row[k].ID)
    <2>1. /\ row[k].ID \in Nat /\ row[k].CallbackID \in Nat /\ nextUUID \in Nat
          /\ row[k].ID = claim.SessionID /\ row[k].CallbackID = claim.SessionCallbackID
      BY <1>1, <1>4, Zenon DEF StartedFrom, Session, Inv1, TypeInvariant
    <2>2. /\ row'[k] # Nil /\ row'[k].ID = row[k].ID /\ row'[k].CallbackID = nextUUID
          /\ \A j \in Keys \ {k} : row'[j] = row[j]
      <3>1. NewGeneration(row[k], op[p]) \in Session
        BY <1>1, <2>1, NewGenerationType, Zenon DEF Inv1, TypeInvariant, OpsWellFormed
      <3>2. /\ NewGeneration(row[k], op[p]).ID = row[k].ID
            /\ NewGeneration(row[k], op[p]).CallbackID = nextUUID
        BY <1>1, Zenon DEF NewGeneration, Session
      <3> QED BY <1>1, <1>4, <3>1, <3>2, NilAssumption, Zenon DEF Inv1, TypeInvariant
    <2>3. /\ new.key = k /\ new.base = row[k].CallbackID /\ new.session = row[k].ID
          /\ new.written = row[k].ID
      BY <1>1, <2>1, Zenon DEF Completion
    <2> HIDE DEF new
    <2>4. \A a \in applied : a.base # Nil => a.base \in Nat
      BY Zenon DEF Inv1, TypeInvariant, OrNil
    <2>5. row[k] # Nil
      BY <1>1, Zenon DEF Inv1, LockDiscipline, Locked
    <2>6. IdentifiersFresh'
      <3>1. \A j \in Keys : row[j] # Nil => row[j].ID \in Nat /\ row[j].CallbackID \in Nat
        BY Zenon DEF Inv1, TypeInvariant, Session, OrNil
      <3>2. \A j \in Keys : row'[j] # Nil =>
              row[j] # Nil /\ row'[j].ID = row[j].ID /\ row'[j].ID < nextUUID'
              /\ row'[j].CallbackID < nextUUID'
        BY <1>4, <2>1, <2>2, <2>5, <3>1 DEF Inv2, IdentifiersFresh
      <3>3. \A i \in gone' : i < nextUUID'
        BY <1>1, <1>4, <2>1 DEF Inv1, TypeInvariant, Inv2, IdentifiersFresh
      <3>4. \A a \in applied' : a.base # Nil => a.base < nextUUID'
        <4>1. row[k].CallbackID < nextUUID /\ \A a \in applied : a.base # Nil => a.base < nextUUID
          BY <1>1, <2>5, Zenon DEF Inv2, IdentifiersFresh
        <4>2. applied' = applied \cup {new}
          BY <1>4, Zenon DEF new
        <4> QED BY <1>4, <2>1, <2>3, <2>4, <4>1, <4>2
      <3>5. \A a \in applied' : a.base # Nil /\ row'[a.key] # Nil => row'[a.key].CallbackID # a.base
        BY <1>1, <1>4, <2>1, <2>2, <2>3, <2>4, <2>5 DEF new, Inv1, TypeInvariant, Inv2, IdentifiersFresh
      <3> QED BY <3>2, <3>3, <3>4, <3>5, Zenon DEF Inv2, IdentifiersFresh
    <2>7. ClaimsIssued'
      BY <1>1, <1>2, ZenonT(40) DEF Inv2, ClaimsIssued, CallbacksKept
    <2>8. NoResurrection'
      BY <1>1, <1>4, <2>1, <2>2, <2>3, <2>5 DEF new, Inv2, NoResurrection
    <2>9. FirstCompletionWins'
      BY <1>1, <1>4, <2>1, <2>3, <2>5 DEF new, Inv2, FirstCompletionWins, IdentifiersFresh
    <2> QED BY <2>6, <2>7, <2>8, <2>9, Zenon DEF Inv2
  <1> QED BY <1>3, <1>4, Zenon DEF StoreCallback

LEMMA CreateIfAbsentInv2 ==
  ASSUME Inv1, Inv2, NEW p \in Procs, CreateIfAbsent(p) PROVE Inv2'
  <1> DEFINE k == op[p].key
             claim == op[p].claim
  <1>1. /\ op[p].pc = "insert" /\ op[p].trigger = "callback" /\ k \in Keys /\ op[p] \in Op
        /\ claim \in Claims /\ claim.key = k /\ claim \in claims /\ op[p].access \in Token
        /\ claim.SessionID = Nil /\ claim.SessionCallbackID = Nil
        /\ UNCHANGED <<claims, gone>> /\ Return(p)
    BY Zenon DEF CreateIfAbsent, At, Inv1, Inv2, TypeInvariant, OpsWellFormed, ClaimsIssued, IsCallback
  <1>2. CallbacksKept
    BY <1>1, ReturnKeeps, Zenon DEF Inv1, TypeInvariant
  <1>3. CASE UNCHANGED <<row, nextUUID, applied>>
    BY <1>1, <1>2, <1>3, SameRows, FrameInv2, Zenon
  <1>4. CASE /\ row[k] = Nil
             /\ row' = [row EXCEPT ![k] = NewSession(op[p])]
             /\ nextUUID' = nextUUID + 1
             /\ applied' = applied \cup {Completion(claim, nextUUID)}
    <2> DEFINE new == Completion(claim, nextUUID)
    <2>1. nextUUID \in Nat
      BY Zenon DEF Inv1, TypeInvariant
    <2>2. /\ row'[k] # Nil /\ row'[k].ID = nextUUID /\ row'[k].CallbackID = nextUUID
          /\ \A j \in Keys \ {k} : row'[j] = row[j]
      <3>1. NewSession(op[p]) \in Session
        BY <1>1, <2>1, NewSessionType, Zenon
      <3>2. NewSession(op[p]).ID = nextUUID /\ NewSession(op[p]).CallbackID = nextUUID
        BY Zenon DEF NewSession
      <3> QED BY <1>1, <1>4, <3>1, <3>2, NilAssumption, Zenon DEF Inv1, TypeInvariant
    <2>3. new.base = Nil /\ new.session = Nil
      BY <1>1, Zenon DEF Completion
    <2>4. applied' = applied \cup {new}
      BY <1>4, Zenon
    <2> HIDE DEF new
    <2>5. \A j \in Keys : row[j] # Nil => row[j].ID \in Nat /\ row[j].CallbackID \in Nat
      BY Zenon DEF Inv1, TypeInvariant, Session, OrNil
    <2>6. IdentifiersFresh'
      <3>1. \A j \in Keys : row'[j] # Nil =>
              /\ row'[j].ID < nextUUID' /\ row'[j].CallbackID < nextUUID'
              /\ j # k => row'[j] = row[j] /\ row'[j].ID # nextUUID
        BY <1>4, <2>1, <2>2, <2>5 DEF Inv2, IdentifiersFresh
      <3>2. \A i \in gone' : i < nextUUID'
        BY <1>1, <1>4, <2>1 DEF Inv1, TypeInvariant, Inv2, IdentifiersFresh
      <3>3. \A a \in applied : a.base # Nil => a.base \in Nat /\ a.key \in Keys
        BY Zenon DEF Inv1, TypeInvariant, OrNil
      <3>4. \A a \in applied' : a.base # Nil => a \in applied /\ a.base < nextUUID'
        BY <1>4, <2>1, <2>3, <2>4, <3>3 DEF Inv2, IdentifiersFresh
      <3>5. \A a \in applied : a.base # Nil /\ row'[a.key] # Nil => row'[a.key].CallbackID # a.base
        BY <2>1, <2>2, <3>3 DEF Inv2, IdentifiersFresh
      <3>6. \A i, j \in Keys : row'[i] # Nil /\ row'[j] # Nil /\ row'[i].ID = row'[j].ID => i = j
        BY <2>2, <3>1 DEF Inv2, IdentifiersFresh
      <3> QED BY <3>1, <3>2, <3>4, <3>5, <3>6, Zenon DEF IdentifiersFresh
    <2>7. ClaimsIssued'
      BY <1>1, <1>2, Zenon DEF Inv2, ClaimsIssued, CallbacksKept
    <2>8. NoResurrection'
      <3>1. \A i \in gone : i < nextUUID /\ i \in Nat
        BY Zenon DEF Inv1, TypeInvariant, Inv2, IdentifiersFresh
      <3>2. nextUUID \notin gone
        BY <2>1, <3>1
      <3> QED BY <1>1, <2>2, <2>3, <2>4, <3>2, Zenon DEF Inv2, NoResurrection
    <2>9. FirstCompletionWins'
      BY <2>3, <2>4, Zenon DEF Inv2, FirstCompletionWins
    <2> QED BY <2>6, <2>7, <2>8, <2>9, Zenon DEF Inv2
  <1> QED BY <1>3, <1>4, Zenon DEF CreateIfAbsent

LEMMA DeleteSessionInv2 ==
  ASSUME Inv1, Inv2, NEW p \in Procs, DeleteSession(p) PROVE Inv2'
  <1> DEFINE k == op[p].key
  <1>1. /\ k \in Keys /\ Return(p) /\ row' = [row EXCEPT ![k] = Nil]
        /\ UNCHANGED <<claims, nextUUID, applied>>
        /\ gone' = IF row[k] = Nil THEN gone ELSE gone \cup {row[k].ID}
    BY Zenon DEF DeleteSession, At, Inv1, TypeInvariant
  <1>2. CallbacksKept
    BY <1>1, ReturnKeeps, Zenon DEF Inv1, TypeInvariant
  <1>3. row'[k] = Nil /\ \A j \in Keys \ {k} : row'[j] = row[j]
    BY <1>1, Zenon DEF Inv1, TypeInvariant
  <1>4. IdentifiersFresh'
    BY <1>1, <1>3, ZenonT(40) DEF Inv1, TypeInvariant, Inv2, IdentifiersFresh
  <1>5. ClaimsIssued'
    BY <1>1, <1>2, Zenon DEF Inv2, ClaimsIssued, CallbacksKept
  <1>6. NoResurrection'
    BY <1>1, <1>3 DEF Inv2, NoResurrection, IdentifiersFresh
  <1>7. FirstCompletionWins'
    BY <1>1, Zenon DEF Inv2, FirstCompletionWins
  <1> QED BY <1>4, <1>5, <1>6, <1>7, Zenon DEF Inv2

LEMMA CommitKeepsIdentities ==
  ASSUME Inv1, NEW p \in Procs, CommitRefresh(p) \/ CommitRejection(p)
  PROVE  IdentitiesKept /\ UNCHANGED <<nextUUID, gone, applied, claims>>
  <1> DEFINE k == op[p].key
  <1>1. /\ k \in Keys /\ row[k] \in Session /\ row \in [Keys -> OrNil(Session)] /\ op[p] \in Op
        /\ UNCHANGED <<nextUUID, gone, applied, claims>>
    BY DEF CommitRefresh, CommitRejection, At, Inv1, TypeInvariant, LockDiscipline, Locked, OrNil, history
  <1>2. CASE CommitRefresh(p)
    <2>1. row' = [row EXCEPT ![k] = SetSessionTokens(row[k], p)] /\ op[p].access \in Token
      BY <1>2, Zenon DEF CommitRefresh, At, Inv1, OpsWellFormed
    <2>2. SetSessionTokens(row[k], p) \in Session
      BY <1>1, <2>1, SetSessionTokensType, Zenon
    <2>3. /\ SetSessionTokens(row[k], p).ID = row[k].ID
          /\ SetSessionTokens(row[k], p).CallbackID = row[k].CallbackID
      BY <1>1, Zenon DEF SetSessionTokens, Session
    <2> QED BY <1>1, <2>1, <2>2, <2>3, NilAssumption, Zenon DEF IdentitiesKept
  <1>3. CASE CommitRejection(p)
    <2>1. row' = [row EXCEPT ![k] = [row[k] EXCEPT !.rejected = TRUE]]
      BY <1>1, <1>3, Zenon DEF CommitRejection
    <2>2. /\ [row[k] EXCEPT !.rejected = TRUE] \in Session
          /\ [row[k] EXCEPT !.rejected = TRUE].ID = row[k].ID
          /\ [row[k] EXCEPT !.rejected = TRUE].CallbackID = row[k].CallbackID
      BY <1>1, Zenon DEF Session
    <2> QED BY <1>1, <2>1, <2>2, NilAssumption, Zenon DEF IdentitiesKept
  <1> QED BY <1>1, <1>2, <1>3, Zenon

LEMMA NextInv2 == Inv1 /\ Inv2 /\ [Next]_vars => Inv2'
  <1> SUFFICES ASSUME Inv1, Inv2, [Next]_vars PROVE Inv2'
    OBVIOUS
  <1>1. CASE \E k \in Keys : InitiateOAuth2Flow(k)
    BY <1>1, InitiateInv2, Zenon
  <1>2. ASSUME NEW p \in Procs, Begin(p) PROVE Inv2'
    <2>1. CASE \E c \in claims : HandleCallback(p, c)
      BY <2>1, HandleCallbackInv2, Zenon
    <2>2. ASSUME NEW k \in Keys,
                 \/ RefreshOnDemand(p, k) \/ ForceRefreshSession(p, k)
                 \/ RefreshInBackground(p, k) \/ RefreshInSweep(p, k) \/ TerminateSession(p, k)
          PROVE  Inv2'
      <3>1. UNCHANGED <<row, nextUUID, gone, applied, claims>>
        BY <2>2, Zenon DEF RefreshOnDemand, ForceRefreshSession, RefreshInBackground, RefreshInSweep,
                    TerminateSession, history
      <3> QED BY <2>2, <3>1, BeginKeepsCallbacks, SameRows, FrameInv2, Zenon
    <2> QED BY <1>2, <2>1, <2>2, Zenon DEF Begin
  <1>3. ASSUME NEW p \in Procs, Step(p) PROVE Inv2'
    <2>1. CASE StoreCallback(p) \/ CreateIfAbsent(p) \/ DeleteSession(p)
      BY <2>1, StoreCallbackInv2, CreateIfAbsentInv2, DeleteSessionInv2, Zenon
    <2>2. CASE CommitRefresh(p) \/ CommitRejection(p)
      BY <1>3, <2>2, CommitKeepsIdentities, StepKeepsCallbacks, FrameInv2, Zenon
    <2>3. CASE \/ AcquireSlot(p) \/ LockSession(p) \/ LockMissing(p) \/ SkipRefresh(p)
               \/ SendRefresh(p) \/ RetryRefresh(p) \/ FailRefresh(p) \/ Timeout(p)
      <3>1. UNCHANGED <<row, nextUUID, gone, applied, claims>>
        BY <2>3, Zenon DEF AcquireSlot, LockSession, LockMissing, SkipRefresh, SendRefresh, RetryRefresh,
                    FailRefresh, Timeout, history
      <3> QED BY <1>3, <3>1, StepKeepsCallbacks, SameRows, FrameInv2, Zenon
    <2> QED BY <1>3, <2>1, <2>2, <2>3, Zenon DEF Step
  <1>4. ASSUME NEW p \in Procs,
               ProviderRenews(p) \/ ProviderAnswerLost(p) \/ ProviderRefuses(p) \/ ProviderFails(p)
        PROVE Inv2'
    <2>1. UNCHANGED <<row, nextUUID, gone, applied, claims>>
      BY <1>4, Zenon DEF ProviderRenews, ProviderAnswerLost, ProviderRefuses, ProviderFails, history
    <2> QED BY <1>4, <2>1, ProviderKeepsCallbacks, SameRows, FrameInv2, Zenon
  <1>5. ASSUME NEW r \in Replicas, Crash(r) PROVE Inv2'
    <2>1. UNCHANGED <<row, nextUUID, gone, applied, claims>>
      BY <1>5, Zenon DEF Crash
    <2> QED BY <1>5, <2>1, CrashKeepsCallbacks, SameRows, FrameInv2, Zenon
  <1>6. CASE \/ \E t \in orphans : ProviderServesOrphan(t)
             \/ \E g \in Grants : ProviderRevokes(g)
             \/ \E k \in Keys, c \in Clients : RotateCredentials(k, c)
             \/ Tick
             \/ UNCHANGED vars
    <2>1. UNCHANGED <<row, op, nextUUID, gone, applied, claims>>
      BY <1>6, Zenon DEF ProviderServesOrphan, ProviderRevokes, RotateCredentials, Tick, vars, history
    <2>2. CallbacksKept
      BY <2>1, Zenon DEF CallbacksKept, IsCallback
    <2> QED BY <2>1, <2>2, SameRows, FrameInv2, Zenon
  <1> QED BY <1>1, <1>2, <1>3, <1>4, <1>5, <1>6, Zenon DEF Next, Provider

(* No refresh or reconnect brings a terminated session back, whatever it   *)
(* interleaves with: ErrSessionNotFound of createSession and the locked    *)
(* re-read of refreshLockedSession suffice.                                *)
THEOREM TerminationIsFinal == Spec => []NoResurrection
  <1>1. Init => Inv1 /\ Inv2
    BY InitInv1, InitInv2, Zenon
  <1>2. Inv1 /\ Inv2 /\ [Next]_vars => (Inv1 /\ Inv2)'
    BY NextInv1, NextInv2, Zenon
  <1>3. Inv1 /\ Inv2 => NoResurrection
    BY Zenon DEF Inv2
  <1> QED BY <1>1, <1>2, <1>3, PTL DEF Spec

(* Of the callbacks started from one generation of a session at most one   *)
(* is stored, however often a state token is presented.                    *)
THEOREM OneCompletionPerGeneration == Spec => []FirstCompletionWins
  <1>1. Init => Inv1 /\ Inv2
    BY InitInv1, InitInv2, Zenon
  <1>2. Inv1 /\ Inv2 /\ [Next]_vars => (Inv1 /\ Inv2)'
    BY NextInv1, NextInv2, Zenon
  <1>3. Inv1 /\ Inv2 => FirstCompletionWins
    BY Zenon DEF Inv2
  <1> QED BY <1>1, <1>2, <1>3, PTL DEF Spec

(* ---------------------- serial numbers of tokens ----------------------- *)

(* What a session s written to row k must satisfy. *)
WellWritten(k, s, p) ==
  /\ s # Nil /\ s.access.grant < nextGrant
  /\ \A j \in Keys \ {k} : row[j] # Nil => row[j].access.grant # s.access.grant
  /\ \A q \in Procs \ {p} : IsCallback(op[q]) => op[q].access.grant # s.access.grant
  /\ s.access.serial <= served[s.access.grant]
  /\ issuedTo[s.access.grant] = s.UpstreamClientID
  /\ s.refresh # Nil =>
       /\ s.refresh.grant = s.access.grant /\ s.refresh.serial <= served[s.refresh.grant]
       /\ s.refresh.serial = live[s.refresh.grant] \/ s.refresh.grant \in lost
  /\ s.rejected => s.refresh # Nil /\ ~Accepts(s.refresh)

(* An operation that writes row k and returns. *)
LEMMA WriteInv3 ==
  ASSUME Inv1, Inv3, NEW p \in Procs, NEW k \in Keys, Return(p),
         UNCHANGED <<served, live, issuedTo, revoked, nextGrant, lost, orphans>>,
         \A j \in Keys \ {k} : row'[j] = row[j],
         \A j \in Keys : holder[j] # p /\ holder[j] # Nil => holder'[j] = holder[j],
         \A q \in Procs \ {p} : Presenting(op[q]) => op[q].key # k,
         LosesRotation(p) => op[p].key = k,
         row'[k] # Nil => WellWritten(k, row'[k], p)
  PROVE  Inv3'
  <1>1. op'[p] = Idle /\ op'[p].pc = "idle" /\ \A q \in Procs \ {p} : op'[q] = op[q]
    BY IdleOp, Zenon DEF Return, Inv1, TypeInvariant
  <1>2. GrantsOwned'
    BY <1>1 DEF Inv3, GrantsOwned, IsCallback, WellWritten
  <1>3. \A q \in Procs : Presenting(op'[q]) =>
          /\ q # p /\ op'[q] = op[q] /\ op[q].key \in Keys \ {k} /\ row'[op[q].key] = row[op[q].key]
          /\ holder[op[q].key] = q /\ holder'[op[q].key] = q
    BY <1>1, TokenFacts, VaultAssumption DEF Presenting, Inv3, PresentedTokenIsStored, At
  <1>4. SerialsKnown'
    <2>1. \A j \in Keys : row'[j] # Nil =>
            /\ row'[j].access.serial <= served'[row'[j].access.grant]
            /\ row'[j].refresh # Nil => row'[j].refresh.serial <= served'[row'[j].refresh.grant]
      BY DEF Inv3, SerialsKnown, WellWritten
    <2> QED BY <1>1, <1>3, <2>1 DEF Inv3, SerialsKnown, Presenting, Accepts
  <1>5. CredentialsOfOneGrant'
    BY DEF Inv3, CredentialsOfOneGrant, WellWritten
  <1>6. PresentedTokenIsStored'
    BY <1>3 DEF Inv3, PresentedTokenIsStored, Presenting, At
  <1>7. StoredTokenIsLive'
    <2> SUFFICES ASSUME NEW j \in Keys \ {k}, row[j] # Nil, row[j].refresh # Nil,
                        row[j].refresh.serial # live[row[j].refresh.grant],
                        row[j].refresh.grant \notin lost
                 PROVE  \E q \in Procs : holder'[j] = q /\ LosesRotation(q)' /\ op'[q].key = j
      BY DEF StoredTokenIsLive, WellWritten
    <2>1. PICK q \in Procs : holder[j] = q /\ LosesRotation(q) /\ op[q].key = j
      BY Zenon DEF Inv3, StoredTokenIsLive
    <2>2. op'[q] = op[q] /\ holder'[j] = q
      BY <1>1, <2>1, VaultAssumption, Zenon
    <2> QED BY <2>1, <2>2, Zenon DEF LosesRotation, At
  <1>8. RejectedTokenIsDead'
    BY DEF Inv3, RejectedTokenIsDead, Accepts, WellWritten
  <1> QED BY <1>2, <1>4, <1>5, <1>6, <1>7, <1>8, Zenon DEF Inv3

LEMMA UnlockKeepsOthers ==
  ASSUME Inv1, NEW p \in Procs, Unlock(p) \/ holder' = holder
  PROVE  \A j \in Keys : holder[j] # p /\ holder[j] # Nil => holder'[j] = holder[j]
  BY Zenon DEF Unlock, Inv1, TypeInvariant

LEMMA HolderAlonePresents ==
  ASSUME Inv1, NEW p \in Procs, Locked(p)
  PROVE  \A q \in Procs \ {p} : Presenting(op[q]) => op[q].key # op[p].key
  BY DEF Inv1, LockDiscipline, Locked, Presenting

LEMMA CommitRefreshInv3 ==
  ASSUME Inv1, Inv3, NEW p \in Procs, CommitRefresh(p) PROVE Inv3'
  <1> DEFINE k == op[p].key
             s == row[k]
             new == SetSessionTokens(s, p)
             g == op[p].refresh.grant
  <1>1. /\ op[p].pc = "answered" /\ op[p].answer \in {"rotated", "renewed"} /\ k \in Keys
        /\ s \in Session /\ s # Nil /\ op[p] \in Op /\ op[p].access \in Token
        /\ row' = [row EXCEPT ![k] = new] /\ Unlock(p) /\ Return(p)
        /\ UNCHANGED <<served, live, issuedTo, revoked, nextGrant, lost, orphans>>
    BY DEF CommitRefresh, At, Inv1, TypeInvariant, OpsWellFormed, LockDiscipline, Locked, OrNil, provider, history
  <1>2. /\ new.access = op[p].access /\ new.UpstreamClientID = s.UpstreamClientID
        /\ new.refresh = (IF op[p].answer = "rotated" THEN op[p].access ELSE s.refresh)
        /\ new.rejected = (IF op[p].answer = "rotated" THEN FALSE ELSE s.rejected)
    BY <1>1, Zenon DEF SetSessionTokens, Session
  <1>3. new # Nil
    BY <1>1, SetSessionTokensType, NilAssumption, Zenon
  <1> HIDE DEF new
  <1>4. row'[k] = new /\ \A j \in Keys \ {k} : row'[j] = row[j]
    BY <1>1, Zenon DEF Inv1, TypeInvariant
  <1>5. /\ holder[k] = p /\ s.refresh = op[p].refresh /\ ~s.rejected /\ s.access.grant = g /\ s.refresh # Nil
        /\ op[p].refresh \in Token
    BY <1>1, TokenFacts, NilAssumption DEF Inv3, PresentedTokenIsStored, CredentialsOfOneGrant, At, Presenting
  <1>6. /\ op[p].access.grant = g /\ op[p].access.serial <= served[g]
        /\ op[p].answer = "rotated" => op[p].access.serial = live[g] \/ g \in lost
    BY <1>1, Zenon DEF Inv3, SerialsKnown
  <1>7. op[p].answer = "renewed" => s.refresh.serial = live[g] \/ g \in lost
    BY <1>1, <1>5, ZenonT(40) DEF Inv3, StoredTokenIsLive, LosesRotation
  <1>8. /\ s.access.grant < nextGrant /\ issuedTo[g] = s.UpstreamClientID
        /\ s.refresh.serial <= served[g]
        /\ \A j \in Keys \ {k} : row[j] # Nil => row[j].access.grant # g
        /\ \A q \in Procs \ {p} : IsCallback(op[q]) => op[q].access.grant # g
    BY <1>1, <1>5 DEF Inv3, GrantsOwned, CredentialsOfOneGrant, SerialsKnown
  <1>9. WellWritten(k, new, p)
    BY <1>1, <1>2, <1>3, <1>5, <1>6, <1>7, <1>8, Zenon DEF WellWritten
  <1>10. \A j \in Keys : holder[j] # p /\ holder[j] # Nil => holder'[j] = holder[j]
    BY <1>1, UnlockKeepsOthers, Zenon
  <1>11. \A q \in Procs \ {p} : Presenting(op[q]) => op[q].key # k
    BY <1>1, HolderAlonePresents, Zenon DEF Locked
  <1> QED BY <1>1, <1>4, <1>9, <1>10, <1>11, WriteInv3, Zenon

LEMMA CommitRejectionInv3 ==
  ASSUME Inv1, Inv3, NEW p \in Procs, CommitRejection(p) PROVE Inv3'
  <1> DEFINE k == op[p].key
             s == row[k]
             new == [s EXCEPT !.rejected = TRUE]
             g == op[p].refresh.grant
  <1>1. /\ op[p].pc = "answered" /\ op[p].answer = "invalid_grant" /\ k \in Keys
        /\ s \in Session /\ s # Nil /\ Unlock(p) /\ Return(p)
        /\ row' = [row EXCEPT ![k] = new]
        /\ UNCHANGED <<served, live, issuedTo, revoked, nextGrant, lost, orphans>>
    BY DEF CommitRejection, IsRejection, At, Inv1, TypeInvariant, LockDiscipline, Locked, OrNil, provider, history
  <1>2. /\ new.access = s.access /\ new.UpstreamClientID = s.UpstreamClientID
        /\ new.refresh = s.refresh /\ new \in Session
    BY <1>1, Zenon DEF Session
  <1>3. new # Nil
    BY <1>2, NilAssumption, Zenon
  <1> HIDE DEF new
  <1>4. row'[k] = new /\ \A j \in Keys \ {k} : row'[j] = row[j]
    BY <1>1, Zenon DEF Inv1, TypeInvariant
  <1>5. /\ holder[k] = p /\ s.refresh = op[p].refresh /\ s.access.grant = g /\ s.refresh # Nil
        /\ ~Accepts(op[p].refresh)
    BY <1>1, TokenFacts, NilAssumption
       DEF Inv3, PresentedTokenIsStored, CredentialsOfOneGrant, SerialsKnown, At, Presenting
  <1>6. s.refresh.serial = live[g] \/ g \in lost
    BY <1>1, <1>5, ZenonT(40) DEF Inv3, StoredTokenIsLive, LosesRotation
  <1>7. /\ s.access.grant < nextGrant /\ issuedTo[g] = s.UpstreamClientID
        /\ s.access.serial <= served[g] /\ s.refresh.serial <= served[g]
        /\ \A j \in Keys \ {k} : row[j] # Nil => row[j].access.grant # g
        /\ \A q \in Procs \ {p} : IsCallback(op[q]) => op[q].access.grant # g
    BY <1>1, <1>5 DEF Inv3, GrantsOwned, CredentialsOfOneGrant, SerialsKnown
  <1>8. WellWritten(k, new, p)
    BY <1>2, <1>3, <1>5, <1>6, <1>7, Zenon DEF WellWritten
  <1>9. \A j \in Keys : holder[j] # p /\ holder[j] # Nil => holder'[j] = holder[j]
    BY <1>1, UnlockKeepsOthers, Zenon
  <1>10. \A q \in Procs \ {p} : Presenting(op[q]) => op[q].key # k
    BY <1>1, HolderAlonePresents, Zenon DEF Locked
  <1> QED BY <1>1, <1>4, <1>8, <1>9, <1>10, WriteInv3, Zenon

(* A callback's tokens may be written: nobody else has its grant. *)
LEMMA CallbackWellWritten ==
  ASSUME Inv1, Inv3, NEW p \in Procs, IsCallback(op[p]), NEW k \in Keys, NEW s \in Session,
         s.access = op[p].access, s.refresh = op[p].refresh, ~s.rejected,
         s.UpstreamClientID = op[p].claim.UpstreamClientID
  PROVE  WellWritten(k, s, p)
  <1>1. op[p].access.grant \in Grants /\ op[p].access.serial \in Nat
    BY TokenFacts, Zenon
  <1>2. /\ op[p].access.grant < nextGrant
        /\ op[p].access.serial = 0 /\ live[op[p].access.grant] = 0
        /\ op[p].refresh # Nil => op[p].refresh = op[p].access
        /\ issuedTo[op[p].access.grant] = op[p].claim.UpstreamClientID
        /\ \A j \in Keys : row[j] # Nil => row[j].access.grant # op[p].access.grant
        /\ \A q \in Procs : IsCallback(op[q]) /\ op[q].access.grant = op[p].access.grant => q = p
    BY Zenon DEF Inv3, GrantsOwned
  <1>3. 0 <= served[op[p].access.grant]
    BY <1>1 DEF Inv1, TypeInvariant
  <1> QED BY <1>1, <1>2, <1>3, NilAssumption, Zenon DEF WellWritten

LEMMA StoreCallbackInv3 ==
  ASSUME Inv1, Inv3, NEW p \in Procs, StoreCallback(p) PROVE Inv3'
  <1> DEFINE k == op[p].key
             new == NewGeneration(row[k], op[p])
  <1>1. /\ op[p].pc = "held" /\ op[p].trigger = "callback" /\ k \in Keys /\ op[p] \in Op
        /\ op[p].claim \in Claims /\ op[p].access \in Token /\ row[k] \in Session
        /\ Unlock(p) /\ Return(p) /\ nextUUID \in Nat
        /\ UNCHANGED <<served, live, issuedTo, revoked, nextGrant, lost, orphans>>
    BY DEF StoreCallback, At, Inv1, TypeInvariant, OpsWellFormed, LockDiscipline, Locked, OrNil, provider
  <1>2. CASE row' = row
    <2>1. CallbacksKept
      BY StepKeepsCallbacks, Zenon DEF Step
    <2>2. PresentersKept /\ RotationsAccounted
      BY <1>1, ReturnQuiet, Zenon DEF LosesRotation, At
    <2> QED BY <1>1, <1>2, <2>1, <2>2, FrameInv3, Zenon
  <1>3. CASE row' = [row EXCEPT ![k] = new]
    <2>1. /\ new \in Session
          /\ new.access = op[p].access /\ new.refresh = op[p].refresh /\ new.rejected = FALSE
          /\ new.UpstreamClientID = op[p].claim.UpstreamClientID
      <3>1. new \in Session
        BY <1>1, NewGenerationType, Zenon
      <3> QED BY <1>1, <3>1, Zenon DEF NewGeneration, Session
    <2> HIDE DEF new
    <2>2. WellWritten(k, new, p)
      BY <1>1, <2>1, CallbackWellWritten, Zenon DEF IsCallback
    <2>3. row'[k] = new /\ \A j \in Keys \ {k} : row'[j] = row[j]
      BY <1>1, <1>3, Zenon DEF Inv1, TypeInvariant
    <2>4. \A j \in Keys : holder[j] # p /\ holder[j] # Nil => holder'[j] = holder[j]
      BY <1>1, UnlockKeepsOthers, Zenon
    <2>5. \A q \in Procs \ {p} : Presenting(op[q]) => op[q].key # k
      BY <1>1, HolderAlonePresents, Zenon DEF Locked
    <2> QED BY <1>1, <2>2, <2>3, <2>4, <2>5, WriteInv3, Zenon
  <1> QED BY <1>2, <1>3, Zenon DEF StoreCallback

LEMMA CreateIfAbsentInv3 ==
  ASSUME Inv1, Inv3, NEW p \in Procs, CreateIfAbsent(p) PROVE Inv3'
  <1> DEFINE k == op[p].key
             new == NewSession(op[p])
  <1>1. /\ op[p].pc = "insert" /\ op[p].trigger = "callback" /\ k \in Keys /\ op[p] \in Op
        /\ op[p].claim \in Claims /\ op[p].access \in Token /\ nextUUID \in Nat
        /\ holder' = holder /\ Return(p)
        /\ UNCHANGED <<served, live, issuedTo, revoked, nextGrant, lost, orphans>>
    BY Zenon DEF CreateIfAbsent, At, Inv1, TypeInvariant, OpsWellFormed, provider
  <1>2. CASE row' = row
    <2>1. CallbacksKept
      BY StepKeepsCallbacks, Zenon DEF Step
    <2>2. PresentersKept /\ RotationsAccounted
      BY <1>1, ReturnQuiet, Zenon DEF LosesRotation, At
    <2> QED BY <1>1, <1>2, <2>1, <2>2, FrameInv3, Zenon
  <1>3. CASE row[k] = Nil /\ row' = [row EXCEPT ![k] = new]
    <2>1. /\ new \in Session
          /\ new.access = op[p].access /\ new.refresh = op[p].refresh /\ new.rejected = FALSE
          /\ new.UpstreamClientID = op[p].claim.UpstreamClientID
      BY <1>1, NewSessionType, Zenon DEF NewSession
    <2> HIDE DEF new
    <2>2. WellWritten(k, new, p)
      BY <1>1, <2>1, CallbackWellWritten, Zenon DEF IsCallback
    <2>3. row'[k] = new /\ \A j \in Keys \ {k} : row'[j] = row[j]
      BY <1>1, <1>3, Zenon DEF Inv1, TypeInvariant
    <2>4. \A q \in Procs \ {p} : Presenting(op[q]) => op[q].key # k
      BY <1>3, Zenon DEF Inv1, LockDiscipline, Locked, Presenting
    <2> QED BY <1>1, <2>2, <2>3, <2>4, WriteInv3, Zenon DEF LosesRotation, At
  <1> QED BY <1>2, <1>3, Zenon DEF CreateIfAbsent

LEMMA DeleteSessionInv3 ==
  ASSUME Inv1, Inv3, NEW p \in Procs, DeleteSession(p) PROVE Inv3'
  <1> DEFINE k == op[p].key
  <1>1. /\ op[p].pc = "delete" /\ k \in Keys /\ holder[k] = Nil /\ row' = [row EXCEPT ![k] = Nil]
        /\ holder' = holder /\ Return(p)
        /\ UNCHANGED <<served, live, issuedTo, revoked, nextGrant, lost, orphans>>
    BY Zenon DEF DeleteSession, At, Inv1, TypeInvariant, provider
  <1>2. row'[k] = Nil /\ \A j \in Keys \ {k} : row'[j] = row[j]
    BY <1>1, Zenon DEF Inv1, TypeInvariant
  <1>3. \A q \in Procs \ {p} : Presenting(op[q]) => op[q].key # k
    BY <1>1, VaultAssumption DEF Inv1, LockDiscipline, Locked, Presenting
  <1> QED BY <1>1, <1>2, <1>3, WriteInv3, Zenon DEF LosesRotation, At

LEMMA NextInv3 == Inv1 /\ Inv3 /\ [Next]_vars => Inv3'
  <1> SUFFICES ASSUME Inv1, Inv3, [Next]_vars PROVE Inv3'
    OBVIOUS
  <1>1. ASSUME NEW p \in Procs, Begin(p) PROVE Inv3'
    BY <1>1, HandleCallbackInv3, BeginInv3, Zenon DEF Begin
  <1>2. ASSUME NEW p \in Procs, Step(p) PROVE Inv3'
    BY <1>2, QuietStepsInv3, StoreCallbackInv3, CreateIfAbsentInv3, DeleteSessionInv3, SendRefreshInv3,
       RetryRefreshInv3, CommitRefreshInv3, CommitRejectionInv3, Zenon DEF Step
  <1>3. ASSUME NEW p \in Procs,
               ProviderRenews(p) \/ ProviderAnswerLost(p) \/ ProviderRefuses(p) \/ ProviderFails(p)
        PROVE  Inv3'
    BY <1>3, ProviderRenewsInv3, ProviderAnswerLostInv3, EmptyAnswerInv3, Zenon
  <1>4. CASE \E r \in Replicas : Crash(r)
    BY <1>4, CrashInv3, Zenon
  <1> QED BY <1>1, <1>2, <1>3, <1>4, AsideInv3, Zenon DEF Next, Provider

LEMMA GrantsInductive == Spec => [](Inv1 /\ Inv2 /\ Inv3)
  <1>1. Init => Inv1 /\ Inv2 /\ Inv3
    BY InitInv1, InitInv2, InitInv3, Zenon
  <1>2. Inv1 /\ Inv2 /\ Inv3 /\ [Next]_vars => (Inv1 /\ Inv2 /\ Inv3)'
    BY NextInv1, NextInv2, NextInv3, Zenon
  <1> QED BY <1>1, <1>2, PTL DEF Spec

(* Whatever reconnects, refreshes and registrations interleave, the two    *)
(* credentials createSession and setSessionTokens leave in a row belong to *)
(* one grant, issued to the client the row records.                        *)
THEOREM CredentialsNeverMixed == Spec => []CredentialsOfOneGrant
  <1>1. Inv3 => CredentialsOfOneGrant
    BY Zenon DEF Inv3
  <1> QED BY <1>1, GrantsInductive, PTL

(* A refresh request carries the token its row stores, under the lock of   *)
(* refreshLockedSession, from the client the grant was issued to.          *)
THEOREM RefreshPresentsStoredToken == Spec => []PresentedTokenIsStored
  <1>1. Inv3 => PresentedTokenIsStored
    BY Zenon DEF Inv3
  <1> QED BY <1>1, GrantsInductive, PTL

(* A row never keeps a refresh token that a concurrent refresh rotated     *)
(* away; only an answer that never reached the table can leave it behind.  *)
THEOREM RotationsAreKept == Spec => []StoredTokenIsLive
  <1>1. Inv3 => StoredTokenIsLive
    BY Zenon DEF Inv3
  <1> QED BY <1>1, GrantsInductive, PTL

(* The rejection refreshLockedSession records is about the stored token,   *)
(* and that token is dead at the provider for good.                        *)
THEOREM RejectionsAreTrue == Spec => []RejectedTokenIsDead
  <1>1. Inv3 => RejectedTokenIsDead
    BY Zenon DEF Inv3
  <1> QED BY <1>1, GrantsInductive, PTL

(* What RefreshesOnlyAdvance asks of one step. *)
Advances ==
  \A k \in Keys :
    row[k] # Nil /\ row'[k] # Nil /\ row'[k].CallbackID = row[k].CallbackID =>
      /\ row'[k].access.grant = row[k].access.grant
      /\ row'[k].access.serial >= row[k].access.serial
      /\ row[k].rejected => row'[k] = row[k]

LEMMA SameRowsAdvance == ASSUME Inv1, row' = row PROVE Advances
  <1>1. \A k \in Keys : row[k] # Nil => row[k].access.serial \in Nat
    BY TokenFacts, Zenon
  <1> QED BY <1>1 DEF Advances

LEMMA OneRowAdvances ==
  ASSUME Inv1, NEW k \in Keys, \A j \in Keys \ {k} : row'[j] = row[j],
         row[k] # Nil /\ row'[k] # Nil /\ row'[k].CallbackID = row[k].CallbackID =>
           /\ row'[k].access.grant = row[k].access.grant
           /\ row'[k].access.serial >= row[k].access.serial
           /\ ~row[k].rejected
  PROVE  Advances
  <1>1. \A j \in Keys : row[j] # Nil => row[j].access.serial \in Nat
    BY TokenFacts, Zenon
  <1> QED BY <1>1 DEF Advances

LEMMA StepAdvances ==
  ASSUME Inv1, Inv2, Inv3, NEW p \in Procs, Step(p) PROVE Advances
  <1> DEFINE k == op[p].key
  <1>1. CASE CommitRefresh(p)
    <2>1. /\ op[p].pc = "answered" /\ op[p].answer \in {"rotated", "renewed"} /\ k \in Keys
          /\ row[k] \in Session /\ op[p].access \in Token
          /\ row' = [row EXCEPT ![k] = SetSessionTokens(row[k], p)]
      BY <1>1 DEF CommitRefresh, At, Inv1, TypeInvariant, OpsWellFormed, LockDiscipline, Locked, OrNil
    <2>2. SetSessionTokens(row[k], p).access = op[p].access
      BY <2>1, Zenon DEF SetSessionTokens, Session
    <2>3. row'[k].access = op[p].access /\ \A j \in Keys \ {k} : row'[j] = row[j]
      BY <2>1, <2>2, Zenon DEF Inv1, TypeInvariant
    <2>4. /\ row[k].refresh = op[p].refresh /\ ~row[k].rejected /\ row[k].access.grant = op[p].refresh.grant
      BY <2>1, TokenFacts, NilAssumption DEF Inv3, PresentedTokenIsStored, CredentialsOfOneGrant, At, Presenting
    <2>5. op[p].access.grant = op[p].refresh.grant /\ row[k].access.serial <= op[p].access.serial
      BY <2>1, Zenon DEF Inv3, SerialsKnown
    <2>6. row[k].access.serial \in Nat /\ op[p].access.serial \in Nat
      BY <2>1, TokenFacts, NilAssumption, Zenon
    <2> QED BY <2>1, <2>3, <2>4, <2>5, <2>6, OneRowAdvances, Zenon
  <1>2. CASE CommitRejection(p)
    <2>1. /\ op[p].pc = "answered" /\ k \in Keys /\ row[k] \in Session
          /\ row' = [row EXCEPT ![k] = [row[k] EXCEPT !.rejected = TRUE]]
      BY <1>2 DEF CommitRejection, At, Inv1, TypeInvariant, LockDiscipline, Locked, OrNil
    <2>2. [row[k] EXCEPT !.rejected = TRUE].access = row[k].access
      BY <2>1, Zenon DEF Session
    <2>3. row'[k].access = row[k].access /\ \A j \in Keys \ {k} : row'[j] = row[j]
      BY <2>1, <2>2, Zenon DEF Inv1, TypeInvariant
    <2>4. ~row[k].rejected
      BY <2>1, Zenon DEF Inv3, PresentedTokenIsStored, At
    <2>5. row[k].access.serial \in Nat
      BY <2>1, TokenFacts, NilAssumption, Zenon
    <2> QED BY <2>1, <2>3, <2>4, <2>5, OneRowAdvances
  <1>3. CASE StoreCallback(p)
    <2>1. /\ k \in Keys /\ row[k] \in Session /\ row[k] # Nil /\ nextUUID \in Nat
      BY <1>3 DEF StoreCallback, At, Inv1, TypeInvariant, LockDiscipline, Locked, OrNil
    <2>2. CASE row' = row
      BY <2>2, SameRowsAdvance, Zenon
    <2>3. CASE row' = [row EXCEPT ![k] = NewGeneration(row[k], op[p])]
      <3>1. NewGeneration(row[k], op[p]).CallbackID = nextUUID
        BY <2>1, Zenon DEF NewGeneration, Session
      <3>2. row'[k].CallbackID = nextUUID /\ \A j \in Keys \ {k} : row'[j] = row[j]
        BY <2>1, <2>3, <3>1, Zenon DEF Inv1, TypeInvariant
      <3>3. row[k].CallbackID # nextUUID
        BY <2>1 DEF Inv2, IdentifiersFresh, Session
      <3> QED BY <2>1, <3>2, <3>3, OneRowAdvances, Zenon
    <2> QED BY <1>3, <2>2, <2>3, Zenon DEF StoreCallback
  <1>4. CASE CreateIfAbsent(p)
    <2>1. CASE row' = row
      BY <2>1, SameRowsAdvance, Zenon
    <2>2. CASE row[k] = Nil /\ row' = [row EXCEPT ![k] = NewSession(op[p])]
      <3>1. k \in Keys
        BY <1>4, Zenon DEF CreateIfAbsent, At, Inv1, TypeInvariant
      <3>2. \A j \in Keys \ {k} : row'[j] = row[j]
        BY <2>2, Zenon DEF Inv1, TypeInvariant
      <3> QED BY <2>2, <3>1, <3>2, OneRowAdvances, Zenon
    <2> QED BY <1>4, <2>1, <2>2, Zenon DEF CreateIfAbsent
  <1>5. CASE DeleteSession(p)
    <2>1. k \in Keys /\ row'[k] = Nil /\ \A j \in Keys \ {k} : row'[j] = row[j]
      BY <1>5, Zenon DEF DeleteSession, At, Inv1, TypeInvariant
    <2> QED BY <2>1, OneRowAdvances, Zenon
  <1>6. CASE \/ AcquireSlot(p) \/ LockSession(p) \/ LockMissing(p) \/ SkipRefresh(p)
             \/ SendRefresh(p) \/ RetryRefresh(p) \/ FailRefresh(p) \/ Timeout(p)
    <2>1. row' = row
      BY <1>6, Zenon DEF AcquireSlot, LockSession, LockMissing, SkipRefresh, SendRefresh, RetryRefresh,
                  FailRefresh, Timeout
    <2> QED BY <2>1, SameRowsAdvance, Zenon
  <1> QED BY <1>1, <1>2, <1>3, <1>4, <1>5, <1>6, Zenon DEF Step

LEMMA NextAdvances == Inv1 /\ Inv2 /\ Inv3 /\ [Next]_vars => [Advances]_vars
  <1> SUFFICES ASSUME Inv1, Inv2, Inv3, Next PROVE Advances
    OBVIOUS
  <1>1. ASSUME NEW p \in Procs, Begin(p) PROVE row' = row
    BY <1>1, Zenon DEF Begin, HandleCallback, RefreshOnDemand, ForceRefreshSession, RefreshInBackground,
                RefreshInSweep, TerminateSession
  <1>2. CASE Provider
    <2>1. row' = row
      BY <1>2, Zenon DEF Provider, ProviderRenews, ProviderAnswerLost, ProviderRefuses, ProviderFails,
                  ProviderServesOrphan, ProviderRevokes
    <2> QED BY <2>1, SameRowsAdvance, Zenon
  <1>3. CASE \/ \E k \in Keys : InitiateOAuth2Flow(k)
             \/ \E r \in Replicas : Crash(r)
             \/ \E k \in Keys, c \in Clients : RotateCredentials(k, c)
             \/ Tick
    <2>1. row' = row
      BY <1>3, Zenon DEF InitiateOAuth2Flow, Crash, RotateCredentials, Tick
    <2> QED BY <2>1, SameRowsAdvance, Zenon
  <1> QED BY <1>1, <1>2, <1>3, SameRowsAdvance, StepAdvances, Zenon DEF Next

(* Between two callbacks the refreshes of any replicas keep a row's grant, *)
(* only move it to newer access tokens and leave a rejected row alone.     *)
THEOREM RefreshesAdvance == Spec => RefreshesOnlyAdvance
  <1>1. [Advances]_vars => [\A k \in Keys :
          row[k] # Nil /\ row'[k] # Nil /\ row'[k].CallbackID = row[k].CallbackID =>
            /\ row'[k].access.grant = row[k].access.grant
            /\ row'[k].access.serial >= row[k].access.serial
            /\ row[k].rejected => row'[k] = row[k]]_vars
    BY Zenon DEF Advances
  <1> QED BY <1>1, NextAdvances, GrantsInductive, PTL DEF Spec, RefreshesOnlyAdvance

=============================================================================
