------------------------- MODULE SessionVaultProofs -------------------------
(***************************************************************************)
(* Proofs about SessionVault, for any set of sessions, goroutines and      *)
(* clients and any bounds.  The invariants are proved in layers, each      *)
(* resting on the ones before it: types and the lock discipline, then the  *)
(* identifiers, then the grants, then the serial numbers of tokens.        *)
(***************************************************************************)
EXTENDS SessionVault, TLAPS

(* ------------------- types and the lock discipline --------------------- *)

(* What the fields of an operation hold at each of its steps. *)
OpsWellFormed ==
  \A p \in Procs :
    /\ op[p].pc # "idle" /\ op[p].trigger = "callback" =>
         op[p].claim \in Claims /\ op[p].claim.key = op[p].key /\ op[p].access \in Token
    /\ op[p].pc \in {"sent", "answered"} =>
         op[p].trigger \in Triggers /\ op[p].refresh \in Token /\ op[p].client \in Clients
    /\ op[p].pc = "answered" /\ op[p].answer \in {"rotated", "renewed"} =>
         op[p].access \in Token
    /\ op[p].pc = "insert" => op[p].trigger = "callback" /\ op[p].claim.SessionID = Nil
    /\ op[p].pc # "idle" /\ op[p].trigger \in Triggers => op[p].client \in Clients
    /\ op[p].trigger = "sweep" => op[p].due \in Nat

(* A process in the locked callback is the holder of an existing row, and  *)
(* only such a process is.                                                 *)
LockDiscipline ==
  /\ \A p \in Procs : Locked(p) => holder[op[p].key] = p /\ row[op[p].key] # Nil
  /\ \A k \in Keys : holder[k] # Nil => Locked(holder[k]) /\ op[holder[k]].key = k

Inv1 == TypeInvariant /\ OpsWellFormed /\ LockDiscipline

USE VaultAssumption

LEMMA InitInv1 == Init => Inv1
  BY DEF Init, Inv1, TypeInvariant, OpsWellFormed, LockDiscipline, Locked, Idle, Start, Op,
         OrNil, Triggers, Answers, Grants

(* A record of a fresh operation has the type of operations. *)
LEMMA IdleOp == Idle \in Op /\ Idle.pc = "idle" /\ Idle.trigger = "on_demand"
  BY Zenon DEF Idle, Start, Op, OrNil, Triggers, Answers

LEMMA InitiateInv1 == ASSUME NEW k \in Keys, Inv1, InitiateOAuth2Flow(k) PROVE Inv1'
  BY DEF Inv1, InitiateOAuth2Flow, TypeInvariant, OpsWellFormed, LockDiscipline, Locked,
         provider, history, Claims, OrNil, Session

LEMMA ExpiriesType == ASSUME now \in Nat PROVE Expiries \subseteq OrNil(Nat)
  BY DEF Expiries, OrNil

(* How an update of one operation reads: the form every action's proof uses. *)
LEMMA OpUpdate ==
  ASSUME op \in [Procs -> Op], NEW p \in Procs, NEW o \in Op, op' = [op EXCEPT ![p] = o]
  PROVE  op' \in [Procs -> Op] /\ op'[p] = o /\ \A q \in Procs \ {p} : op'[q] = op[q]
  OBVIOUS

LEMMA HandleCallbackInv1 ==
  ASSUME NEW p \in Procs, NEW c, Inv1, HandleCallback(p, c) PROVE Inv1'
  <1> DEFINE new(r, e) == [Start(c.key) EXCEPT
                !.pc = "slot", !.trigger = "callback", !.claim = c,
                !.access = [grant |-> nextGrant, serial |-> 0],
                !.refresh = r, !.expiresAt = e]
  <1>1. c \in Claims /\ nextGrant \in Nat /\ nextGrant \in Grants
    BY DEF Inv1, TypeInvariant, HandleCallback, Grants
  <1>2. PICK e \in Expiries, r \in {Nil, [grant |-> nextGrant, serial |-> 0]} :
          op' = [op EXCEPT ![p] = new(r, e)]
    BY Zenon DEF HandleCallback
  <1>3. e \in OrNil(Nat) /\ r \in OrNil(Token) /\ c.key \in Keys /\ c.UpstreamClientID \in Clients
    BY <1>1, ExpiriesType DEF Inv1, TypeInvariant, OrNil, Token, Claims
  <1>4. new(r, e) \in Op /\ new(r, e).pc = "slot" /\ new(r, e).key = c.key
        /\ new(r, e).trigger = "callback" /\ new(r, e).claim = c /\ new(r, e).access \in Token
    BY <1>1, <1>3, Zenon DEF Start, Op, OrNil, Triggers, Answers, Token
  <1> HIDE DEF new
  <1>5. op' \in [Procs -> Op] /\ op'[p] = new(r, e) /\ \A q \in Procs \ {p} : op'[q] = op[q]
    BY <1>2, <1>4, OpUpdate, Zenon DEF Inv1, TypeInvariant
  <1>6. TypeInvariant'
    <2>1. /\ served' \in [Grants -> Nat] /\ live' \in [Grants -> Nat]
          /\ issuedTo' \in [Grants -> OrNil(Clients)]
      BY <1>1, <1>3, Zenon DEF Inv1, TypeInvariant, HandleCallback, OrNil
    <2>2. nextGrant' = nextGrant + 1
          /\ UNCHANGED <<row, holder, claims, clientID, now, nextUUID, revoked, orphans, history>>
      BY Zenon DEF HandleCallback
    <2> QED BY <1>1, <1>3, <1>4, <1>5, <2>1, <2>2 DEF Inv1, TypeInvariant, history
  <1>7. OpsWellFormed'
    BY <1>1, <1>4, <1>5 DEF Inv1, OpsWellFormed, Triggers
  <1>8. LockDiscipline'
    BY <1>4, <1>5 DEF Inv1, TypeInvariant, HandleCallback, LockDiscipline, Locked, IsIdle
  <1> QED BY <1>6, <1>7, <1>8, Zenon DEF Inv1

LEMMA StartRefreshInv1 ==
  ASSUME NEW p \in Procs, NEW k \in Keys, NEW trigger \in Triggers, NEW due \in OrNil(Nat),
         trigger = "sweep" => due \in Nat, Inv1, StartRefresh(p, k, trigger, due),
         UNCHANGED <<row, holder, claims, clientID, now, nextUUID, nextGrant, provider, history>>
  PROVE  Inv1'
  <1> DEFINE new == [Start(k) EXCEPT
              !.pc = "slot", !.trigger = trigger, !.due = due, !.client = clientID[k]]
  <1>1. new \in Op /\ new.pc = "slot" /\ new.key = k /\ new.trigger = trigger
        /\ new.client \in Clients /\ new.due = due
    BY Zenon DEF Start, Op, OrNil, Triggers, Answers, Inv1, TypeInvariant
  <1>2. op' = [op EXCEPT ![p] = new] /\ op[p].pc = "idle"
    BY Zenon DEF StartRefresh, IsIdle
  <1> HIDE DEF new
  <1>3. op' \in [Procs -> Op] /\ op'[p] = new /\ \A q \in Procs \ {p} : op'[q] = op[q]
    BY <1>1, <1>2, OpUpdate, Zenon DEF Inv1, TypeInvariant
  <1>4. TypeInvariant'
    BY <1>1, <1>3, Zenon DEF Inv1, TypeInvariant, provider, history
  <1>5. OpsWellFormed'
    BY <1>1, <1>3 DEF Inv1, OpsWellFormed, Triggers
  <1>6. LockDiscipline'
    BY <1>1, <1>2, <1>3 DEF Inv1, TypeInvariant, LockDiscipline, Locked
  <1> QED BY <1>4, <1>5, <1>6, Zenon DEF Inv1

LEMMA BeginRefreshInv1 ==
  ASSUME NEW p \in Procs, NEW k \in Keys, Inv1,
         \/ RefreshOnDemand(p, k) \/ ForceRefreshSession(p, k)
         \/ RefreshInBackground(p, k) \/ RefreshInSweep(p, k)
  PROVE  Inv1'
  <1>1. now + Lookahead \in Nat /\ Nil \in OrNil(Nat) /\ now + Lookahead \in OrNil(Nat)
    BY DEF Inv1, TypeInvariant, OrNil
  <1>2. CASE RefreshOnDemand(p, k)
    BY <1>1, <1>2, StartRefreshInv1, Zenon DEF RefreshOnDemand, Triggers
  <1>3. CASE ForceRefreshSession(p, k)
    BY <1>1, <1>3, StartRefreshInv1, Zenon DEF ForceRefreshSession, Triggers
  <1>4. CASE RefreshInBackground(p, k)
    BY <1>1, <1>4, StartRefreshInv1, Zenon DEF RefreshInBackground, Triggers
  <1>5. CASE RefreshInSweep(p, k)
    BY <1>1, <1>5, StartRefreshInv1, Zenon DEF RefreshInSweep, Triggers
  <1> QED BY <1>2, <1>3, <1>4, <1>5, Zenon

LEMMA TerminateInv1 ==
  ASSUME NEW p \in Procs, NEW k \in Keys, Inv1, TerminateSession(p, k) PROVE Inv1'
  <1> DEFINE new == [Start(k) EXCEPT !.pc = "delete", !.trigger = "terminate"]
  <1>1. new \in Op /\ new.pc = "delete" /\ new.key = k /\ new.trigger = "terminate"
    BY Zenon DEF Start, Op, OrNil, Triggers, Answers
  <1>2. op' = [op EXCEPT ![p] = new] /\ op[p].pc = "idle"
        /\ UNCHANGED <<row, holder, claims, clientID, now, nextUUID, nextGrant, provider, history>>
    BY Zenon DEF TerminateSession, IsIdle
  <1> HIDE DEF new
  <1>3. op' \in [Procs -> Op] /\ op'[p] = new /\ \A q \in Procs \ {p} : op'[q] = op[q]
    BY <1>1, <1>2, OpUpdate, Zenon DEF Inv1, TypeInvariant
  <1>4. TypeInvariant'
    BY <1>1, <1>2, <1>3, Zenon DEF Inv1, TypeInvariant, provider, history
  <1>5. OpsWellFormed'
    BY <1>1, <1>3 DEF Inv1, OpsWellFormed, Triggers
  <1>6. LockDiscipline'
    BY <1>1, <1>2, <1>3 DEF Inv1, TypeInvariant, LockDiscipline, Locked
  <1> QED BY <1>4, <1>5, <1>6, Zenon DEF Inv1

(* The effect of a step that only moves a process to another label. *)
LEMMA GotoUpdate ==
  ASSUME op \in [Procs -> Op], NEW p \in Procs, NEW label \in {"lock", "held", "insert"},
         op' = [op EXCEPT ![p].pc = label]
  PROVE  /\ op' \in [Procs -> Op]
         /\ \A q \in Procs \ {p} : op'[q] = op[q]
         /\ op'[p].pc = label /\ op'[p].key = op[p].key /\ op'[p].trigger = op[p].trigger
         /\ op'[p].claim = op[p].claim /\ op'[p].access = op[p].access
         /\ op'[p].refresh = op[p].refresh
         /\ op'[p].client = op[p].client /\ op'[p].due = op[p].due
  BY DEF Op

LEMMA AcquireSlotInv1 ==
  ASSUME NEW p \in Procs, Inv1, AcquireSlot(p) PROVE Inv1'
  <1>1. /\ op[p].pc = "slot" /\ op \in [Procs -> Op]
        /\ UNCHANGED <<row, holder, claims, clientID, now, nextUUID, nextGrant, provider, history>>
        /\ op' = [op EXCEPT ![p].pc = "lock"]
    BY Zenon DEF AcquireSlot, Goto, At, Inv1, TypeInvariant
  <1>2. /\ op' \in [Procs -> Op] /\ \A q \in Procs \ {p} : op'[q] = op[q]
        /\ op'[p].pc = "lock" /\ op'[p].key = op[p].key /\ op'[p].trigger = op[p].trigger
        /\ op'[p].claim = op[p].claim /\ op'[p].access = op[p].access
        /\ op'[p].client = op[p].client /\ op'[p].due = op[p].due
    BY <1>1, GotoUpdate, Zenon
  <1>4. TypeInvariant'
    BY <1>1, <1>2, Zenon DEF Inv1, TypeInvariant, provider, history
  <1>5. OpsWellFormed'
    BY <1>1, <1>2 DEF Inv1, OpsWellFormed, Triggers
  <1>6. LockDiscipline'
    BY <1>1, <1>2 DEF Inv1, TypeInvariant, LockDiscipline, Locked
  <1> QED BY <1>4, <1>5, <1>6, Zenon DEF Inv1

LEMMA LockSessionInv1 ==
  ASSUME NEW p \in Procs, Inv1, LockSession(p) PROVE Inv1'
  <1>1. /\ op[p].pc = "lock" /\ op \in [Procs -> Op] /\ op[p].key \in Keys
        /\ UNCHANGED <<row, claims, clientID, now, nextUUID, nextGrant, provider, history>>
        /\ holder[op[p].key] = Nil /\ row[op[p].key] # Nil
        /\ holder' = [holder EXCEPT ![op[p].key] = p]
        /\ op' = [op EXCEPT ![p].pc = "held"]
    BY Zenon DEF LockSession, Goto, At, Inv1, TypeInvariant
  <1>2. /\ op' \in [Procs -> Op] /\ \A q \in Procs \ {p} : op'[q] = op[q]
        /\ op'[p].pc = "held" /\ op'[p].key = op[p].key /\ op'[p].trigger = op[p].trigger
        /\ op'[p].claim = op[p].claim /\ op'[p].access = op[p].access
        /\ op'[p].client = op[p].client /\ op'[p].due = op[p].due
    BY <1>1, GotoUpdate, Zenon
  <1>4. TypeInvariant'
    BY <1>1, <1>2 DEF Inv1, TypeInvariant, provider, history, OrNil
  <1>5. OpsWellFormed'
    BY <1>1, <1>2 DEF Inv1, OpsWellFormed, Triggers
  <1>6. LockDiscipline'
    BY <1>1, <1>2 DEF Inv1, TypeInvariant, LockDiscipline, Locked
  <1> QED BY <1>4, <1>5, <1>6, Zenon DEF Inv1

LEMMA LockMissingInv1 ==
  ASSUME NEW p \in Procs, Inv1, LockMissing(p) PROVE Inv1'
  <1>1. /\ op[p].pc = "lock" /\ op \in [Procs -> Op]
        /\ UNCHANGED <<row, holder, claims, clientID, now, nextUUID, nextGrant, provider, history>>
    BY Zenon DEF LockMissing, At, Inv1, TypeInvariant
  <1>2. CASE MayCreate(op[p])
    <2>1. op' = [op EXCEPT ![p].pc = "insert"]
      BY <1>2, Zenon DEF LockMissing, Goto
    <2>2. /\ op' \in [Procs -> Op] /\ \A q \in Procs \ {p} : op'[q] = op[q]
          /\ op'[p].pc = "insert" /\ op'[p].key = op[p].key /\ op'[p].trigger = op[p].trigger
          /\ op'[p].claim = op[p].claim /\ op'[p].access = op[p].access
          /\ op'[p].client = op[p].client /\ op'[p].due = op[p].due
      BY <1>1, <2>1, GotoUpdate, Zenon
    <2>3. TypeInvariant'
      BY <1>1, <2>2, Zenon DEF Inv1, TypeInvariant, provider, history
    <2>4. OpsWellFormed'
      BY <1>1, <1>2, <2>2 DEF Inv1, OpsWellFormed, Triggers, MayCreate
    <2>5. LockDiscipline'
      BY <1>1, <2>2 DEF Inv1, TypeInvariant, LockDiscipline, Locked, OrNil
    <2> QED BY <2>3, <2>4, <2>5, Zenon DEF Inv1
  <1>3. CASE ~MayCreate(op[p])
    <2>1. op' = [op EXCEPT ![p] = Idle]
      BY <1>3, Zenon DEF LockMissing, Return
    <2>2. op' \in [Procs -> Op] /\ op'[p] = Idle /\ \A q \in Procs \ {p} : op'[q] = op[q]
      BY <1>1, <2>1, IdleOp, OpUpdate, Zenon
    <2>3. TypeInvariant'
      BY <1>1, <2>2, IdleOp, Zenon DEF Inv1, TypeInvariant, provider, history
    <2>4. OpsWellFormed'
      BY <1>1, <2>2, IdleOp DEF Inv1, OpsWellFormed, Triggers
    <2>5. LockDiscipline'
      BY <1>1, <2>2, IdleOp DEF Inv1, TypeInvariant, LockDiscipline, Locked, OrNil
    <2> QED BY <2>3, <2>4, <2>5, Zenon DEF Inv1
  <1> QED BY <1>2, <1>3, Zenon

(* An operation that returns: its process goes idle and, when it held the  *)
(* row lock, the lock is free again; a row it leaves behind exists.        *)
LEMMA ReleaseInv1 ==
  ASSUME NEW p \in Procs, Inv1, ~IsIdle(p), Return(p), Unlock(p),
         row' \in [Keys -> OrNil(Session)],
         \A k \in Keys \ {op[p].key} : row'[k] = row[k]
  PROVE  /\ op' \in [Procs -> Op] /\ holder' \in [Keys -> OrNil(Procs)]
         /\ op'[p] = Idle /\ \A q \in Procs \ {p} : op'[q] = op[q]
         /\ \A q \in Procs : op'[q].pc # "idle" => op'[q].key \in Keys
         /\ OpsWellFormed'
         /\ Locked(p) => LockDiscipline'
  <1>1. op \in [Procs -> Op] /\ op[p].key \in Keys /\ holder \in [Keys -> OrNil(Procs)]
        /\ op' = [op EXCEPT ![p] = Idle]
        /\ holder' = [holder EXCEPT ![op[p].key] = IF @ = p THEN Nil ELSE @]
    BY Zenon DEF Inv1, TypeInvariant, IsIdle, Return, Unlock
  <1>2. op' \in [Procs -> Op] /\ op'[p] = Idle /\ \A q \in Procs \ {p} : op'[q] = op[q]
    BY <1>1, IdleOp, OpUpdate, Zenon
  <1>3. holder' \in [Keys -> OrNil(Procs)]
    BY <1>1, ZenonT(40) DEF OrNil
  <1>4. OpsWellFormed'
    BY <1>2, IdleOp DEF Inv1, OpsWellFormed, Triggers
  <1>5. ASSUME Locked(p) PROVE LockDiscipline'
    <2>1. holder'[op[p].key] = Nil /\ \A k \in Keys \ {op[p].key} : holder'[k] = holder[k]
      BY <1>1, <1>5 DEF Inv1, LockDiscipline
    <2> QED BY <1>1, <1>2, <1>5, <2>1, IdleOp DEF Inv1, TypeInvariant, LockDiscipline, Locked, OrNil
  <1>6. \A q \in Procs : op'[q].pc # "idle" => op'[q].key \in Keys
    BY <1>2, IdleOp, Zenon DEF Inv1, TypeInvariant
  <1> QED BY <1>2, <1>3, <1>4, <1>5, <1>6, Zenon

LEMMA NewGenerationType ==
  ASSUME NEW s \in Session, NEW o \in Op, o.claim \in Claims, o.access \in Token, nextUUID \in Nat
  PROVE  NewGeneration(s, o) \in Session
  BY Zenon DEF NewGeneration, Session, Op, Claims, OrNil

LEMMA NewSessionType ==
  ASSUME NEW o \in Op, o.claim \in Claims, o.access \in Token, nextUUID \in Nat
  PROVE  NewSession(o) \in Session
  BY Zenon DEF NewSession, Session, Op, Claims, OrNil

LEMMA CompletionType ==
  ASSUME NEW c \in Claims, NEW w \in Nat, nextUUID \in Nat
  PROVE  Completion(c, w) \in [key : Keys, session : OrNil(Nat), base : OrNil(Nat),
                               written : Nat, stored : Nat]
  BY Zenon DEF Completion, Claims, OrNil

LEMMA StoreCallbackInv1 ==
  ASSUME NEW p \in Procs, Inv1, StoreCallback(p) PROVE Inv1'
  <1> DEFINE k == op[p].key
  <1>1. /\ op[p].pc = "held" /\ op[p].trigger = "callback" /\ op[p] \in Op
        /\ k \in Keys /\ row[k] \in Session /\ Locked(p) /\ ~IsIdle(p)
        /\ Unlock(p) /\ Return(p)
        /\ UNCHANGED <<claims, clientID, now, nextGrant, provider, lost, gone>>
        /\ op[p].claim \in Claims /\ op[p].access \in Token
    BY DEF StoreCallback, At, Inv1, TypeInvariant, OpsWellFormed, LockDiscipline, Locked, IsIdle, OrNil
  <1>2. /\ row' \in [Keys -> OrNil(Session)] /\ \A j \in Keys \ {k} : row'[j] = row[j]
        /\ nextUUID' \in Nat
        /\ applied' \subseteq [key : Keys, session : OrNil(Nat), base : OrNil(Nat),
                               written : Nat, stored : Nat]
    <2>1. CASE UNCHANGED <<row, nextUUID, applied>>
      BY <2>1, Zenon DEF Inv1, TypeInvariant
    <2>2. CASE /\ row' = [row EXCEPT ![k] = NewGeneration(row[k], op[p])]
               /\ nextUUID' = nextUUID + 1
               /\ applied' = applied \cup {Completion(op[p].claim, row[k].ID)}
      <3>1. NewGeneration(row[k], op[p]) \in OrNil(Session) /\ row[k].ID \in Nat
        BY <1>1, NewGenerationType, Zenon DEF Inv1, TypeInvariant, Session, OrNil
      <3> QED BY <1>1, <2>2, <3>1, CompletionType DEF Inv1, TypeInvariant
    <2> QED BY <2>1, <2>2, Zenon DEF StoreCallback
  <1>3. TypeInvariant'
    BY <1>1, <1>2, ReleaseInv1, Zenon DEF Inv1, TypeInvariant, provider
  <1> QED BY <1>1, <1>2, <1>3, ReleaseInv1, Zenon DEF Inv1

LEMMA CreateIfAbsentInv1 ==
  ASSUME NEW p \in Procs, Inv1, CreateIfAbsent(p) PROVE Inv1'
  <1> DEFINE k == op[p].key
  <1>1. /\ op[p].pc = "insert" /\ op[p] \in Op /\ k \in Keys /\ op' = [op EXCEPT ![p] = Idle]
        /\ UNCHANGED <<holder, claims, clientID, now, nextGrant, provider, lost, gone>>
        /\ op[p].claim \in Claims /\ op[p].access \in Token
    BY Zenon DEF CreateIfAbsent, At, Return, Inv1, TypeInvariant, OpsWellFormed
  <1>2. op' \in [Procs -> Op] /\ op'[p] = Idle /\ \A q \in Procs \ {p} : op'[q] = op[q]
    BY <1>1, IdleOp, OpUpdate, Zenon DEF Inv1, TypeInvariant
  <1>3. /\ row' \in [Keys -> OrNil(Session)]
        /\ \A j \in Keys : row[j] # Nil => row'[j] # Nil
        /\ nextUUID' \in Nat
        /\ applied' \subseteq [key : Keys, session : OrNil(Nat), base : OrNil(Nat),
                               written : Nat, stored : Nat]
    <2>1. CASE UNCHANGED <<row, nextUUID, applied>>
      BY <2>1, Zenon DEF Inv1, TypeInvariant
    <2>2. CASE /\ row[k] = Nil
               /\ row' = [row EXCEPT ![k] = NewSession(op[p])]
               /\ nextUUID' = nextUUID + 1
               /\ applied' = applied \cup {Completion(op[p].claim, nextUUID)}
      <3>1. NewSession(op[p]) \in OrNil(Session)
        BY <1>1, NewSessionType, Zenon DEF Inv1, TypeInvariant, OrNil
      <3> QED BY <1>1, <2>2, <3>1, CompletionType DEF Inv1, TypeInvariant
    <2> QED BY <2>1, <2>2, Zenon DEF CreateIfAbsent
  <1>4. TypeInvariant'
    BY <1>1, <1>2, <1>3, IdleOp, Zenon DEF Inv1, TypeInvariant, provider
  <1>5. OpsWellFormed'
    BY <1>2, IdleOp DEF Inv1, OpsWellFormed, Triggers
  <1>6. LockDiscipline'
    BY <1>1, <1>2, <1>3, IdleOp DEF Inv1, TypeInvariant, LockDiscipline, Locked, OrNil
  <1> QED BY <1>4, <1>5, <1>6, Zenon DEF Inv1

LEMMA DeleteSessionInv1 ==
  ASSUME NEW p \in Procs, Inv1, DeleteSession(p) PROVE Inv1'
  <1> DEFINE k == op[p].key
  <1>1. /\ op[p].pc = "delete" /\ k \in Keys /\ op' = [op EXCEPT ![p] = Idle]
        /\ holder[k] = Nil /\ row' = [row EXCEPT ![k] = Nil]
        /\ UNCHANGED <<holder, claims, clientID, now, nextUUID, nextGrant, provider, lost, applied>>
    BY Zenon DEF DeleteSession, At, Return, Inv1, TypeInvariant
  <1>2. op' \in [Procs -> Op] /\ op'[p] = Idle /\ \A q \in Procs \ {p} : op'[q] = op[q]
    BY <1>1, IdleOp, OpUpdate, Zenon DEF Inv1, TypeInvariant
  <1>3. gone' \subseteq Nat
    <2>1. CASE row[k] = Nil
      BY <2>1, Zenon DEF DeleteSession, Inv1, TypeInvariant
    <2>2. CASE row[k] # Nil
      <3>1. row[k].ID \in Nat
        BY <1>1, <2>2 DEF Inv1, TypeInvariant, OrNil, Session
      <3> QED BY <2>2, <3>1, Zenon DEF DeleteSession, Inv1, TypeInvariant
    <2> QED BY <2>1, <2>2, Zenon
  <1>4. TypeInvariant'
    BY <1>1, <1>2, <1>3, IdleOp, Zenon DEF Inv1, TypeInvariant, provider, OrNil
  <1>5. OpsWellFormed'
    BY <1>2, IdleOp DEF Inv1, OpsWellFormed, Triggers
  <1>6. LockDiscipline'
    BY <1>1, <1>2, IdleOp DEF Inv1, TypeInvariant, LockDiscipline, Locked, OrNil
  <1> QED BY <1>4, <1>5, <1>6, Zenon DEF Inv1

LEMMA SkipRefreshInv1 ==
  ASSUME NEW p \in Procs, Inv1, SkipRefresh(p) PROVE Inv1'
  <1>1. /\ Locked(p) /\ ~IsIdle(p) /\ Unlock(p) /\ Return(p)
        /\ UNCHANGED <<row, claims, clientID, now, nextUUID, nextGrant, provider, history>>
    BY Zenon DEF SkipRefresh, At, Locked, IsIdle
  <1>2. TypeInvariant'
    BY <1>1, ReleaseInv1, Zenon DEF Inv1, TypeInvariant, provider, history
  <1> QED BY <1>1, <1>2, ReleaseInv1, Zenon DEF Inv1, TypeInvariant

LEMMA SendRefreshInv1 ==
  ASSUME NEW p \in Procs, Inv1, SendRefresh(p) PROVE Inv1'
  <1> DEFINE s == row[op[p].key]
             new(c) == [op[p] EXCEPT !.pc = "sent", !.client = c, !.refresh = s.refresh, !.attempt = 1]
  <1>1. /\ op[p].pc = "held" /\ op[p].trigger \in Triggers /\ op[p].key \in Keys /\ op[p] \in Op
        /\ CanRefresh(s) /\ s \in Session /\ op[p].client \in Clients
        /\ UNCHANGED <<row, holder, claims, clientID, now, nextUUID, nextGrant, provider, history>>
    BY DEF SendRefresh, WillRefresh, At, Inv1, TypeInvariant, OpsWellFormed, LockDiscipline, Locked, OrNil
  <1>2. PICK c \in Presentable(p) :
          op' = [op EXCEPT ![p] = new(c)]
    BY <1>1, Zenon DEF SendRefresh
  <1>3. c \in Clients /\ s.refresh \in Token
    BY <1>1, <1>2 DEF Presentable, Inv1, TypeInvariant, CanRefresh, Session, OrNil
  <1>5. /\ new(c) \in Op /\ new(c).pc = "sent" /\ new(c).client = c /\ new(c).refresh = s.refresh
        /\ new(c).key = op[p].key /\ new(c).trigger = op[p].trigger /\ new(c).due = op[p].due
    BY <1>1, <1>3, ZenonT(40) DEF Op, OrNil
  <1> HIDE DEF new
  <1>6. op' \in [Procs -> Op] /\ op'[p] = new(c) /\ \A q \in Procs \ {p} : op'[q] = op[q]
    BY <1>2, <1>5, OpUpdate, Zenon DEF Inv1, TypeInvariant
  <1>7. TypeInvariant'
    BY <1>1, <1>5, <1>6, Zenon DEF Inv1, TypeInvariant, provider, history
  <1>8. OpsWellFormed'
    BY <1>1, <1>3, <1>5, <1>6 DEF Inv1, OpsWellFormed, Triggers
  <1>9. LockDiscipline'
    BY <1>1, <1>5, <1>6 DEF Inv1, TypeInvariant, LockDiscipline, Locked, OrNil
  <1> QED BY <1>7, <1>8, <1>9, Zenon DEF Inv1

LEMMA ProviderRenewsInv1 ==
  ASSUME NEW p \in Procs, Inv1, ProviderRenews(p) PROVE Inv1'
  <1> DEFINE g == op[p].refresh.grant
             n == served[g] + 1
             new(a, e) == [op[p] EXCEPT !.pc = "answered", !.answer = a,
                             !.access = [grant |-> g, serial |-> n], !.expiresAt = e]
  <1>1. /\ op[p].pc = "sent" /\ op[p].trigger \in Triggers /\ op[p].key \in Keys /\ op[p] \in Op
        /\ op[p].refresh \in Token /\ op[p].client \in Clients /\ g \in Grants /\ n \in Nat
        /\ UNCHANGED <<row, holder, claims, clientID, now, nextUUID, nextGrant, issuedTo, revoked, orphans, history>>
        /\ served' = [served EXCEPT ![g] = n]
    BY DEF ProviderRenews, At, Inv1, TypeInvariant, OpsWellFormed, Token
  <1>2. PICK a \in {"rotated", "renewed"}, e \in Expiries :
          /\ op' = [op EXCEPT ![p] = new(a, e)]
          /\ live' = IF a = "rotated" THEN [live EXCEPT ![g] = n] ELSE live
    BY Zenon DEF ProviderRenews
  <1>3. e \in OrNil(Nat) /\ [grant |-> g, serial |-> n] \in Token
    BY <1>1, ExpiriesType, Zenon DEF Inv1, TypeInvariant, Token
  <1>4. /\ new(a, e) \in Op /\ new(a, e).pc = "answered" /\ new(a, e).client = op[p].client
        /\ new(a, e).access \in Token /\ new(a, e).refresh = op[p].refresh
        /\ new(a, e).key = op[p].key /\ new(a, e).trigger = op[p].trigger /\ new(a, e).due = op[p].due
    BY <1>1, <1>3, ZenonT(40) DEF Op, OrNil, Answers
  <1>5. served' \in [Grants -> Nat] /\ live' \in [Grants -> Nat]
    BY <1>1, <1>2, Zenon DEF Inv1, TypeInvariant
  <1> HIDE DEF new, n, g
  <1>6. op' \in [Procs -> Op] /\ op'[p] = new(a, e) /\ \A q \in Procs \ {p} : op'[q] = op[q]
    BY <1>2, <1>4, OpUpdate, Zenon DEF Inv1, TypeInvariant
  <1>7. TypeInvariant'
    BY <1>1, <1>4, <1>5, <1>6, Zenon DEF Inv1, TypeInvariant, history
  <1>8. OpsWellFormed'
    BY <1>1, <1>4, <1>6 DEF Inv1, OpsWellFormed, Triggers
  <1>9. LockDiscipline'
    BY <1>1, <1>4, <1>6 DEF Inv1, TypeInvariant, LockDiscipline, Locked, OrNil
  <1> QED BY <1>7, <1>8, <1>9, Zenon DEF Inv1

(* What an answer without tokens changes of the waiting operation. *)
LEMMA AnswerUpdate ==
  ASSUME op \in [Procs -> Op], NEW p \in Procs, NEW a \in {"invalid_grant", "transient", "failed"},
         op' = [op EXCEPT ![p] = [@ EXCEPT !.pc = "answered", !.answer = a]]
  PROVE  /\ op' \in [Procs -> Op]
         /\ \A q \in Procs \ {p} : op'[q] = op[q]
         /\ op'[p].pc = "answered" /\ op'[p].answer = a
         /\ op'[p].key = op[p].key /\ op'[p].trigger = op[p].trigger
         /\ op'[p].claim = op[p].claim /\ op'[p].access = op[p].access
         /\ op'[p].refresh = op[p].refresh
         /\ op'[p].client = op[p].client /\ op'[p].due = op[p].due
  <1> DEFINE new == [op[p] EXCEPT !.pc = "answered", !.answer = a]
  <1>1. a \in Answers /\ op[p] \in Op
    BY Zenon DEF Answers
  <1>2. /\ new \in Op /\ new.pc = "answered" /\ new.answer = a
        /\ new.key = op[p].key /\ new.trigger = op[p].trigger /\ new.claim = op[p].claim
        /\ new.access = op[p].access /\ new.refresh = op[p].refresh
        /\ new.client = op[p].client /\ new.due = op[p].due
    BY <1>1, Zenon DEF Op
  <1> HIDE DEF new
  <1>3. op' = [op EXCEPT ![p] = new]
    BY Zenon DEF new
  <1> QED BY <1>2, <1>3, OpUpdate

LEMMA AnswerInv1 ==
  ASSUME NEW p \in Procs, Inv1, op[p].pc = "sent",
         NEW a \in {"invalid_grant", "transient", "failed"},
         op' = [op EXCEPT ![p] = [@ EXCEPT !.pc = "answered", !.answer = a]],
         served' \in [Grants -> Nat], live' \in [Grants -> Nat], lost' \subseteq Grants,
         UNCHANGED <<row, holder, claims, clientID, now, nextUUID, nextGrant, issuedTo, revoked, orphans, gone, applied>>
  PROVE  Inv1'
  <1>1. /\ op' \in [Procs -> Op]
        /\ \A q \in Procs \ {p} : op'[q] = op[q]
        /\ op'[p].pc = "answered" /\ op'[p].answer = a
        /\ op'[p].key = op[p].key /\ op'[p].trigger = op[p].trigger
        /\ op'[p].claim = op[p].claim /\ op'[p].access = op[p].access
        /\ op'[p].refresh = op[p].refresh
        /\ op'[p].client = op[p].client /\ op'[p].due = op[p].due
    BY AnswerUpdate, Zenon DEF Inv1, TypeInvariant
  <1>2. TypeInvariant'
    BY <1>1, Zenon DEF Inv1, TypeInvariant
  <1>3. OpsWellFormed'
    BY <1>1 DEF Inv1, OpsWellFormed, Triggers
  <1>4. LockDiscipline'
    BY <1>1 DEF Inv1, TypeInvariant, LockDiscipline, Locked, OrNil
  <1> QED BY <1>2, <1>3, <1>4, Zenon DEF Inv1

LEMMA ProviderAnswersInv1 ==
  ASSUME NEW p \in Procs, Inv1,
         ProviderAnswerLost(p) \/ ProviderRefuses(p) \/ ProviderFails(p)
  PROVE  Inv1'
  <1>1. CASE ProviderAnswerLost(p)
    <2>1. op[p].pc = "sent" /\ op[p].refresh.grant \in Grants
      BY <1>1, Zenon DEF ProviderAnswerLost, At, Inv1, OpsWellFormed, Token
    <2>2. served' \in [Grants -> Nat] /\ live' \in [Grants -> Nat] /\ lost' \subseteq Grants
      BY <1>1, <2>1 DEF ProviderAnswerLost, Inv1, TypeInvariant
    <2>3. PICK a \in {"transient", "failed"} :
            op' = [op EXCEPT ![p] = [@ EXCEPT !.pc = "answered", !.answer = a]]
      BY <1>1, Zenon DEF ProviderAnswerLost, Answer
    <2>4. UNCHANGED <<row, holder, claims, clientID, now, nextUUID, nextGrant, issuedTo, revoked, orphans, gone, applied>>
      BY <1>1, Zenon DEF ProviderAnswerLost
    <2> QED BY <2>1, <2>2, <2>3, <2>4, AnswerInv1, Zenon
  <1>2. CASE ProviderRefuses(p)
    BY <1>2, AnswerInv1, Zenon DEF ProviderRefuses, Answer, At, provider, history, Inv1, TypeInvariant
  <1>3. CASE ProviderFails(p)
    <2>1. PICK a \in {"transient", "failed"} :
            op' = [op EXCEPT ![p] = [@ EXCEPT !.pc = "answered", !.answer = a]]
      BY <1>3, Zenon DEF ProviderFails, Answer
    <2> QED BY <1>3, <2>1, AnswerInv1, Zenon DEF ProviderFails, At, provider, history, Inv1, TypeInvariant
  <1> QED BY <1>1, <1>2, <1>3, Zenon

LEMMA RetryRefreshInv1 ==
  ASSUME NEW p \in Procs, Inv1, RetryRefresh(p) PROVE Inv1'
  <1> DEFINE new == [op[p] EXCEPT !.pc = "sent", !.answer = "none", !.attempt = NextAttempt(op[p])]
  <1>1. /\ op[p].pc = "answered" /\ op[p] \in Op /\ op[p].key \in Keys
        /\ op[p].trigger \in Triggers /\ op[p].refresh \in Token /\ op[p].client \in Clients
        /\ op' = [op EXCEPT ![p] = new]
        /\ UNCHANGED <<row, holder, claims, clientID, now, nextUUID, nextGrant, provider, history>>
    BY Zenon DEF RetryRefresh, At, Inv1, TypeInvariant, OpsWellFormed
  <1>2. NextAttempt(op[p]) \in Nat
    BY <1>1 DEF NextAttempt, Op
  <1>3. /\ new \in Op /\ new.pc = "sent" /\ new.client = op[p].client /\ new.refresh = op[p].refresh
        /\ new.key = op[p].key /\ new.trigger = op[p].trigger /\ new.due = op[p].due
    BY <1>1, <1>2, Zenon DEF Op, Answers
  <1> HIDE DEF new
  <1>4. op' \in [Procs -> Op] /\ op'[p] = new /\ \A q \in Procs \ {p} : op'[q] = op[q]
    BY <1>1, <1>3, OpUpdate, Zenon DEF Inv1, TypeInvariant
  <1>5. TypeInvariant'
    BY <1>1, <1>3, <1>4, ZenonT(40) DEF Inv1, TypeInvariant, provider, history
  <1>6. OpsWellFormed'
    BY <1>1, <1>3, <1>4 DEF Inv1, OpsWellFormed, Triggers
  <1>7. LockDiscipline'
    BY <1>1, <1>3, <1>4 DEF Inv1, TypeInvariant, LockDiscipline, Locked, OrNil
  <1> QED BY <1>5, <1>6, <1>7, ZenonT(40) DEF Inv1

LEMMA SetSessionTokensType ==
  ASSUME NEW s \in Session, NEW p \in Procs, op[p] \in Op, op[p].access \in Token
  PROVE  SetSessionTokens(s, p) \in Session
  BY Zenon DEF SetSessionTokens, Session, Op, OrNil

LEMMA CommitRefreshInv1 ==
  ASSUME NEW p \in Procs, Inv1, CommitRefresh(p) PROVE Inv1'
  <1>1. /\ Locked(p) /\ ~IsIdle(p) /\ Unlock(p) /\ Return(p)
        /\ op[p] \in Op /\ op[p].access \in Token /\ op[p].key \in Keys /\ row[op[p].key] \in Session
        /\ row' = [row EXCEPT ![op[p].key] = SetSessionTokens(row[op[p].key], p)]
        /\ UNCHANGED <<claims, clientID, now, nextUUID, nextGrant, provider, history>>
    BY DEF CommitRefresh, At, Locked, IsIdle, Inv1, TypeInvariant, OpsWellFormed, LockDiscipline, OrNil
  <1>2. row' \in [Keys -> OrNil(Session)] /\ \A k \in Keys \ {op[p].key} : row'[k] = row[k]
    BY <1>1, SetSessionTokensType, Zenon DEF Inv1, TypeInvariant, OrNil
  <1>3. TypeInvariant'
    BY <1>1, <1>2, ReleaseInv1, Zenon DEF Inv1, TypeInvariant, provider, history
  <1> QED BY <1>1, <1>2, <1>3, ReleaseInv1, Zenon DEF Inv1

LEMMA CommitRejectionInv1 ==
  ASSUME NEW p \in Procs, Inv1, CommitRejection(p) PROVE Inv1'
  <1>1. /\ Locked(p) /\ ~IsIdle(p) /\ Unlock(p) /\ Return(p)
        /\ op[p].key \in Keys /\ row[op[p].key] \in Session
        /\ row' = [row EXCEPT ![op[p].key].rejected = TRUE]
        /\ UNCHANGED <<claims, clientID, now, nextUUID, nextGrant, provider, history>>
    BY DEF CommitRejection, At, Locked, IsIdle, Inv1, TypeInvariant, LockDiscipline, OrNil
  <1>2. [row[op[p].key] EXCEPT !.rejected = TRUE] \in Session
    BY <1>1, Zenon DEF Session
  <1>3. row' \in [Keys -> OrNil(Session)] /\ \A k \in Keys \ {op[p].key} : row'[k] = row[k]
    BY <1>1, <1>2, Zenon DEF Inv1, TypeInvariant, OrNil
  <1>4. TypeInvariant'
    BY <1>1, <1>3, ReleaseInv1, Zenon DEF Inv1, TypeInvariant, provider, history
  <1> QED BY <1>1, <1>3, <1>4, ReleaseInv1, Zenon DEF Inv1

LEMMA FailRefreshInv1 ==
  ASSUME NEW p \in Procs, Inv1, FailRefresh(p) PROVE Inv1'
  <1>1. /\ Locked(p) /\ ~IsIdle(p) /\ Unlock(p) /\ Return(p) /\ op[p].refresh.grant \in Grants
        /\ UNCHANGED <<row, claims, clientID, now, nextUUID, nextGrant, provider, gone, applied>>
    BY Zenon DEF FailRefresh, At, Locked, IsIdle, Inv1, OpsWellFormed, Token
  <1>2. lost' \subseteq Grants
    BY <1>1, Zenon DEF FailRefresh, Inv1, TypeInvariant
  <1>3. TypeInvariant'
    BY <1>1, <1>2, ReleaseInv1, Zenon DEF Inv1, TypeInvariant, provider
  <1> QED BY <1>1, <1>3, ReleaseInv1, Zenon DEF Inv1, TypeInvariant

LEMMA TimeoutInv1 ==
  ASSUME NEW p \in Procs, Inv1, Timeout(p) PROVE Inv1'
  <1>1. /\ ~IsIdle(p) /\ Unlock(p) /\ Return(p) /\ op[p].key \in Keys
        /\ UNCHANGED <<row, claims, clientID, now, nextUUID, nextGrant, served, live, issuedTo, revoked, history>>
    BY Zenon DEF Timeout, IsIdle, Inv1, TypeInvariant
  <1>2. orphans' \subseteq Token
    BY DEF Timeout, At, Inv1, TypeInvariant, OpsWellFormed
  <1>3. TypeInvariant'
    BY <1>1, <1>2, ReleaseInv1, Zenon DEF Inv1, TypeInvariant, history
  <1>4. ASSUME ~Locked(p) PROVE LockDiscipline'
    <2>1. holder[op[p].key] # p
      BY <1>1, <1>4 DEF Inv1, LockDiscipline
    <2>2. holder' = holder
      BY <1>1, <2>1, Zenon DEF Unlock, Inv1, TypeInvariant
    <2> QED BY <1>1, <1>4, <2>2, ReleaseInv1, IdleOp DEF Inv1, TypeInvariant, LockDiscipline, Locked, OrNil
  <1> QED BY <1>1, <1>3, <1>4, ReleaseInv1, Zenon DEF Inv1, TypeInvariant

LEMMA CrashInv1 ==
  ASSUME NEW r \in Replicas, Inv1, Crash(r) PROVE Inv1'
  <1>1. r \subseteq Procs
    OBVIOUS
  <1>2. /\ \A p \in r : op'[p] = Idle
        /\ \A p \in Procs \ r : op'[p] = op[p]
        /\ op' \in [Procs -> Op]
        /\ \A k \in Keys : holder'[k] = IF holder[k] \in r THEN Nil ELSE holder[k]
        /\ holder' \in [Keys -> OrNil(Procs)]
        /\ UNCHANGED <<row, claims, clientID, now, nextUUID, nextGrant, served, live, issuedTo, revoked, gone, applied>>
    BY <1>1, IdleOp, Zenon DEF Crash, Inv1, TypeInvariant, OrNil
  <1>3. lost' \subseteq Grants /\ orphans' \subseteq Token
    BY <1>1 DEF Crash, LosesRotation, At, Inv1, TypeInvariant, OpsWellFormed, Token
  <1>4. TypeInvariant'
    BY <1>2, <1>3, IdleOp, Zenon DEF Inv1, TypeInvariant
  <1>5. OpsWellFormed'
    BY <1>2, IdleOp DEF Inv1, OpsWellFormed, Triggers
  <1>6. LockDiscipline'
    BY <1>1, <1>2, IdleOp DEF Inv1, TypeInvariant, LockDiscipline, Locked, OrNil
  <1> QED BY <1>4, <1>5, <1>6, Zenon DEF Inv1

(* Steps that touch neither the rows, the locks nor the operations. *)
LEMMA AsideInv1 ==
  ASSUME Inv1, UNCHANGED <<row, holder, op>>,
         \/ \E t \in orphans : ProviderServesOrphan(t)
         \/ \E g \in Grants : ProviderRevokes(g)
         \/ \E k \in Keys, c \in Clients : RotateCredentials(k, c)
         \/ Tick
         \/ UNCHANGED vars
  PROVE  Inv1'
  <1>1. OpsWellFormed' /\ LockDiscipline'
    BY Zenon DEF Inv1, OpsWellFormed, LockDiscipline, Locked
  <1>2. TypeInvariant'
    <2>1. CASE \E t \in orphans : ProviderServesOrphan(t)
      BY <2>1 DEF ProviderServesOrphan, Inv1, TypeInvariant, Token
    <2>2. CASE \E g \in Grants : ProviderRevokes(g)
      BY <2>2 DEF ProviderRevokes, Inv1, TypeInvariant, history
    <2>3. CASE \E k \in Keys, c \in Clients : RotateCredentials(k, c)
      BY <2>3 DEF RotateCredentials, Inv1, TypeInvariant, provider, history
    <2>4. CASE Tick
      BY <2>4 DEF Tick, Inv1, TypeInvariant, provider, history
    <2>5. CASE UNCHANGED vars
      BY <2>5, Zenon DEF vars, Inv1, TypeInvariant, provider, history
    <2> QED BY <2>1, <2>2, <2>3, <2>4, <2>5, Zenon
  <1> QED BY <1>1, <1>2, Zenon DEF Inv1

LEMMA NextInv1 == Inv1 /\ [Next]_vars => Inv1'
  <1> SUFFICES ASSUME Inv1, [Next]_vars PROVE Inv1'
    OBVIOUS
  <1>1. CASE \E k \in Keys : InitiateOAuth2Flow(k)
    BY <1>1, InitiateInv1, Zenon
  <1>2. ASSUME NEW p \in Procs, Begin(p) PROVE Inv1'
    BY <1>2, HandleCallbackInv1, BeginRefreshInv1, TerminateInv1, Zenon DEF Begin
  <1>3. ASSUME NEW p \in Procs, Step(p) PROVE Inv1'
    BY <1>3, AcquireSlotInv1, LockSessionInv1, LockMissingInv1, StoreCallbackInv1,
       CreateIfAbsentInv1, DeleteSessionInv1, SkipRefreshInv1, SendRefreshInv1, RetryRefreshInv1,
       CommitRefreshInv1, CommitRejectionInv1, FailRefreshInv1, TimeoutInv1, Zenon DEF Step
  <1>4. ASSUME NEW p \in Procs,
               ProviderRenews(p) \/ ProviderAnswerLost(p) \/ ProviderRefuses(p) \/ ProviderFails(p)
        PROVE Inv1'
    BY <1>4, ProviderRenewsInv1, ProviderAnswersInv1, Zenon
  <1>5. CASE \E r \in Replicas : Crash(r)
    BY <1>5, CrashInv1, Zenon
  <1>6. CASE \/ \E t \in orphans : ProviderServesOrphan(t)
             \/ \E g \in Grants : ProviderRevokes(g)
             \/ \E k \in Keys, c \in Clients : RotateCredentials(k, c)
             \/ Tick
             \/ UNCHANGED vars
    <2>1. UNCHANGED <<row, holder, op>>
      BY <1>6, Zenon DEF ProviderServesOrphan, ProviderRevokes, RotateCredentials, Tick, vars
    <2> QED BY <1>6, <2>1, AsideInv1, Zenon
  <1> QED BY <1>1, <1>2, <1>3, <1>4, <1>5, <1>6, Zenon DEF Next, Provider

(* Every reachable state of the vault is type correct, and a goroutine     *)
(* runs the locked callback of WithLockedSession exactly when it holds the *)
(* lock of an existing row.                                                *)
THEOREM LockingCorrect == Spec => [](TypeInvariant /\ LockDiscipline)
  <1>1. Init => Inv1
    BY InitInv1, Zenon
  <1>2. Inv1 /\ [Next]_vars => Inv1'
    BY NextInv1, Zenon
  <1>3. Inv1 => TypeInvariant /\ LockDiscipline
    BY Zenon DEF Inv1
  <1> QED BY <1>1, <1>2, <1>3, PTL DEF Spec

=============================================================================
