------------------------- MODULE CredentialProofs ---------------------------
(***************************************************************************)
(* Proofs about the credentials the authorization server keeps, each for   *)
(* every value of its constants: the broker's signing keys, the client     *)
(* assertions it verifies, and the credential files it reads.  Each        *)
(* section has the inductive invariant of its part, one lemma per action,  *)
(* and the theorems that follow from it.                                   *)
(***************************************************************************)
EXTENDS SigningKeys, ClientAssertions, CredentialFiles, TLAPS

(***************************************************************************)
(* Signing keys.  That one key is current needs that transactions under    *)
(* way insert different new keys and demote only rows that are there.      *)
(* That verifiers know the signer needs PublishedOK: an active key that    *)
(* was never served takes effect only after the set the verifier holds has *)
(* ended, because an addition takes no longer than OpTime and OpTime and   *)
(* MaxAge together stay within Grace.                                      *)
(***************************************************************************)
HistoryT == [cimd : BOOLEAN, script : [Goroutines -> Seq(STRING)], until : Nat, cancelled : BOOLEAN,
             initial : SUBSET KeyIDs, promoted : SUBSET KeyIDs]
VerifierT == [keys : SUBSET KeyIDs, at : Nat]
(* The steps at which an operation has a new key to store, holds the rows  *)
(* it locked, or has chosen the key it signs with.                         *)
Creating == {"storing", "demoting", "inserting"}
Locking == {"demoting", "inserting", "promoting"}
Chosen == {"holding", "confirming", "loading", "signed"}
Minting == Chosen \cup {"minting"}
Waiting == {"bootstrap", "counting"}

(* Keys a verifier need not have fetched, or has. *)
Known == keyHistory.promoted \cup keyHistory.initial \cup verifier.keys

(* The rows, the clock and the verifier, which refetches before its set    *)
(* ends.                                                                   *)
RowsOK ==
  /\ keyRows \in [KeyIDs -> Row \cup {None}] /\ clock \in Nat /\ verifier \in VerifierT /\ keyHistory \in HistoryT
  /\ signer.version \in Nat /\ clock <= verifier.at + MaxAge /\ verifier.at <= clock
(* A key nobody was told of has not taken effect when the verifier's set ends. *)
PublishedOK == \A k \in Active \ Known : keyRows[k].activatesAt > verifier.at + MaxAge

(* What holds of an operation at its step. *)
OpGood(o) ==
  /\ o.pc \in Minting => o.name = "mint"
  /\ o.pc \notin Resting \cup Minting => o.name # "mint" /\ o.began <= clock /\ clock <= o.began + OpTime
  /\ o.pc \in Waiting => o.at = o.began
  /\ o.pc \in Creating \cup {"generating"} => o.at = o.began \/ o.at >= o.began + Grace
  /\ o.pc \in Creating => o.kid \in KeyIDs \ Stored
  /\ o.pc \in Locking => o.seen \subseteq Stored
  /\ o.pc \in {"promoting", "deleting"} \cup Chosen => o.kid \in Stored
  /\ o.pc \in Chosen => (o.kid \in Active => o.kid \in Known)
OpsOK == op \in [Goroutines -> Operation] /\ \A a \in Goroutines : OpGood(op[a])
(* No two operations under way create the same key.                        *)
Distinct ==
  \A a, b \in Goroutines : a # b /\ op[a].pc \in Creating /\ op[b].pc \in Creating => op[a].kid # op[b].kid

KeysInv == RowsOK /\ OneCurrentKey /\ PublishedOK /\ OpsOK /\ Distinct

(* An operation keeps what holds of it while the rows, the clock and what   *)
(* verifiers know stay as they are.                                         *)
LEMMA GoodFrame ==
  ASSUME NEW o, OpGood(o), clock' = clock, Stored' = Stored, Active' = Active, Known' = Known
  PROVE  (o.pc \in Minting => o.name = "mint") /\ OpGood(o)'
  BY Zenon DEF OpGood

LEMMA SameRows ==
  ASSUME UNCHANGED keyRows
  PROVE  Stored' = Stored /\ Active' = Active /\ Currents' = Currents
  <1>1. Stored' = Stored
    BY Zenon DEF Stored
  <1>2. Active' = Active
    BY <1>1, Zenon DEF Active
  <1> QED BY <1>1, <1>2, Zenon DEF Currents

(* Goroutine a goes on to q; nothing that verifiers know of changes. *)
LEMMA OpStep ==
  ASSUME KeysInv, NEW a \in Goroutines, NEW q \in Operation, op' = [op EXCEPT ![a] = q],
         UNCHANGED <<keyRows, clock, verifier>>, keyHistory' \in HistoryT,
         keyHistory'.promoted = keyHistory.promoted, keyHistory'.initial = keyHistory.initial,
         signer'.version \in Nat, OpGood(q),
         q.pc \in Creating => (op[a].pc \in Creating /\ q.kid = op[a].kid) \/ q.kid \in Fresh
  PROVE  KeysInv'
  <1>1. Stored' = Stored /\ Active' = Active /\ Currents' = Currents
    BY SameRows, Zenon
  <1>2. Known' = Known
    BY Zenon DEF Known
  <1>3. RowsOK'
    BY Zenon DEF KeysInv, RowsOK
  <1>4. OneCurrentKey'
    BY <1>1, Zenon DEF KeysInv, OneCurrentKey
  <1>5. PublishedOK'
    BY <1>1, <1>2, Zenon DEF KeysInv, PublishedOK
  <1>6. op \in [Goroutines -> Operation] /\ \A b \in Goroutines : OpGood(op[b])
    BY Zenon DEF KeysInv, OpsOK
  <1>7. op' \in [Goroutines -> Operation] /\ op'[a] = q /\ \A b \in Goroutines \ {a} : op'[b] = op[b]
    BY <1>6, Zenon
  <1>8. OpsOK'
    <2>1. ASSUME NEW b \in Goroutines PROVE OpGood(op[b])'
      <3>1. PICK o : o = op'[b] /\ OpGood(o)
        BY <1>6, <1>7, Zenon
      <3>2. OpGood(o)'
        BY <1>1, <1>2, <3>1, GoodFrame, Zenon
      <3> QED BY <3>1, <3>2, Zenon DEF OpGood
    <2> QED BY <1>7, <2>1, Zenon DEF OpsOK
  <1>9. Distinct'
    <2>1. ASSUME NEW b \in Goroutines, b # a, op[b].pc \in Creating, q.pc \in Creating PROVE q.kid # op[b].kid
      BY <2>1, Zenon DEF KeysInv, Distinct, Fresh
    <2> QED BY <1>7, <2>1, Zenon DEF KeysInv, Distinct
  <1> QED BY <1>3, <1>4, <1>5, <1>8, <1>9, Zenon DEF KeysInv

LEMMA IdleFacts ==
  ASSUME NEW o \in Operation, NEW pc \in {"idle", "done", "failed"}
  PROVE  LET q == [Idle EXCEPT !.pc = pc, !.name = o.name]
         IN  q \in Operation /\ OpGood(q) /\ q.pc \notin Creating
  BY Zenon DEF Operation, Idle, OpGood, Resting, Minting, Chosen, Waiting, Creating, Locking

(* An operation ends without having changed a row. *)
LEMMA EndsOK ==
  ASSUME KeysInv, NEW a \in Goroutines, NEW pc \in {"idle", "done", "failed"}, op' = Ended(a, pc),
         UNCHANGED <<keyRows, clock, verifier>>, keyHistory' \in HistoryT,
         keyHistory'.promoted = keyHistory.promoted, keyHistory'.initial = keyHistory.initial,
         signer'.version \in Nat
  PROVE  KeysInv'
  <1> DEFINE q == [Idle EXCEPT !.pc = pc, !.name = op[a].name]
  <1>1. op[a] \in Operation
    BY Zenon DEF KeysInv, OpsOK
  <1>2. q \in Operation /\ OpGood(q) /\ q.pc \notin Creating
    BY <1>1, IdleFacts, Zenon
  <1>3. op' = [op EXCEPT ![a] = q]
    BY Zenon DEF Ended
  <1> HIDE DEF q
  <1> QED BY <1>2, <1>3, OpStep, Zenon

(* ------------------ the operations' own steps -------------------------- *)

LEMMA StartOK ==
  ASSUME KeysInv, NEW a \in Goroutines, NEW name, NEW kid, NEW pc, Start(a, name, kid, pc),
         \/ name \in {"ensure", "add"} /\ kid = None /\ pc \in {"bootstrap", "generating"}
         \/ name = "promote" /\ kid \in Stored /\ pc = "promoting"
         \/ name = "delete" /\ kid \in Stored /\ pc = "deleting"
         \/ name = "mint" /\ kid = None /\ pc = "minting"
  PROVE  KeysInv'
  <1> DEFINE seen == IF name = "mint" THEN Stored \ Active ELSE {}
             q == [pc |-> pc, name |-> name, kid |-> kid, began |-> clock, at |-> clock, seen |-> seen, gen |-> 0]
  <1>1. Stored \subseteq KeyIDs /\ seen \in SUBSET KeyIDs /\ clock \in Nat /\ OpTime \in Nat
    BY KeyTimes, Zenon DEF Stored, KeysInv, RowsOK
  <1>2. name # "mint" => seen = {}
    BY Zenon
  <1>3. op' = [op EXCEPT ![a] = q]
    BY Zenon DEF Start
  <1> HIDE DEF seen
  <1>4. q \in Operation /\ q.pc \notin Creating
    BY <1>1, Zenon DEF Operation, Creating
  <1>5. OpGood(q)
    BY <1>1, <1>2 DEF OpGood, Resting, Minting, Chosen, Waiting, Creating, Locking
  <1>6. /\ keyHistory' \in HistoryT /\ keyHistory'.promoted = keyHistory.promoted
        /\ keyHistory'.initial = keyHistory.initial
    <2>1. keyHistory \in HistoryT /\ keyHistory.script \in [Goroutines -> Seq(STRING)]
      BY Zenon DEF KeysInv, RowsOK, HistoryT
    <2>2. PICK s : s = [keyHistory.script EXCEPT ![a] = Tail(@)]
      BY Zenon
    <2>3. keyHistory' = [keyHistory EXCEPT !.script = s] /\ keyHistory.script[a] # <<>>
      BY <2>2, Zenon DEF Start
    <2>4. Tail(keyHistory.script[a]) \in Seq(STRING)
      <3>1. keyHistory.script[a] \in Seq(STRING)
        BY <2>1, Zenon
      <3>2. \A t \in Seq(STRING) : t # <<>> => Tail(t) \in Seq(STRING)
        OBVIOUS
      <3> QED BY <2>3, <3>1, <3>2, Zenon
    <2>5. s \in [Goroutines -> Seq(STRING)]
      BY <2>1, <2>2, <2>4, Zenon
    <2> QED BY <2>1, <2>3, <2>5, Zenon DEF HistoryT
  <1>7. UNCHANGED <<keyRows, clock, verifier>> /\ signer'.version \in Nat
    BY Zenon DEF Start, KeysInv, RowsOK
  <1> HIDE DEF q
  <1> QED BY <1>3, <1>4, <1>5, <1>6, <1>7, OpStep, Zenon

LEMMA BeginOK ==
  ASSUME KeysInv, NEW a \in Goroutines,
         EnsureInitialKey(a) \/ AddKey(a) \/ AddFirstKey(a) \/ PromoteKey(a) \/ DeleteKey(a) \/ SignToken(a)
  PROVE  KeysInv'
  <1>1. CASE EnsureInitialKey(a)
    BY <1>1, StartOK, Zenon DEF EnsureInitialKey
  <1>2. CASE AddKey(a)
    BY <1>2, StartOK, Zenon DEF AddKey
  <1>3. CASE AddFirstKey(a)
    BY <1>3, StartOK, Zenon DEF AddFirstKey
  <1>4. CASE PromoteKey(a)
    BY <1>4, StartOK, Zenon DEF PromoteKey
  <1>5. CASE DeleteKey(a)
    <2>1. Active \subseteq Stored
      BY Zenon DEF Active
    <2> QED BY <1>5, <2>1, StartOK, Zenon DEF DeleteKey
  <1>6. CASE SignToken(a)
    BY <1>6, StartOK, Zenon DEF SignToken
  <1> QED BY <1>1, <1>2, <1>3, <1>4, <1>5, <1>6, Zenon

(* A goroutine moves on to step pc of its operation. *)
LEMMA GotoOK ==
  ASSUME KeysInv, NEW a \in Goroutines, NEW q, op' = [op EXCEPT ![a] = q],
         UNCHANGED <<keyRows, clock, verifier, keyHistory>>, UNCHANGED signer,
         q \in Operation, OpGood(q), q.pc \in Creating => op[a].pc \in Creating /\ q.kid = op[a].kid
  PROVE  KeysInv'
  <1>1. keyHistory' \in HistoryT /\ signer'.version \in Nat
    BY Zenon DEF KeysInv, RowsOK
  <1> QED BY <1>1, OpStep, Zenon

(* Leaves of a step that changes the operation alone. *)
LEMMA OfOp ==
  ASSUME KeysInv, NEW a \in Goroutines
  PROVE  /\ op[a] \in Operation /\ OpGood(op[a]) /\ clock \in Nat /\ keyHistory \in HistoryT /\ signer.version \in Nat
         /\ op[a].at \in Nat /\ op[a].began \in Nat /\ Grace \in Nat /\ OpTime \in Nat /\ MaxAge \in Nat
         /\ MaxAge + OpTime < Grace
  <1>1. op[a] \in Operation /\ OpGood(op[a]) /\ clock \in Nat /\ keyHistory \in HistoryT /\ signer.version \in Nat
    BY Zenon DEF KeysInv, OpsOK, RowsOK
  <1>2. op[a].at \in Nat /\ op[a].began \in Nat
    BY <1>1, Zenon DEF Operation
  <1> QED BY <1>1, <1>2, KeyTimes, Zenon

LEMMA WithBootstrapLockOK ==
  ASSUME KeysInv, NEW a \in Goroutines, WithBootstrapLock(a)
  PROVE  KeysInv'
  <1> DEFINE q == [op[a] EXCEPT !.pc = "counting"]
  <1>1. op[a] \in Operation /\ OpGood(op[a]) /\ op[a].pc = "bootstrap"
    BY OfOp, Zenon DEF WithBootstrapLock, AtStep
  <1>2. q \in Operation /\ OpGood(q) /\ q.pc \notin Creating
    BY <1>1, Zenon DEF Operation, OpGood, Resting, Minting, Chosen, Waiting, Creating, Locking
  <1>3. op' = [op EXCEPT ![a] = q]
    BY Zenon DEF WithBootstrapLock, Goto
  <1> HIDE DEF q
  <1> QED BY <1>2, <1>3, GotoOK, Zenon DEF WithBootstrapLock

LEMMA EndedOK ==
  ASSUME KeysInv, NEW a \in Goroutines, NEW pc \in {"idle", "done", "failed"}, op' = Ended(a, pc),
         UNCHANGED <<keyRows, clock, verifier, keyHistory>>, UNCHANGED signer
  PROVE  KeysInv'
  <1>1. keyHistory' \in HistoryT /\ signer'.version \in Nat
    BY Zenon DEF KeysInv, RowsOK
  <1> QED BY <1>1, EndsOK, Zenon

LEMMA CountOK ==
  ASSUME KeysInv, NEW a \in Goroutines, Count(a)
  PROVE  KeysInv'
  <1>1. op[a] \in Operation /\ OpGood(op[a]) /\ op[a].pc = "counting" /\ op[a].at = op[a].began
    <2>1. op[a] \in Operation /\ OpGood(op[a]) /\ op[a].pc = "counting"
      BY OfOp, Zenon DEF Count, AtStep
    <2> QED BY <2>1, Zenon DEF OpGood, Waiting
  <1>2. CASE op' = Ended(a, "done")
    BY <1>2, EndedOK, Zenon DEF Count
  <1>3. ASSUME NEW t \in {op[a].at, op[a].at + Grace}, op' = [op EXCEPT ![a] = [op[a] EXCEPT !.pc = "generating", !.at = t]]
        PROVE  KeysInv'
    <2> DEFINE q == [op[a] EXCEPT !.pc = "generating", !.at = t]
    <2>1. t \in Nat /\ (t = op[a].began \/ t >= op[a].began + Grace)
      BY <1>1, OfOp
    <2>2. q \in Operation /\ OpGood(q) /\ q.pc \notin Creating
      BY <1>1, <2>1, Zenon DEF Operation, OpGood, Resting, Minting, Chosen, Waiting, Creating, Locking
    <2>3. op' = [op EXCEPT ![a] = q]
      BY <1>3, Zenon
    <2> HIDE DEF q
    <2> QED BY <2>2, <2>3, GotoOK, Zenon DEF Count
  <1>4. op' = Ended(a, "done") \/ \E t \in {op[a].at, op[a].at + Grace} :
          op' = [op EXCEPT ![a] = [op[a] EXCEPT !.pc = "generating", !.at = t]]
    BY Zenon DEF Count, CountActive
  <1> QED BY <1>2, <1>3, <1>4, Zenon

LEMMA GenerateKeyOK ==
  ASSUME KeysInv, NEW a \in Goroutines, GenerateKey(a)
  PROVE  KeysInv'
  <1>1. op[a] \in Operation /\ OpGood(op[a]) /\ op[a].pc = "generating"
    BY OfOp, Zenon DEF GenerateKey, AtStep
  <1>2. CASE op' = Ended(a, "failed")
    BY <1>2, EndedOK, Zenon DEF GenerateKey
  <1>3. ASSUME NEW k \in Fresh, NEW t, t = ActivatesAt(a),
               op' = [op EXCEPT ![a] = [op[a] EXCEPT !.pc = "storing", !.kid = k, !.at = t]]
        PROVE  KeysInv'
    <2> DEFINE q == [op[a] EXCEPT !.pc = "storing", !.kid = k, !.at = t]
    <2>1. op[a].name # "mint" /\ op[a].began <= clock /\ clock <= op[a].began + OpTime
          /\ (op[a].at = op[a].began \/ op[a].at >= op[a].began + Grace)
      BY <1>1, Zenon DEF OpGood, Resting, Minting, Chosen
    <2>2. t \in Nat /\ (t = op[a].began \/ t >= op[a].began + Grace)
      BY <1>3, <2>1, OfOp DEF ActivatesAt
    <2>3. k \in KeyIDs \ Stored
      BY Zenon DEF Fresh
    <2>4. q \in Operation /\ OpGood(q) /\ q.kid = k
      BY <1>1, <2>1, <2>2, <2>3, Zenon DEF Operation, OpGood, Resting, Minting, Chosen, Waiting, Creating, Locking
    <2>5. op' = [op EXCEPT ![a] = q]
      BY <1>3, Zenon
    <2>6. keyHistory' \in HistoryT /\ signer'.version \in Nat
      BY Zenon DEF KeysInv, RowsOK, GenerateKey
    <2> HIDE DEF q
    <2> QED BY <2>4, <2>5, <2>6, OpStep, Zenon DEF GenerateKey
  <1>4. op' = Ended(a, "failed") \/ \E k \in Fresh :
          op' = [op EXCEPT ![a] = [op[a] EXCEPT !.pc = "storing", !.kid = k, !.at = ActivatesAt(a)]]
    <2>1. Fresh # {} => (CHOOSE k \in Fresh : TRUE) \in Fresh
      BY Zenon
    <2> QED BY <2>1, Zenon DEF GenerateKey
  <1> QED BY <1>2, <1>3, <1>4, Zenon

LEMMA DemoteBeginsOK ==
  ASSUME KeysInv, NEW a \in Goroutines, DemoteBegins(a)
  PROVE  KeysInv'
  <1> DEFINE q == [op[a] EXCEPT !.pc = "demoting", !.seen = Currents]
  <1>1. op[a] \in Operation /\ OpGood(op[a]) /\ op[a].pc = "storing"
    BY OfOp, Zenon DEF DemoteBegins, AtStep
  <1>2. Currents \subseteq Stored /\ Currents \in SUBSET KeyIDs
    BY Zenon DEF Currents, Active, Stored
  <1>3. q \in Operation /\ OpGood(q) /\ q.kid = op[a].kid /\ op[a].pc \in Creating
    BY <1>1, <1>2, Zenon DEF Operation, OpGood, Resting, Minting, Chosen, Waiting, Creating, Locking
  <1>4. op' = [op EXCEPT ![a] = q]
    BY Zenon DEF DemoteBegins
  <1> HIDE DEF q
  <1> QED BY <1>3, <1>4, GotoOK, Zenon DEF DemoteBegins

LEMMA DemotedOK ==
  ASSUME KeysInv, NEW a \in Goroutines, Demoted(a)
  PROVE  KeysInv'
  <1> DEFINE q == [op[a] EXCEPT !.pc = "inserting"]
  <1>1. op[a] \in Operation /\ OpGood(op[a]) /\ op[a].pc = "demoting"
    BY OfOp, Zenon DEF Demoted, AtStep
  <1>2. q \in Operation /\ OpGood(q) /\ q.kid = op[a].kid /\ op[a].pc \in Creating
    BY <1>1, Zenon DEF Operation, OpGood, Resting, Minting, Chosen, Waiting, Creating, Locking
  <1>3. op' = [op EXCEPT ![a] = q]
    BY Zenon DEF Demoted, Goto
  <1> HIDE DEF q
  <1> QED BY <1>2, <1>3, GotoOK, Zenon DEF Demoted

LEMMA LockForPromotionOK ==
  ASSUME KeysInv, NEW a \in Goroutines, LockForPromotion(a)
  PROVE  KeysInv'
  <1>1. op[a] \in Operation /\ OpGood(op[a]) /\ op[a].pc = "promoting"
    BY OfOp, Zenon DEF LockForPromotion, AtStep
  <1>2. CASE op' = Ended(a, "failed")
    BY <1>2, EndedOK, Zenon DEF LockForPromotion
  <1>3. CASE op' = [op EXCEPT ![a] = [op[a] EXCEPT !.seen = Active]]
    <2> DEFINE q == [op[a] EXCEPT !.seen = Active]
    <2>1. Active \subseteq Stored /\ Active \in SUBSET KeyIDs
      BY Zenon DEF Active, Stored
    <2>2. q \in Operation /\ OpGood(q) /\ q.pc \notin Creating
      BY <1>1, <2>1, Zenon DEF Operation, OpGood, Resting, Minting, Chosen, Waiting, Creating, Locking
    <2>3. op' = [op EXCEPT ![a] = q]
      BY <1>3, Zenon
    <2> HIDE DEF q
    <2> QED BY <2>2, <2>3, GotoOK, Zenon DEF LockForPromotion
  <1>4. op' = Ended(a, "failed") \/ op' = [op EXCEPT ![a] = [op[a] EXCEPT !.seen = Active]]
    BY Zenon DEF LockForPromotion
  <1> QED BY <1>2, <1>3, <1>4, Zenon

LEMMA FailuresOK ==
  ASSUME KeysInv, NEW a \in Goroutines, StoreFails(a) \/ PromotionFails(a) \/ SigningGivesUp(a)
  PROVE  KeysInv'
  BY EndedOK, Zenon DEF StoreFails, PromotionFails, SigningGivesUp

LEMMA InvalidateSignerOK ==
  ASSUME KeysInv, NEW a \in Goroutines, InvalidateSigner(a)
  PROVE  KeysInv'
  <1>1. signer.version \in Nat /\ keyHistory \in HistoryT
    BY Zenon DEF KeysInv, RowsOK
  <1>2. signer'.version \in Nat
    BY <1>1 DEF InvalidateSigner, NoSigner
  <1> QED BY <1>1, <1>2, EndsOK, Zenon DEF InvalidateSigner

(* ------------------------- the rows of a domain ------------------------ *)

(* Making k the current key of the domain. *)
LEMMA WithCurrentRows ==
  ASSUME KeysInv, NEW a \in Goroutines, NEW k \in KeyIDs, NEW t \in Nat, op[a].kid = k, op[a].seen \subseteq Stored,
         SingleCurrent(a), keyRows' = WithCurrent(a, [current |-> TRUE, activatesAt |-> t, removed |-> FALSE])
  PROVE  /\ keyRows' \in [KeyIDs -> Row \cup {None}]
         /\ Stored' = Stored \cup {k} /\ Active' = Active \cup {k} /\ Currents' = {k}
         /\ keyRows'[k].activatesAt = t
         /\ \A j \in Active \ {k} : keyRows'[j].activatesAt = keyRows[j].activatesAt
  <1> DEFINE new == [current |-> TRUE, activatesAt |-> t, removed |-> FALSE]
  <1>1. new \in Row /\ new.current /\ new.activatesAt = t /\ ~new.removed
    BY Zenon DEF Row
  <1> HIDE DEF new
  <1>2. keyRows \in [KeyIDs -> Row \cup {None}]
    BY Zenon DEF KeysInv, RowsOK
  <1>3. keyRows' = [j \in KeyIDs |-> IF j = k THEN new
                      ELSE IF j \in op[a].seen THEN [keyRows[j] EXCEPT !.current = FALSE] ELSE keyRows[j]]
    BY Zenon DEF WithCurrent, new
  <1>4. keyRows'[k] = new /\ new # None
    BY <1>1, <1>3, NoRow, Zenon
  <1>5. ASSUME NEW j \in KeyIDs \ {k}
        PROVE  /\ keyRows'[j] \in Row \cup {None} /\ (keyRows'[j] # None <=> keyRows[j] # None)
               /\ keyRows[j] # None => /\ keyRows'[j].removed = keyRows[j].removed
                                       /\ keyRows'[j].activatesAt = keyRows[j].activatesAt
                                       /\ j \in op[a].seen => ~keyRows'[j].current
               /\ j \notin op[a].seen => keyRows'[j] = keyRows[j]
    <2>1. CASE j \in op[a].seen
      <3>1. keyRows[j] \in Row
        BY <1>2, <2>1, Zenon DEF Stored
      <3>2. keyRows'[j] = [keyRows[j] EXCEPT !.current = FALSE]
        BY <1>3, <2>1, Zenon
      <3>3. /\ keyRows'[j] \in Row /\ keyRows'[j].removed = keyRows[j].removed
            /\ keyRows'[j].activatesAt = keyRows[j].activatesAt /\ ~keyRows'[j].current
        BY <3>1, <3>2, Zenon DEF Row
      <3> QED BY <2>1, <3>1, <3>3, NoRow, Zenon
    <2>2. CASE j \notin op[a].seen
      <3>1. keyRows'[j] = keyRows[j]
        BY <1>3, <2>2, Zenon
      <3> QED BY <1>2, <2>2, <3>1, Zenon
    <2> QED BY <2>1, <2>2, Zenon
  <1>6. keyRows' \in [KeyIDs -> Row \cup {None}]
    <2>1. \A j \in KeyIDs : keyRows'[j] \in Row \cup {None}
      BY <1>1, <1>4, <1>5, Zenon
    <2> QED BY <1>3, <2>1, Zenon
  <1>7. Stored' = Stored \cup {k}
    BY <1>4, <1>5, Zenon DEF Stored
  <1>8. Active' = Active \cup {k}
    <2>1. k \in Active'
      BY <1>1, <1>4, <1>7, Zenon DEF Active
    <2>2. ASSUME NEW j \in KeyIDs \ {k} PROVE j \in Active' <=> j \in Active
      BY <1>5, Zenon DEF Active, Stored
    <2>3. Active \subseteq KeyIDs /\ Active' \subseteq KeyIDs
      BY Zenon DEF Active, Stored
    <2> QED BY <2>1, <2>2, <2>3, Zenon
  <1>9. Currents' = {k}
    <2>1. k \in Currents'
      BY <1>1, <1>4, <1>8, Zenon DEF Currents
    <2>2. ASSUME NEW j \in Currents', j # k PROVE FALSE
      <3>1. j \in Active /\ j \in KeyIDs /\ keyRows[j] # None /\ keyRows'[j].current
        BY <1>8, <2>2, Zenon DEF Currents, Active, Stored
      <3>2. j \notin op[a].seen
        BY <1>5, <2>2, <3>1, Zenon
      <3>3. j \in Currents
        BY <1>5, <2>2, <3>1, <3>2, Zenon DEF Currents
      <3> QED BY <3>2, <3>3, Zenon DEF SingleCurrent
    <2> QED BY <2>1, <2>2, Zenon
  <1>10. \A j \in Active \ {k} : keyRows'[j].activatesAt = keyRows[j].activatesAt
    BY <1>5, Zenon DEF Active, Stored
  <1> QED BY <1>1, <1>4, <1>6, <1>7, <1>8, <1>9, <1>10, Zenon

(* Goroutine a makes k the current key and goes on to q. *)
LEMMA GrowStep ==
  ASSUME KeysInv, NEW a \in Goroutines, NEW k \in KeyIDs, NEW t \in Nat, op[a].kid = k, op[a].seen \subseteq Stored,
         SingleCurrent(a), keyRows' = WithCurrent(a, [current |-> TRUE, activatesAt |-> t, removed |-> FALSE]),
         UNCHANGED <<clock, signer, verifier>>, keyHistory' \in HistoryT, Known \subseteq Known',
         k \in Stored => k \in Known', k \in Known' \/ t > verifier.at + MaxAge,
         k \in Stored \/ op[a].pc \in Creating,
         NEW q \in Operation, op' = [op EXCEPT ![a] = q],
         q.pc \notin Creating \cup Chosen \cup Locking \cup {"promoting", "deleting"}, OpGood(q)
  PROVE  KeysInv'
  <1>1. /\ keyRows' \in [KeyIDs -> Row \cup {None}]
        /\ Stored' = Stored \cup {k} /\ Active' = Active \cup {k} /\ Currents' = {k}
        /\ keyRows'[k].activatesAt = t
        /\ \A j \in Active \ {k} : keyRows'[j].activatesAt = keyRows[j].activatesAt
    BY WithCurrentRows, Zenon
  <1>2. RowsOK'
    BY <1>1, Zenon DEF KeysInv, RowsOK
  <1>3. OneCurrentKey'
    BY <1>1, Zenon DEF OneCurrentKey
  <1>4. PublishedOK'
    BY <1>1, Zenon DEF KeysInv, PublishedOK
  <1>5. op \in [Goroutines -> Operation] /\ \A b \in Goroutines : OpGood(op[b])
    BY Zenon DEF KeysInv, OpsOK
  <1>6. op' \in [Goroutines -> Operation] /\ op'[a] = q /\ \A b \in Goroutines \ {a} : op'[b] = op[b]
    BY <1>5, Zenon
  <1>7. ASSUME NEW b \in Goroutines \ {a} PROVE OpGood(op[b])'
    <2>1. PICK o : o = op[b] /\ o = op'[b] /\ OpGood(o)
      BY <1>5, <1>6, Zenon
    <2>2. o.pc \in Creating => o.kid # k
      BY <2>1, Zenon DEF KeysInv, Distinct, OpGood
    <2>3. o.pc \in Chosen => (o.kid \in Active' => o.kid \in Known')
      BY <1>1, <2>1, Zenon DEF OpGood
    <2>4. OpGood(o)'
      BY <1>1, <2>1, <2>2, <2>3, Zenon DEF OpGood
    <2> QED BY <2>1, <2>4, Zenon DEF OpGood
  <1>8. OpGood(op[a])'
    BY <1>6, Zenon DEF OpGood
  <1>9. OpsOK'
    BY <1>6, <1>7, <1>8, Zenon DEF OpsOK
  <1>10. Distinct'
    BY <1>6, Zenon DEF KeysInv, Distinct
  <1> QED BY <1>2, <1>3, <1>4, <1>9, <1>10, Zenon DEF KeysInv

LEMMA InvalidatingFacts ==
  ASSUME NEW o \in Operation, OpGood(o), o.pc \notin Resting \cup Minting
  PROVE  LET q == [o EXCEPT !.pc = "invalidating", !.seen = {}]
         IN  q \in Operation /\ OpGood(q) /\ q.pc \notin Creating \cup Chosen \cup Locking \cup {"promoting", "deleting"}
  BY Zenon DEF Operation, OpGood, Resting, Minting, Chosen, Waiting, Creating, Locking

LEMMA EndedFacts ==
  ASSUME NEW o \in Operation, NEW pc \in {"idle", "done", "failed"}
  PROVE  LET q == [Idle EXCEPT !.pc = pc, !.name = o.name]
         IN  q \in Operation /\ OpGood(q) /\ q.pc \notin Creating \cup Chosen \cup Locking \cup {"promoting", "deleting"}
  BY Zenon DEF Operation, Idle, OpGood, Resting, Minting, Chosen, Waiting, Creating, Locking

(* A committed insertion, and what verifiers must know of it. *)
LEMMA InsertOK ==
  ASSUME KeysInv, NEW a \in Goroutines, Insert(a), UNCHANGED <<clock, signer, verifier>>,
         keyHistory' \in HistoryT, keyHistory'.promoted = keyHistory.promoted,
         keyHistory'.initial = keyHistory.initial \cup Unpublished(a),
         NEW q \in Operation, op' = [op EXCEPT ![a] = q],
         q.pc \notin Creating \cup Chosen \cup Locking \cup {"promoting", "deleting"}, OpGood(q)
  PROVE  KeysInv'
  <1>1. op[a] \in Operation /\ OpGood(op[a]) /\ op[a].pc = "inserting"
    BY OfOp, Zenon DEF Insert, AtStep
  <1>2. /\ op[a].kid \in KeyIDs \ Stored /\ op[a].seen \subseteq Stored /\ op[a].pc \in Creating
        /\ op[a].at = op[a].began \/ op[a].at >= op[a].began + Grace
        /\ clock <= op[a].began + OpTime
    BY <1>1, Zenon DEF OpGood, Resting, Minting, Chosen, Creating, Locking
  <1>3. Known \subseteq Known'
    BY Zenon DEF Known
  <1>4. op[a].kid \in Known' \/ op[a].at > verifier.at + MaxAge
    <2>1. CASE op[a].at = op[a].began
      BY <2>1, Zenon DEF Known, Unpublished
    <2>2. CASE op[a].at >= op[a].began + Grace
      <3>1. verifier.at \in Nat /\ verifier.at <= clock
        BY Zenon DEF KeysInv, RowsOK, VerifierT
      <3> QED BY <1>2, <2>2, <3>1, OfOp
    <2> QED BY <1>2, <2>1, <2>2, Zenon
  <1>5. op[a].at \in Nat
    BY OfOp, Zenon
  <1> QED BY <1>2, <1>3, <1>4, <1>5, GrowStep, Zenon DEF Insert

LEMMA HistoryGrows ==
  ASSUME KeysInv, NEW new \in SUBSET KeyIDs, NEW c \in BOOLEAN
  PROVE  /\ LET h == [keyHistory EXCEPT !.initial = @ \cup new]
             IN  h \in HistoryT /\ h.promoted = keyHistory.promoted /\ h.initial = keyHistory.initial \cup new
         /\ LET h == [keyHistory EXCEPT !.initial = @ \cup new, !.cancelled = c]
             IN  h \in HistoryT /\ h.promoted = keyHistory.promoted /\ h.initial = keyHistory.initial \cup new
         /\ LET h == [keyHistory EXCEPT !.cancelled = c]
             IN  h \in HistoryT /\ h.promoted = keyHistory.promoted /\ h.initial = keyHistory.initial
         /\ LET h == [keyHistory EXCEPT !.promoted = @ \cup new]
             IN  h \in HistoryT /\ h.promoted = keyHistory.promoted \cup new /\ h.initial = keyHistory.initial
  <1>1. keyHistory \in HistoryT
    BY Zenon DEF KeysInv, RowsOK
  <1> QED BY <1>1, Zenon DEF HistoryT

LEMMA UnpublishedKeys ==
  ASSUME KeysInv, NEW a \in Goroutines, Insert(a)
  PROVE  Unpublished(a) \in SUBSET KeyIDs
  <1>1. op[a] \in Operation /\ OpGood(op[a]) /\ op[a].pc = "inserting"
    BY OfOp, Zenon DEF Insert, AtStep
  <1>2. op[a].kid \in KeyIDs
    BY <1>1, Zenon DEF OpGood, Creating
  <1> QED BY <1>2, Zenon DEF Unpublished

LEMMA CreateAndSetCurrentOK ==
  ASSUME KeysInv, NEW a \in Goroutines, CreateAndSetCurrent(a)
  PROVE  KeysInv'
  <1>1. op[a] \in Operation /\ OpGood(op[a]) /\ op[a].pc = "inserting" /\ op[a].pc \notin Resting \cup Minting
    <2>1. op[a] \in Operation /\ OpGood(op[a]) /\ op[a].pc = "inserting"
      BY OfOp, Zenon DEF CreateAndSetCurrent, Insert, AtStep
    <2> QED BY <2>1, Zenon DEF Resting, Minting, Chosen
  <1>2. PICK q : /\ op' = [op EXCEPT ![a] = q] /\ q \in Operation /\ OpGood(q)
                 /\ q.pc \notin Creating \cup Chosen \cup Locking \cup {"promoting", "deleting"}
    <2>1. CASE op[a].name = "ensure"
      <3>1. op' = [op EXCEPT ![a] = [Idle EXCEPT !.pc = "done", !.name = op[a].name]]
        BY <2>1, Zenon DEF CreateAndSetCurrent, Ended
      <3>2. "done" \in {"idle", "done", "failed"}
        BY Zenon
      <3> QED BY <1>1, <3>1, <3>2, EndedFacts, Zenon
    <2>2. CASE op[a].name # "ensure"
      <3>1. op' = [op EXCEPT ![a] = [op[a] EXCEPT !.pc = "invalidating", !.seen = {}]]
        BY <1>1, <2>2, Zenon DEF CreateAndSetCurrent, Goto, KeysInv, OpsOK
      <3> QED BY <1>1, <3>1, InvalidatingFacts, Zenon
    <2> QED BY <2>1, <2>2, Zenon
  <1>3. /\ keyHistory' \in HistoryT /\ keyHistory'.promoted = keyHistory.promoted
        /\ keyHistory'.initial = keyHistory.initial \cup Unpublished(a)
    BY UnpublishedKeys, HistoryGrows, Zenon DEF CreateAndSetCurrent
  <1> QED BY <1>2, <1>3, InsertOK, Zenon DEF CreateAndSetCurrent

LEMMA BootstrapCancelledOK ==
  ASSUME KeysInv, NEW a \in Goroutines, BootstrapCancelled(a)
  PROVE  KeysInv'
  <1>1. PICK pc \in {"idle", "done", "failed"} : op' = Ended(a, pc)
    BY Zenon DEF BootstrapCancelled
  <1>2. op[a] \in Operation /\ signer.version \in Nat
    BY OfOp, Zenon
  <1>3. CASE Insert(a) /\ keyHistory' = [keyHistory EXCEPT !.initial = @ \cup Unpublished(a), !.cancelled = TRUE]
    <2>1. PICK q : /\ op' = [op EXCEPT ![a] = q] /\ q \in Operation /\ OpGood(q)
                   /\ q.pc \notin Creating \cup Chosen \cup Locking \cup {"promoting", "deleting"}
      BY <1>1, <1>2, EndedFacts, Zenon DEF Ended
    <2>2. /\ keyHistory' \in HistoryT /\ keyHistory'.promoted = keyHistory.promoted
          /\ keyHistory'.initial = keyHistory.initial \cup Unpublished(a)
      BY <1>3, UnpublishedKeys, HistoryGrows, Zenon
    <2> QED BY <1>3, <2>1, <2>2, InsertOK, Zenon DEF BootstrapCancelled
  <1>4. CASE UNCHANGED keyRows /\ keyHistory' = [keyHistory EXCEPT !.cancelled = TRUE]
    <2>1. /\ keyHistory' \in HistoryT /\ keyHistory'.promoted = keyHistory.promoted
          /\ keyHistory'.initial = keyHistory.initial
      BY <1>4, HistoryGrows, Zenon
    <2> QED BY <1>1, <1>2, <1>4, <2>1, EndsOK, Zenon DEF BootstrapCancelled
  <1> QED BY <1>3, <1>4, Zenon DEF BootstrapCancelled

LEMMA SetCurrentOK ==
  ASSUME KeysInv, NEW a \in Goroutines, SetCurrent(a)
  PROVE  KeysInv'
  <1>1. op[a] \in Operation /\ OpGood(op[a]) /\ op[a].pc = "promoting" /\ op[a].at \in Nat
    BY OfOp, Zenon DEF SetCurrent, AtStep
  <1>2. op[a].pc \notin Resting \cup Minting /\ op[a].kid \in Stored /\ op[a].seen \subseteq Stored
    BY <1>1, Zenon DEF OpGood, Resting, Minting, Chosen, Locking
  <1>3. op[a].kid \in KeyIDs
    BY <1>2, Zenon DEF Stored
  <1>4. PICK q : /\ op' = [op EXCEPT ![a] = q] /\ q \in Operation /\ OpGood(q)
                 /\ q.pc \notin Creating \cup Chosen \cup Locking \cup {"promoting", "deleting"}
    <2>1. op' = [op EXCEPT ![a] = [op[a] EXCEPT !.pc = "invalidating", !.seen = {}]]
      BY <1>1, Zenon DEF SetCurrent, Goto, KeysInv, OpsOK
    <2> QED BY <1>1, <1>2, <2>1, InvalidatingFacts, Zenon
  <1>5. /\ keyHistory' \in HistoryT /\ keyHistory'.promoted = keyHistory.promoted \cup {op[a].kid}
        /\ keyHistory'.initial = keyHistory.initial
    <2>1. {op[a].kid} \in SUBSET KeyIDs
      BY <1>3, Zenon
    <2> QED BY <2>1, HistoryGrows, Zenon DEF SetCurrent
  <1>6. Known \subseteq Known' /\ op[a].kid \in Known'
    BY <1>5, Zenon DEF Known, SetCurrent
  <1> QED BY <1>1, <1>2, <1>3, <1>4, <1>5, <1>6, GrowStep, Zenon DEF SetCurrent

LEMMA RemoveOK ==
  ASSUME KeysInv, NEW a \in Goroutines, Remove(a)
  PROVE  KeysInv'
  <1>1. op[a] \in Operation /\ OpGood(op[a]) /\ op[a].pc = "deleting"
    BY OfOp, Zenon DEF Remove, AtStep
  <1>2. CASE UNCHANGED keyRows /\ op' = Ended(a, "failed")
    BY <1>2, EndedOK, Zenon DEF Remove
  <1>3. CASE /\ op[a].kid \in Active /\ Deletable(op[a].kid, clock)
             /\ keyRows' = [keyRows EXCEPT ![op[a].kid].removed = TRUE] /\ op' = Goto(a, "invalidating")
    <2> DEFINE q == [op[a] EXCEPT !.pc = "invalidating"]
    <2>1. PICK k : k = op[a].kid
      BY Zenon
    <2>2. /\ k \in KeyIDs /\ keyRows[k] \in Row /\ k \in Active /\ ~keyRows[k].current
          /\ keyRows \in [KeyIDs -> Row \cup {None}]
      BY <1>3, <2>1, Zenon DEF KeysInv, RowsOK, Active, Stored, Deletable
    <2>3. PICK r : r = [keyRows[k] EXCEPT !.removed = TRUE]
      BY Zenon
    <2>4. r \in Row /\ r.removed
      BY <2>2, <2>3, Zenon DEF Row
    <2>5. keyRows' = [keyRows EXCEPT ![k] = r]
      BY <1>3, <2>1, <2>3, Zenon
    <2>6. keyRows' \in [KeyIDs -> Row \cup {None}] /\ keyRows'[k] = r /\ \A j \in KeyIDs \ {k} : keyRows'[j] = keyRows[j]
      BY <2>2, <2>4, <2>5, Zenon
    <2>7. Stored' = Stored
      BY <2>2, <2>4, <2>6, NoRow, Zenon DEF Stored
    <2>8. Active' = Active \ {k}
      <3>1. k \notin Active' /\ Active' \subseteq KeyIDs /\ Active \subseteq KeyIDs
        BY <2>4, <2>6, Zenon DEF Active, Stored
      <3>2. \A j \in KeyIDs \ {k} : j \in Active' <=> j \in Active
        BY <2>6, <2>7, Zenon DEF Active
      <3> QED BY <3>1, <3>2, Zenon
    <2>9. Currents' = Currents
      <3>1. k \notin Currents /\ Active \subseteq KeyIDs
        BY <2>2, Zenon DEF Currents, Active, Stored
      <3> QED BY <2>6, <2>8, <3>1, Zenon DEF Currents
    <2>10. RowsOK' /\ Known' = Known
      BY <2>6, Zenon DEF KeysInv, RowsOK, Known, Remove
    <2>11. OneCurrentKey'
      <3>1. ASSUME Active' # {} PROVE \E c \in Active' : Currents' = {c}
        <4>1. PICK c \in Active : Currents = {c}
          BY <2>8, <3>1, Zenon DEF KeysInv, OneCurrentKey
        <4>2. c # k
          BY <2>2, <4>1, Zenon DEF Currents
        <4> QED BY <2>8, <2>9, <4>1, <4>2, Zenon
      <3> QED BY <3>1, Zenon DEF OneCurrentKey
    <2>12. PublishedOK'
      <3>1. Active \subseteq KeyIDs
        BY Zenon DEF Active, Stored
      <3> QED BY <2>6, <2>8, <2>10, <3>1, Zenon DEF KeysInv, PublishedOK, Remove
    <2>13. q \in Operation /\ OpGood(q) /\ q.pc \notin Creating
      BY <1>1, Zenon DEF Operation, OpGood, Resting, Minting, Chosen, Waiting, Creating, Locking
    <2>14. op' = [op EXCEPT ![a] = q]
      BY <1>3, Zenon DEF Goto
    <2> HIDE DEF q
    <2>15. op \in [Goroutines -> Operation] /\ \A b \in Goroutines : OpGood(op[b])
      BY Zenon DEF KeysInv, OpsOK
    <2>16. op' \in [Goroutines -> Operation] /\ op'[a] = q /\ \A b \in Goroutines \ {a} : op'[b] = op[b]
      BY <2>13, <2>14, <2>15, Zenon
    <2>17. ASSUME NEW b \in Goroutines PROVE OpGood(op[b])'
      <3>1. PICK o : o = op'[b] /\ OpGood(o)
        BY <2>13, <2>15, <2>16, Zenon
      <3>2. OpGood(o)'
        BY <2>7, <2>8, <2>10, <3>1, Zenon DEF OpGood, Remove
      <3> QED BY <3>1, <3>2, Zenon DEF OpGood
    <2>18. Distinct'
      BY <2>13, <2>16, Zenon DEF KeysInv, Distinct
    <2> QED BY <2>10, <2>11, <2>12, <2>16, <2>17, <2>18, Zenon DEF KeysInv, OpsOK
  <1> QED BY <1>2, <1>3, Zenon DEF Remove, DeleteInDomain

(* ------------------------------- signing ------------------------------- *)

(* The key in effect is one verifiers know. *)
LEMMA EffectiveIsKnown ==
  ASSUME KeysInv, NEW k \in EffectiveCurrent(clock)
  PROVE  k \in Active /\ k \in Stored /\ k \in KeyIDs /\ k \in Known
  <1>1. k \in Active /\ k \in Stored /\ k \in KeyIDs /\ keyRows[k] \in Row /\ keyRows[k].activatesAt <= clock
    BY Zenon DEF EffectiveCurrent, Activated, Active, Stored, KeysInv, RowsOK
  <1>2. ~(keyRows[k].activatesAt > verifier.at + MaxAge)
    BY <1>1, KeyTimes DEF KeysInv, RowsOK, VerifierT, Row
  <1> QED BY <1>1, <1>2, Zenon DEF KeysInv, PublishedOK

LEMMA GetCurrentOK ==
  ASSUME KeysInv, NEW a \in Goroutines, GetCurrent(a)
  PROVE  KeysInv'
  <1>1. op[a] \in Operation /\ OpGood(op[a]) /\ op[a].pc = "minting"
    BY OfOp, Zenon DEF GetCurrent, AtStep
  <1>2. CASE op' = Ended(a, "failed")
    BY <1>2, EndedOK, Zenon DEF GetCurrent
  <1>3. ASSUME NEW k \in EffectiveCurrent(clock), NEW pc \in {"confirming", "holding"},
               op' = [op EXCEPT ![a] = [op[a] EXCEPT !.pc = pc, !.kid = k]]
        PROVE  KeysInv'
    <2> DEFINE q == [op[a] EXCEPT !.pc = pc, !.kid = k]
    <2>1. k \in Active /\ k \in Stored /\ k \in KeyIDs /\ k \in Known
      BY EffectiveIsKnown, Zenon
    <2>2. q \in Operation /\ OpGood(q) /\ q.pc \notin Creating
      BY <1>1, <2>1, Zenon DEF Operation, OpGood, Resting, Minting, Chosen, Waiting, Creating, Locking
    <2>3. op' = [op EXCEPT ![a] = q]
      BY <1>3, Zenon
    <2> HIDE DEF q
    <2> QED BY <2>2, <2>3, GotoOK, Zenon DEF GetCurrent
  <1>4. \/ op' = Ended(a, "failed")
        \/ \E k \in EffectiveCurrent(clock) : \E pc \in {"confirming", "holding"} :
             op' = [op EXCEPT ![a] = [op[a] EXCEPT !.pc = pc, !.kid = k]]
    BY Zenon DEF GetCurrent
  <1> QED BY <1>2, <1>3, <1>4, Zenon

(* A request that holds a key moves on with it. *)
LEMMA HeldOK ==
  ASSUME KeysInv, NEW a \in Goroutines, op[a].pc \in Chosen, NEW pc \in Chosen, NEW g \in Nat,
         op' = [op EXCEPT ![a] = [op[a] EXCEPT !.pc = pc, !.gen = g]],
         UNCHANGED <<keyRows, clock, verifier, keyHistory>>, signer'.version \in Nat
  PROVE  KeysInv'
  <1> DEFINE q == [op[a] EXCEPT !.pc = pc, !.gen = g]
  <1>1. op[a] \in Operation /\ OpGood(op[a]) /\ keyHistory \in HistoryT
    BY OfOp, Zenon
  <1>2. q \in Operation /\ OpGood(q) /\ q.pc \notin Creating
    BY <1>1, Zenon DEF Operation, OpGood, Resting, Minting, Chosen, Waiting, Creating, Locking
  <1>3. op' = [op EXCEPT ![a] = q]
    BY Zenon
  <1> HIDE DEF q
  <1> QED BY <1>1, <1>2, <1>3, OpStep, Zenon

LEMMA SignCIMDClientAssertionOK ==
  ASSUME KeysInv, NEW a \in Goroutines, SignCIMDClientAssertion(a)
  PROVE  KeysInv'
  <1>1. op[a] \in Operation /\ op[a].pc = "confirming" /\ signer.version \in Nat /\ op[a].gen \in Nat
    BY OfOp, Zenon DEF SignCIMDClientAssertion, AtStep, Operation
  <1>2. CASE op' = Ended(a, "failed")
    BY <1>2, EndedOK, Zenon DEF SignCIMDClientAssertion
  <1>3. CASE op' = Goto(a, "signed")
    <2>1. op' = [op EXCEPT ![a] = [op[a] EXCEPT !.pc = "signed", !.gen = op[a].gen]]
      BY <1>1, <1>3, Zenon DEF Goto, KeysInv, OpsOK, Operation
    <2> QED BY <1>1, <2>1, HeldOK, Zenon DEF SignCIMDClientAssertion, Chosen
  <1> QED BY <1>2, <1>3, Zenon DEF SignCIMDClientAssertion

LEMMA SigningMaterialOK ==
  ASSUME KeysInv, NEW a \in Goroutines, SigningMaterial(a)
  PROVE  KeysInv'
  <1>1. op[a] \in Operation /\ op[a].pc = "holding" /\ signer.version \in Nat /\ op[a].gen \in Nat
    BY OfOp, Zenon DEF SigningMaterial, AtStep, Operation
  <1>2. UNCHANGED <<keyRows, clock, verifier, keyHistory>> /\ signer'.version \in Nat
    BY <1>1 DEF SigningMaterial, NoSigner
  <1>3. \E pc \in Chosen, g \in Nat : op' = [op EXCEPT ![a] = [op[a] EXCEPT !.pc = pc, !.gen = g]]
    <2>1. CASE CachedFor(op[a].kid)
      <3>1. op' = [op EXCEPT ![a] = [op[a] EXCEPT !.pc = "signed", !.gen = op[a].gen]]
        <4>1. op' = [op EXCEPT ![a].pc = "signed", ![a].kid = op[a].kid] /\ op \in [Goroutines -> Operation]
          BY <2>1, Zenon DEF SigningMaterial, CachedFor, KeysInv, OpsOK
        <4>2. op' = [op EXCEPT ![a] = [op[a] EXCEPT !.pc = "signed", !.kid = op[a].kid]]
          BY <4>1, Zenon
        <4>3. \A o \in Operation : [o EXCEPT !.pc = "signed", !.kid = o.kid] = [o EXCEPT !.pc = "signed", !.gen = o.gen]
          BY Zenon DEF Operation
        <4> QED BY <1>1, <4>2, <4>3, Zenon
      <3> QED BY <1>1, <3>1, Zenon DEF Chosen
    <2>2. CASE ~CachedFor(op[a].kid)
      <3>1. op' = [op EXCEPT ![a] = [op[a] EXCEPT !.pc = "loading", !.gen = signer.version]]
        BY <1>1, <2>2, Zenon DEF SigningMaterial, KeysInv, OpsOK, Operation
      <3> QED BY <1>1, <3>1, Zenon DEF Chosen
    <2> QED BY <2>1, <2>2, Zenon
  <1>4. op[a].pc \in Chosen
    BY <1>1, Zenon DEF Chosen
  <1> QED BY <1>2, <1>3, <1>4, HeldOK, Zenon

LEMMA LoadAndCacheSignerOK ==
  ASSUME KeysInv, NEW l, LoadAndCacheSigner(l)
  PROVE  KeysInv'
  <1>1. PICK pc \in {"minting", "failed", "signed"} : Resume(l, pc)
    BY Zenon DEF LoadAndCacheSigner
  <1>2. UNCHANGED <<keyRows, clock, verifier, keyHistory>> /\ signer'.version \in Nat
    BY DEF LoadAndCacheSigner, KeysInv, RowsOK
  <1>3. Stored' = Stored /\ Active' = Active /\ Currents' = Currents /\ Known' = Known
    BY <1>2, SameRows, Zenon DEF Known
  <1>4. RowsOK' /\ OneCurrentKey' /\ PublishedOK'
    BY <1>2, <1>3, Zenon DEF KeysInv, RowsOK, OneCurrentKey, PublishedOK
  <1>5. ASSUME NEW a \in Goroutines
        PROVE  /\ op'[a] \in Operation /\ OpGood(op[a])'
               /\ op'[a] = op[a] \/ op'[a].pc \notin Creating
    <2>1. op[a] \in Operation /\ OpGood(op[a])
      BY OfOp, Zenon
    <2>2. PICK o : /\ o = op'[a] /\ o \in Operation /\ OpGood(o)
                   /\ o = op[a] \/ o.pc \notin Creating
      <3>1. CASE Waits(a, l)
        <4>1. op'[a] = [op[a] EXCEPT !.pc = pc, !.gen = 0] /\ op[a].pc = "loading"
          BY <1>1, <3>1, Zenon DEF Resume, Waits, AtStep
        <4>2. PICK o : o = [op[a] EXCEPT !.pc = pc, !.gen = 0]
          BY Zenon
        <4>3. o \in Operation /\ OpGood(o) /\ o.pc \notin Creating
          BY <2>1, <4>1, <4>2, Zenon DEF Operation, OpGood, Resting, Minting, Chosen, Waiting, Creating, Locking
        <4> QED BY <4>1, <4>2, <4>3, Zenon
      <3>2. CASE ~Waits(a, l)
        BY <1>1, <2>1, <3>2, Zenon DEF Resume
      <3> QED BY <3>1, <3>2, Zenon
    <2>3. OpGood(o)'
      BY <1>2, <1>3, <2>2, GoodFrame, Zenon
    <2> QED BY <2>2, <2>3, Zenon DEF OpGood
  <1>6. OpsOK'
    BY <1>1, <1>5, Zenon DEF OpsOK, Resume
  <1>7. Distinct'
    BY <1>5, Zenon DEF KeysInv, Distinct
  <1> QED BY <1>4, <1>6, <1>7, Zenon DEF KeysInv

(* ----------------------- time and verifiers ---------------------------- *)

LEMMA PassTimeOK ==
  ASSUME KeysInv, PassTime
  PROVE  KeysInv'
  <1>1. UNCHANGED <<keyRows, op, verifier, keyHistory>>
    BY Zenon DEF PassTime
  <1>2. Stored' = Stored /\ Active' = Active /\ Currents' = Currents /\ Known' = Known
    BY <1>1, SameRows, Zenon DEF Known
  <1>3. RowsOK' /\ clock' = clock + 1
    BY KeyTimes DEF PassTime, ExpireSigner, NoSigner, KeysInv, RowsOK, VerifierT
  <1>4. OneCurrentKey' /\ PublishedOK' /\ Distinct'
    BY <1>1, <1>2, Zenon DEF KeysInv, OneCurrentKey, PublishedOK, Distinct
  <1>5. ASSUME NEW a \in Goroutines PROVE OpGood(op[a])'
    <2>1. PICK o : o = op[a] /\ OpGood(o) /\ o.began \in Nat
      BY OfOp, Zenon
    <2>2. ASSUME o.pc \notin Resting \cup Minting PROVE o.began <= clock' /\ clock' <= o.began + OpTime
      <3>1. o.name # "mint" /\ o.began <= clock
        BY <2>1, <2>2, Zenon DEF OpGood
      <3>2. clock < o.began + OpTime
        BY <2>1, <2>2, <3>1, Zenon DEF PassTime
      <3> QED BY <1>3, <2>1, <3>1, <3>2, KeyTimes DEF KeysInv, RowsOK
    <2>3. OpGood(o)'
      BY <1>2, <2>1, <2>2, Zenon DEF OpGood
    <2> QED BY <1>1, <2>1, <2>3, Zenon DEF OpGood
  <1>6. OpsOK'
    BY <1>1, <1>5, Zenon DEF KeysInv, OpsOK
  <1> QED BY <1>3, <1>4, <1>6, Zenon DEF KeysInv

LEMMA FetchKeySetOK ==
  ASSUME KeysInv, FetchKeySet
  PROVE  KeysInv'
  <1>1. UNCHANGED <<keyRows, op, clock, signer, keyHistory>> /\ verifier' = [keys |-> Active, at |-> clock]
    BY Zenon DEF FetchKeySet
  <1>2. Stored' = Stored /\ Active' = Active /\ Currents' = Currents /\ Active \subseteq KeyIDs
    BY <1>1, SameRows, Zenon DEF Active, Stored
  <1>3. Active \subseteq Known'
    BY <1>1, Zenon DEF Known
  <1>4. RowsOK'
    BY <1>1, <1>2, KeyTimes DEF KeysInv, RowsOK, VerifierT
  <1>5. OneCurrentKey' /\ PublishedOK' /\ Distinct'
    BY <1>1, <1>2, <1>3, Zenon DEF KeysInv, OneCurrentKey, PublishedOK, Distinct
  <1>6. ASSUME NEW a \in Goroutines PROVE OpGood(op[a])'
    <2>1. PICK o : o = op[a] /\ OpGood(o)
      BY OfOp, Zenon
    <2>2. OpGood(o)'
      BY <1>1, <1>2, <1>3, <2>1, Zenon DEF OpGood
    <2> QED BY <1>1, <2>1, <2>2, Zenon DEF OpGood
  <1>7. OpsOK'
    BY <1>1, <1>6, Zenon DEF KeysInv, OpsOK
  <1> QED BY <1>4, <1>5, <1>7, Zenon DEF KeysInv

(* ---------------------------- the theorems ----------------------------- *)

(* The rows a replica finds at its start: a domain with keys has its one    *)
(* current key.                                                             *)
StartingRows(rows) ==
  /\ rows \in [KeyIDs -> Row \cup {None}]
  /\ (\E k \in KeyIDs : rows[k] # None /\ ~rows[k].removed) =>
       \E k \in KeyIDs : {j \in KeyIDs : rows[j] # None /\ ~rows[j].removed /\ rows[j].current} = {k}

LEMMA KeyInitOK ==
  ASSUME NEW cimd \in BOOLEAN, NEW rows, NEW script \in [Goroutines -> Seq(STRING)], NEW until \in Nat,
         StartingRows(rows), KeyInit(cimd, rows, script, until)
  PROVE  KeysInv
  <1>1. /\ keyRows = rows /\ clock = 0 /\ op = [a \in Goroutines |-> Idle]
        /\ Stored = {k \in KeyIDs : rows[k] # None} /\ Stored \subseteq KeyIDs
    BY Zenon DEF KeyInit, KeyRest, Stored
  <1>2. verifier = [keys |-> Stored, at |-> 0] /\ signer = [kid |-> None, expiresAt |-> 0, version |-> 0]
    BY <1>1, Zenon DEF KeyInit, KeyRest
  <1>3. keyHistory = [cimd |-> cimd, script |-> script, until |-> until, cancelled |-> FALSE, initial |-> {},
                      promoted |-> Stored]
    BY <1>1, Zenon DEF KeyInit
  <1>4. RowsOK
    <2>1. keyHistory \in HistoryT /\ verifier \in VerifierT
      BY <1>1, <1>2, <1>3, Zenon DEF HistoryT, VerifierT
    <2> QED BY <1>1, <1>2, <2>1, KeyTimes DEF RowsOK, StartingRows
  <1>5. Active \subseteq Known
    BY <1>3, Zenon DEF Known, Active
  <1>6. OneCurrentKey
    <2>1. ASSUME Active # {} PROVE \E k \in Active : Currents = {k}
      <3>1. Currents = {j \in KeyIDs : rows[j] # None /\ ~rows[j].removed /\ rows[j].current}
        BY <1>1, Zenon DEF Currents, Active, Stored
      <3>2. PICK k \in KeyIDs : Currents = {k}
        BY <1>1, <2>1, <3>1, Zenon DEF StartingRows, Active, Stored
      <3> QED BY <3>2, Zenon DEF Currents
    <2> QED BY <2>1, Zenon DEF OneCurrentKey
  <1>7. Idle \in Operation /\ OpGood(Idle) /\ Idle.pc \notin Creating
    BY Zenon DEF Idle, Operation, OpGood, Resting, Minting, Chosen, Waiting, Creating, Locking
  <1>8. OpsOK /\ Distinct
    BY <1>1, <1>7, Zenon DEF OpsOK, Distinct
  <1> QED BY <1>4, <1>5, <1>6, <1>8, Zenon DEF KeysInv, PublishedOK

LEMMA KeyNextOK ==
  ASSUME KeysInv, [KeyNext]_keyVars
  PROVE  KeysInv'
  <1>1. ASSUME NEW a \in Goroutines, KeyAdministration(a) PROVE KeysInv'
    BY <1>1, BeginOK, WithBootstrapLockOK, CountOK, GenerateKeyOK, BootstrapCancelledOK, DemoteBeginsOK, DemotedOK,
       CreateAndSetCurrentOK, FailuresOK, LockForPromotionOK, SetCurrentOK, RemoveOK, InvalidateSignerOK, Zenon
       DEF KeyAdministration
  <1>2. ASSUME NEW a \in Goroutines, Signing(a) PROVE KeysInv'
    BY <1>2, BeginOK, GetCurrentOK, SignCIMDClientAssertionOK, SigningMaterialOK, FailuresOK, Zenon DEF Signing
  <1>3. CASE UNCHANGED keyVars
    <2>1. UNCHANGED <<keyRows, clock, op, signer, verifier, keyHistory>>
      BY <1>3, Zenon DEF keyVars
    <2>2. Stored' = Stored /\ Active' = Active /\ Currents' = Currents /\ Known' = Known
      BY <2>1, SameRows, Zenon DEF Known
    <2> QED BY <2>1, <2>2, Zenon DEF KeysInv, RowsOK, OneCurrentKey, PublishedOK, OpsOK, OpGood, Distinct
  <1> QED BY <1>1, <1>2, <1>3, LoadAndCacheSignerOK, PassTimeOK, FetchKeySetOK, Zenon DEF KeyNext

(* The inductive invariant of the signing keys, whatever each goroutine is *)
(* asked to do and however the steps of their transactions interleave      *)
(* (KeyManager and the key repository).                                    *)
THEOREM KeysInvariant ==
  ASSUME NEW CONSTANT cimd \in BOOLEAN, NEW CONSTANT rows, NEW CONSTANT script \in [Goroutines -> Seq(STRING)],
         NEW CONSTANT until \in Nat, StartingRows(rows)
  PROVE  KeySpec(cimd, rows, script, until) => []KeysInv
  <1>1. KeyInit(cimd, rows, script, until) => KeysInv
    BY KeyInitOK, Zenon
  <1>2. KeysInv /\ [KeyNext]_keyVars => KeysInv'
    BY KeyNextOK, Zenon
  <1> QED BY <1>1, <1>2, PTL DEF KeySpec

(* A domain that has keys has exactly one current key at every moment,     *)
(* however CreateAndSetCurrent, SetCurrent and DeleteInDomain interleave.  *)
THEOREM OneKeyIsCurrent ==
  ASSUME NEW CONSTANT cimd \in BOOLEAN, NEW CONSTANT rows, NEW CONSTANT script \in [Goroutines -> Seq(STRING)],
         NEW CONSTANT until \in Nat, StartingRows(rows)
  PROVE  KeySpec(cimd, rows, script, until) => []OneCurrentKey
  <1>1. KeysInv => OneCurrentKey
    BY Zenon DEF KeysInv
  <1> QED BY <1>1, KeysInvariant, PTL

(* A verifier that honours max-age knows the active key a token was signed *)
(* with, unless an operator promoted the key at once or it is the first of *)
(* its domain: AddKey activates a key a grace period ahead.                *)
THEOREM VerifiersKnowTheSigner ==
  ASSUME NEW CONSTANT cimd \in BOOLEAN, NEW CONSTANT rows, NEW CONSTANT script \in [Goroutines -> Seq(STRING)],
         NEW CONSTANT until \in Nat, StartingRows(rows)
  PROVE  KeySpec(cimd, rows, script, until) => []VerifierKnowsSigner
  <1>1. KeysInv => VerifierKnowsSigner
    <2>1. "signed" \in Chosen
      BY Zenon DEF Chosen
    <2> QED BY <2>1, Zenon DEF KeysInv, OpsOK, OpGood, VerifierKnowsSigner, AtStep, Known
  <1> QED BY <1>1, KeysInvariant, PTL

(***************************************************************************)
(* Client assertions.  An assertion that was spent is in the replay store  *)
(* until its expiry and the skew have passed, when it is refused for its   *)
(* age; Spent(a) says so, and that it was spent again only then.           *)
(***************************************************************************)
KeyEntry == [keys : SUBSET KIDs, fetchedAt : Nat, lastRefetchAt : Nat]
Spending == [offered : SUBSET Assertions, calls : Nat, changes : Nat, evictions : Nat, ticks : Nat]
(* A verification that is not over has the assertion it verifies.          *)
Underway(c) == c \in Verification /\ (c.pc \notin Over => c.assertion \in Assertions)
Spent(a) ==
  /\ spent[a].times >= 1 => Consumed(a) \in replays \/ a.exp + Skew < time
  /\ spent[a].times > 1 => spent[a].at > a.exp + Skew
AssertionInv ==
  /\ time \in Nat /\ published \subseteq KIDs /\ keyEntry \in KeyEntry \cup {Nothing}
  /\ fetching \in Flight \cup {Nothing} /\ refreshing \in Flight \cup {Nothing} /\ allowance \in Spending
  /\ verify \in [Verifications -> Verification] /\ \A v \in Verifications : Underway(verify[v])
  /\ spent \in [Assertions -> [at : Nat, times : Nat]]
  /\ \A a \in Assertions : Spent(a)

(* The parts of the invariant, as the steps disturb them.                  *)
Cached == keyEntry \in KeyEntry \cup {Nothing} /\ fetching \in Flight \cup {Nothing} /\ refreshing \in Flight \cup {Nothing}
Calls == verify \in [Verifications -> Verification] /\ \A v \in Verifications : Underway(verify[v])
Records == spent \in [Assertions -> [at : Nat, times : Nat]] /\ \A a \in Assertions : Spent(a)

LEMMA SpendOK ==
  ASSUME allowance \in Spending, NEW b \in {"calls", "changes", "evictions", "ticks"}, Spend(b)
  PROVE  allowance' \in Spending
  BY DEF Spend, Spending

(* Records stay while the clock, the store and the history do. *)
LEMMA RecordsFrame ==
  ASSUME Records, UNCHANGED <<time, spending>>
  PROVE  Records'
  <1>1. UNCHANGED time /\ UNCHANGED spent /\ UNCHANGED replays
    BY Zenon DEF spending
  <1> QED BY <1>1, Zenon DEF Records, Spent

LEMMA CallStep ==
  ASSUME Calls, NEW v \in Verifications, NEW c, verify' = [verify EXCEPT ![v] = c], Underway(c)
  PROVE  Calls'
  <1>1. c \in Verification
    BY Zenon DEF Underway
  <1>2. verify' \in [Verifications -> Verification] /\ \A w \in Verifications : verify'[w] = c \/ verify'[w] = verify[w]
    BY <1>1, Zenon DEF Calls
  <1> QED BY <1>2, Zenon DEF Calls, Underway

LEMMA ConcludeOK ==
  ASSUME Calls, NEW v \in Verifications, NEW pc \in {"accepted", "rejected", "unavailable"}, Conclude(v, pc)
  PROVE  Calls'
  <1>1. Underway([NoVerification EXCEPT !.pc = pc])
    BY Zenon DEF Underway, NoVerification, Verification, Over
  <1> QED BY <1>1, CallStep, Zenon DEF Conclude

LEMMA WithKeysOK ==
  ASSUME NEW c \in Verification, c.assertion \in Assertions, NEW keys \in SUBSET KIDs
  PROVE  Underway(WithKeys(c, keys))
  BY Zenon DEF Underway, WithKeys, Verification

LEMMA InvParts ==
  /\ AssertionInv <=> /\ time \in Nat /\ published \subseteq KIDs /\ allowance \in Spending
                      /\ Cached /\ Calls /\ Records
  BY Zenon DEF AssertionInv, Cached, Calls, Records

(* A step of the calls and the caches that leaves clock and records alone. *)
LEMMA QuietStep ==
  ASSUME AssertionInv, UNCHANGED <<time, keySource, spending>>, allowance' \in Spending, Cached', Calls'
  PROVE  AssertionInv'
  <1>1. UNCHANGED time /\ UNCHANGED published
    BY Zenon DEF keySource
  <1>2. Records'
    BY InvParts, RecordsFrame, Zenon
  <1> QED BY <1>1, <1>2, InvParts, Zenon DEF AssertionInv, Cached, Calls, Records

LEMMA CallBeginsOK ==
  ASSUME AssertionInv, NEW v \in Verifications, Verify(v) \/ Malformed(v)
  PROVE  AssertionInv'
  <1>1. allowance \in Spending /\ Cached /\ Calls /\ Spend("calls") /\ UNCHANGED <<time, keySource, keyCache, spending>>
    BY InvParts, Zenon DEF Verify, Malformed
  <1>2. allowance' \in Spending
    BY <1>1, SpendOK, Zenon
  <1>3. Cached'
    BY <1>1, Zenon DEF Cached, keyCache
  <1>4. Calls'
    <2>1. CASE Malformed(v)
      BY <1>1, <2>1, ConcludeOK, Zenon DEF Malformed
    <2>2. CASE Verify(v)
      <3>1. PICK a \in allowance.offered : verify' = [verify EXCEPT ![v] = [NoVerification EXCEPT !.pc = "keys", !.assertion = a]]
        BY <2>2, Zenon DEF Verify
      <3>2. a \in Assertions
        BY <1>1, <3>1, Zenon DEF Spending
      <3>3. Underway([NoVerification EXCEPT !.pc = "keys", !.assertion = a])
        BY <3>2, Zenon DEF Underway, NoVerification, Verification
      <3> QED BY <1>1, <3>1, <3>3, CallStep, Zenon
    <2> QED BY <2>1, <2>2, Zenon
  <1> QED BY <1>1, <1>2, <1>3, <1>4, QuietStep, Zenon

LEMMA OfCall ==
  ASSUME AssertionInv, NEW v \in Verifications
  PROVE  /\ Calls /\ verify[v] \in Verification /\ (verify[v].pc \notin Over => verify[v].assertion \in Assertions)
         /\ verify \in [Verifications -> Verification]
  BY InvParts, Zenon DEF Calls, Underway

LEMMA KeysForOK ==
  ASSUME AssertionInv, NEW v \in Verifications, KeysFor(v)
  PROVE  AssertionInv'
  <1>1. /\ allowance' \in Spending /\ Cached /\ Calls /\ UNCHANGED <<time, keySource, keyCache, spending>>
    BY InvParts, Zenon DEF KeysFor
  <1>2. Cached'
    BY <1>1, Zenon DEF Cached, keyCache
  <1>3. verify[v] \in Verification /\ verify[v].assertion \in Assertions
    <2>1. verify[v].pc \notin Over
      BY Zenon DEF KeysFor, Over
    <2> QED BY <2>1, OfCall, Zenon
  <1>4. PICK call : call = [verify[v] EXCEPT !.again = At(v, "refresh")]
    BY Zenon
  <1>5. call \in Verification /\ call.assertion \in Assertions
    BY <1>3, <1>4, Zenon DEF Verification, At
  <1>6. verify' = [verify EXCEPT ![v] = IF UpToDate(keyEntry) THEN WithKeys(call, keyEntry.keys) ELSE [call EXCEPT !.pc = "joining"]]
    BY <1>4, Zenon DEF KeysFor
  <1>7. Calls'
    <2>1. CASE UpToDate(keyEntry)
      <3>1. keyEntry.keys \in SUBSET KIDs
        BY <1>1, <2>1, Zenon DEF UpToDate, Cached, KeyEntry
      <3>2. Underway(WithKeys(call, keyEntry.keys))
        BY <1>5, <3>1, WithKeysOK, Zenon
      <3> QED BY <1>1, <1>6, <2>1, <3>2, CallStep, Zenon
    <2>2. CASE ~UpToDate(keyEntry)
      <3>1. Underway([call EXCEPT !.pc = "joining"])
        BY <1>5, Zenon DEF Underway, Verification
      <3> QED BY <1>1, <1>6, <2>2, <3>1, CallStep, Zenon
    <2> QED BY <2>1, <2>2, Zenon
  <1> QED BY <1>1, <1>2, <1>7, QuietStep, Zenon

(* A call goes on with what it has. *)
LEMMA StepOK ==
  ASSUME AssertionInv, NEW v \in Verifications, verify[v].pc \notin Over,
         NEW pc \in {"fetching", "refreshing", "claims"}, Step(v, pc)
  PROVE  Calls'
  <1>1. Calls /\ verify[v] \in Verification /\ verify[v].assertion \in Assertions
    BY OfCall, Zenon
  <1>2. Underway([verify[v] EXCEPT !.pc = pc])
    BY <1>1, Zenon DEF Underway, Verification
  <1>3. verify' = [verify EXCEPT ![v] = [verify[v] EXCEPT !.pc = pc]]
    BY Zenon DEF Step
  <1> QED BY <1>1, <1>2, <1>3, CallStep, Zenon

LEMMA JoinsOK ==
  ASSUME AssertionInv, NEW v \in Verifications, JoinFetch(v) \/ JoinRefresh(v)
  PROVE  AssertionInv'
  <1>1. allowance' \in Spending /\ Cached /\ UNCHANGED <<time, keySource, spending>> /\ time \in Nat
    BY InvParts, Zenon DEF JoinFetch, JoinRefresh
  <1>2. verify[v].pc \notin Over
    BY Zenon DEF JoinFetch, JoinRefresh, At, Over
  <1>3. Calls'
    BY <1>2, StepOK, Zenon DEF JoinFetch, JoinRefresh
  <1>4. verify[v].keys \in SUBSET KIDs
    BY OfCall, Zenon DEF Verification
  <1>5. \A keys \in SUBSET KIDs : NewFlight(keys) \in Flight
    BY <1>1, Zenon DEF NewFlight, Flight
  <1>6. Cached'
    BY <1>1, <1>4, <1>5, Zenon DEF Cached, JoinFetch, JoinRefresh
  <1> QED BY <1>1, <1>3, <1>6, QuietStep, Zenon

LEMMA ClaimsOK ==
  ASSUME AssertionInv, NEW v \in Verifications, LookupKeyID(v) \/ ValidateClaims(v)
  PROVE  AssertionInv'
  <1>1. /\ allowance' \in Spending /\ Cached /\ Calls /\ UNCHANGED <<time, keySource, keyCache, spending>>
    BY InvParts, Zenon DEF LookupKeyID, ValidateClaims
  <1>2. Cached'
    BY <1>1, Zenon DEF Cached, keyCache
  <1>3. verify[v].pc \notin Over
    BY Zenon DEF LookupKeyID, ValidateClaims, At, Over
  <1>4. CASE Conclude(v, "rejected")
    <2>1. Calls'
      BY <1>1, <1>4, ConcludeOK, Zenon
    <2> QED BY <1>1, <1>2, <2>1, QuietStep, Zenon
  <1>5. CASE Step(v, "claims")
    <2>1. Calls'
      BY <1>3, <1>5, StepOK, Zenon
    <2> QED BY <1>1, <1>2, <2>1, QuietStep, Zenon
  <1>6. CASE verify' = [verify EXCEPT ![v].pc = "consume", ![v].keys = {}, ![v].again = FALSE]
    <2>1. verify[v] \in Verification /\ verify[v].assertion \in Assertions /\ verify \in [Verifications -> Verification]
      BY <1>3, OfCall, Zenon
    <2>2. verify' = [verify EXCEPT ![v] = [verify[v] EXCEPT !.pc = "consume", !.keys = {}, !.again = FALSE]]
      BY <1>6, <2>1, Zenon
    <2>3. Underway([verify[v] EXCEPT !.pc = "consume", !.keys = {}, !.again = FALSE])
      BY <2>1, Zenon DEF Underway, Verification
    <2>4. Calls'
      BY <1>1, <2>2, <2>3, CallStep, Zenon
    <2> QED BY <1>1, <1>2, <2>4, QuietStep, Zenon
  <1> QED BY <1>4, <1>5, <1>6, Zenon DEF LookupKeyID, ValidateClaims

(* Everyone who waits for a flight goes on with its keys, or without. *)
LEMMA FlightLands ==
  ASSUME AssertionInv, NEW keys \in SUBSET KIDs,
         \/ Fetched(keys) \/ Refreshed(keys) \/ \E pc \in {"fetching", "refreshing"} : Unavailable(pc)
  PROVE  Calls'
  <1>1. Calls /\ \A v \in Verifications : Underway(verify[v])
    BY InvParts, Zenon DEF Calls
  <1>2. ASSUME NEW v \in Verifications, At(v, "fetching") \/ At(v, "refreshing")
        PROVE  verify[v] \in Verification /\ verify[v].assertion \in Assertions
    <2>1. verify[v].pc \notin Over
      BY <1>2, Zenon DEF At, Over
    <2> QED BY <2>1, OfCall, Zenon
  <1>3. CASE Fetched(keys)
    <2>1. \A v \in Verifications : Underway(IF At(v, "fetching") THEN WithKeys(verify[v], keys) ELSE verify[v])
      BY <1>1, <1>2, WithKeysOK, Zenon
    <2> QED BY <1>1, <1>3, <2>1, Zenon DEF Fetched, Calls, Underway
  <1>4. CASE Refreshed(keys)
    <2>1. \A c \in Verification : c.assertion \in Assertions => Underway([c EXCEPT !.keys = keys, !.pc = "lookup"])
      BY Zenon DEF Underway, Verification
    <2>2. \A v \in Verifications : Underway(IF At(v, "refreshing") THEN [verify[v] EXCEPT !.keys = keys, !.pc = "lookup"]
                                            ELSE verify[v])
      BY <1>1, <1>2, <2>1, Zenon
    <2> QED BY <1>1, <1>4, <2>2, Zenon DEF Refreshed, Calls, Underway
  <1>5. ASSUME NEW pc, Unavailable(pc) PROVE Calls'
    <2>1. Underway([NoVerification EXCEPT !.pc = "unavailable"])
      BY Zenon DEF Underway, NoVerification, Verification, Over
    <2>2. \A v \in Verifications : Underway(IF At(v, pc) THEN [NoVerification EXCEPT !.pc = "unavailable"] ELSE verify[v])
      BY <1>1, <2>1, Zenon
    <2> QED BY <1>1, <1>5, <2>2, Zenon DEF Unavailable, Calls, Underway
  <1> QED BY <1>3, <1>4, <1>5, Zenon

LEMMA FlightFacts ==
  ASSUME AssertionInv
  PROVE  /\ keyEntry # Nothing => keyEntry \in KeyEntry /\ keyEntry.keys \in SUBSET KIDs
         /\ fetching # Nothing => fetching.keys \in SUBSET KIDs
         /\ refreshing # Nothing => refreshing.keys \in SUBSET KIDs /\ refreshing.since \in Nat
         /\ [stage |-> "requested", keys |-> published, since |-> time] \in Flight
         /\ time \in Nat /\ Calls /\ {} \in SUBSET KIDs
  <1>1. Cached /\ time \in Nat /\ published \in SUBSET KIDs /\ Calls
    BY InvParts, Zenon
  <1> QED BY <1>1, Zenon DEF Cached, KeyEntry, Flight

LEMMA StoreCacheEntryOK ==
  ASSUME AssertionInv, NEW keys \in SUBSET KIDs, NEW last \in Nat
  PROVE  StoreCacheEntry(keys, last) \in KeyEntry
  BY FlightFacts, Zenon DEF StoreCacheEntry, KeyEntry

LEMMA UnchangedCalls ==
  ASSUME Calls, UNCHANGED verify
  PROVE  Calls'
  BY Zenon DEF Calls, Underway

LEMMA FetchOK ==
  ASSUME AssertionInv, FetchBegins \/ FetchEnds
  PROVE  AssertionInv'
  <1>1. allowance' \in Spending /\ Cached /\ UNCHANGED <<time, keySource, spending>> /\ UNCHANGED refreshing
    BY InvParts, Zenon DEF FetchBegins, FetchEnds
  <1>2. Calls'
    <2>1. CASE FetchBegins
      <3>1. CASE UpToDate(keyEntry)
        BY <2>1, <3>1, FlightFacts, FlightLands, Zenon DEF FetchBegins, UpToDate
      <3>2. CASE ~UpToDate(keyEntry)
        BY <2>1, <3>2, FlightFacts, UnchangedCalls, Zenon DEF FetchBegins
      <3> QED BY <3>1, <3>2, Zenon
    <2>2. CASE FetchEnds
      <3>1. fetching.keys \in SUBSET KIDs /\ (Fetched(fetching.keys) \/ Unavailable("fetching"))
        BY <2>2, FlightFacts, Zenon DEF FetchEnds, FetchFails
      <3> QED BY <3>1, FlightLands, Zenon
    <2> QED BY <2>1, <2>2, Zenon
  <1>3. fetching' \in Flight \cup {Nothing}
    BY FlightFacts, Zenon DEF FetchBegins, FetchEnds
  <1>4. keyEntry' \in KeyEntry \cup {Nothing}
    <2>1. fetching # Nothing => StoreCacheEntry(fetching.keys, time) \in KeyEntry
      BY FlightFacts, StoreCacheEntryOK, Zenon
    <2> QED BY <1>1, <2>1, Zenon DEF FetchBegins, FetchEnds, Cached
  <1>5. Cached'
    BY <1>1, <1>3, <1>4, Zenon DEF Cached
  <1> QED BY <1>1, <1>2, <1>5, QuietStep, Zenon

LEMMA RefreshOK ==
  ASSUME AssertionInv, RefreshBegins \/ RefreshEnds
  PROVE  AssertionInv'
  <1>1. allowance' \in Spending /\ Cached /\ UNCHANGED <<time, keySource, spending>> /\ UNCHANGED fetching
    BY InvParts, Zenon DEF RefreshBegins, RefreshEnds
  <1>2. Calls'
    <2>1. CASE RefreshBegins
      <3>1. CASE keyEntry = Nothing \/ TooSoon
        <4>1. (IF keyEntry = Nothing THEN refreshing.keys ELSE keyEntry.keys) \in SUBSET KIDs
          BY <2>1, FlightFacts, Zenon DEF RefreshBegins
        <4> QED BY <2>1, <3>1, <4>1, FlightLands, Zenon DEF RefreshBegins
      <3>2. CASE ~(keyEntry = Nothing \/ TooSoon)
        BY <2>1, <3>2, FlightFacts, UnchangedCalls, Zenon DEF RefreshBegins
      <3> QED BY <3>1, <3>2, Zenon
    <2>2. CASE RefreshEnds
      <3>1. refreshing.keys \in SUBSET KIDs /\ (Refreshed(refreshing.keys) \/ Unavailable("refreshing"))
        BY <2>2, FlightFacts, Zenon DEF RefreshEnds
      <3> QED BY <3>1, FlightLands, Zenon
    <2> QED BY <2>1, <2>2, Zenon
  <1>3. refreshing' \in Flight \cup {Nothing}
    BY FlightFacts, Zenon DEF RefreshBegins, RefreshEnds
  <1>4. keyEntry' \in KeyEntry \cup {Nothing}
    <2>1. refreshing # Nothing => StoreCacheEntry(refreshing.keys, refreshing.since) \in KeyEntry
      BY FlightFacts, StoreCacheEntryOK, Zenon
    <2>2. keyEntry # Nothing => MarkRefetch \in KeyEntry
      BY FlightFacts, Zenon DEF MarkRefetch, KeyEntry
    <2> QED BY <1>1, <2>1, <2>2, Zenon DEF RefreshBegins, RefreshEnds, Cached
  <1>5. Cached'
    BY <1>1, <1>3, <1>4, Zenon DEF Cached
  <1> QED BY <1>1, <1>2, <1>5, QuietStep, Zenon

(* ------------------------ spending an assertion ------------------------ *)

(* An assertion that is not in the store and was spent before has expired. *)
LEMMA SpentBefore ==
  ASSUME Records, NEW a \in Assertions, ~\E r \in replays : r.jti = a.jti
  PROVE  spent[a].times >= 1 => a.exp + Skew < time
  <1>1. Consumed(a) \notin replays
    BY Zenon DEF Consumed
  <1> QED BY <1>1, Zenon DEF Records, Spent

LEMMA AcceptedOK ==
  ASSUME Records, time \in Nat, NEW a \in Assertions, ~\E r \in replays : r.jti = a.jti, UNCHANGED time,
         replays' = replays \cup {Consumed(a)},
         spent' = [spent EXCEPT ![a] = [at |-> time, times |-> IF @.times < 2 THEN @.times + 1 ELSE 2]]
  PROVE  Records'
  <1>1. spent \in [Assertions -> [at : Nat, times : Nat]] /\ spent[a].times \in Nat /\ a.exp \in Nat /\ Skew \in Nat
    BY AssertionTimes, Zenon DEF Records
  <1>2. PICK n : n = IF spent[a].times < 2 THEN spent[a].times + 1 ELSE 2
    BY Zenon
  <1>3. n \in Nat /\ (n > 1 => spent[a].times >= 1)
    BY <1>1, <1>2
  <1>4. spent' = [spent EXCEPT ![a] = [at |-> time, times |-> n]]
    BY <1>2, Zenon
  <1>5. PICK s : s = [at |-> time, times |-> n]
    BY Zenon
  <1>6. s \in [at : Nat, times : Nat] /\ s.at = time /\ s.times = n
    BY <1>3, <1>5, Zenon
  <1>7. /\ spent' \in [Assertions -> [at : Nat, times : Nat]] /\ spent'[a] = s
        /\ \A b \in Assertions \ {a} : spent'[b] = spent[b]
    BY <1>1, <1>4, <1>5, <1>6, Zenon
  <1>8. Spent(a)'
    <2>1. Consumed(a) \in replays'
      BY Zenon
    <2>2. n > 1 => time > a.exp + Skew
      <3>1. n > 1 => a.exp + Skew < time
        BY <1>3, SpentBefore, Zenon
      <3> QED BY <1>1, <3>1
    <2> QED BY <1>6, <1>7, <2>1, <2>2, Zenon DEF Spent, Consumed
  <1>9. \A b \in Assertions \ {a} : Spent(b)'
    BY <1>7, Zenon DEF Records, Spent, Consumed
  <1> QED BY <1>7, <1>8, <1>9, Zenon DEF Records

(* More records only help. *)
LEMMA StoredOK ==
  ASSUME Records, UNCHANGED time, UNCHANGED spent, replays \subseteq replays'
  PROVE  Records'
  BY Zenon DEF Records, Spent, Consumed

LEMMA ConsumeOK ==
  ASSUME AssertionInv, NEW v \in Verifications, Consume(v)
  PROVE  AssertionInv'
  <1>1. /\ allowance' \in Spending /\ Cached /\ Calls /\ Records /\ UNCHANGED <<time, keySource, keyCache>>
        /\ time \in Nat /\ published \subseteq KIDs
    BY InvParts, Zenon DEF Consume
  <1>2. Cached' /\ UNCHANGED time /\ UNCHANGED published
    BY <1>1, Zenon DEF Cached, keyCache, keySource
  <1>3. PICK a \in Assertions : a = verify[v].assertion
    <2>1. verify[v].pc \notin Over
      BY Zenon DEF Consume, At, Over
    <2> QED BY <2>1, OfCall, Zenon
  <1>4. Calls'
    <2>1. PICK pc \in {"accepted", "rejected", "unavailable"} : Conclude(v, pc)
      BY Zenon DEF Consume
    <2> QED BY <1>1, <2>1, ConcludeOK, Zenon
  <1>5. \/ replays \subseteq replays' /\ UNCHANGED spent
        \/ /\ ~\E r \in replays : r.jti = a.jti
           /\ replays' = replays \cup {Consumed(a)}
           /\ spent' = [spent EXCEPT ![a] = [at |-> time, times |-> IF @.times < 2 THEN @.times + 1 ELSE 2]]
    BY <1>3, Zenon DEF Consume, spending
  <1>6. Records'
    BY <1>1, <1>2, <1>5, AcceptedOK, StoredOK, Zenon
  <1> QED BY <1>1, <1>2, <1>4, <1>6, InvParts, Zenon DEF AssertionInv, Cached, Calls, Records

LEMMA DeleteExpiredOK ==
  ASSUME AssertionInv, DeleteExpired
  PROVE  AssertionInv'
  <1>1. /\ allowance' \in Spending /\ Cached /\ Calls /\ Records /\ UNCHANGED <<time, keySource, keyCache>>
        /\ time \in Nat /\ published \subseteq KIDs /\ UNCHANGED verify /\ UNCHANGED spent
    BY InvParts, Zenon DEF DeleteExpired
  <1>2. Cached' /\ UNCHANGED time /\ UNCHANGED published /\ Calls'
    BY <1>1, UnchangedCalls, Zenon DEF Cached, keyCache, keySource
  <1>3. ASSUME NEW a \in Assertions, Consumed(a) \in replays PROVE Consumed(a) \in replays' \/ a.exp + Skew < time
    <2>1. Consumed(a).expires = a.exp + Skew /\ a.exp + Skew \in Nat
      BY AssertionTimes DEF Consumed
    <2>2. a.exp + Skew >= time \/ a.exp + Skew < time
      BY <1>1, <2>1
    <2> QED BY <1>3, <2>1, <2>2, Zenon DEF DeleteExpired
  <1>4. \A a \in Assertions : Spent(a)'
    BY <1>1, <1>2, <1>3, Zenon DEF Records, Spent, Consumed
  <1>5. Records'
    BY <1>1, <1>4, Zenon DEF Records
  <1> QED BY <1>1, <1>2, <1>5, InvParts, Zenon DEF AssertionInv, Cached, Calls, Records

LEMMA SurroundingsOK ==
  ASSUME AssertionInv, EvictEntry \/ Elapse \/ Rotate
  PROVE  AssertionInv'
  <1>1. /\ allowance \in Spending /\ Cached /\ Calls /\ Records /\ time \in Nat /\ published \subseteq KIDs
        /\ UNCHANGED verify /\ UNCHANGED spending
    BY InvParts, Zenon DEF EvictEntry, Elapse, Rotate
  <1>2. allowance' \in Spending /\ Calls'
    BY <1>1, SpendOK, UnchangedCalls, Zenon DEF EvictEntry, Elapse, Rotate
  <1>3. Cached'
    BY <1>1, Zenon DEF Cached, EvictEntry, Elapse, Rotate, keyCache
  <1>4. published' \subseteq KIDs
    BY <1>1, Zenon DEF EvictEntry, Elapse, Rotate, keySource
  <1>5. time' = time \/ time' = time + 1
    BY Zenon DEF EvictEntry, Elapse, Rotate
  <1>6. time' \in Nat /\ \A n \in Nat : n < time => n < time'
    BY <1>1, <1>5
  <1>7. Records'
    <2>1. UNCHANGED spent /\ UNCHANGED replays /\ \A a \in Assertions : a.exp + Skew \in Nat
      BY <1>1, AssertionTimes DEF spending
    <2> QED BY <1>1, <1>6, <2>1, Zenon DEF Records, Spent, Consumed
  <1> QED BY <1>2, <1>3, <1>4, <1>6, <1>7, InvParts, Zenon DEF AssertionInv, Cached, Calls, Records

(* An assertion is spent once, by however many concurrent calls of Verify  *)
(* and whatever the key set cache and the sweep of the replay store do in  *)
(* between; one that was held up past its expiry and the skew is the only  *)
(* exception.                                                              *)
THEOREM AssertionsAreSpentOnce ==
  ASSUME NEW CONSTANT keys \in SUBSET KIDs, NEW CONSTANT entry \in KeyEntry \cup {Nothing}, NEW CONSTANT bounds \in Spending
  PROVE  AssertionSpec(keys, entry, bounds) => []SpentOnce
  <1>1. ASSUME AssertionInit(keys, entry, bounds) PROVE AssertionInv
    <2>1. allowance \in Spending /\ published \subseteq KIDs /\ Cached /\ time \in Nat
      BY <1>1, Zenon DEF AssertionInit, Cached
    <2>2. Calls
      <3>1. Underway(NoVerification)
        BY Zenon DEF NoVerification, Underway, Verification, Over
      <3> QED BY <1>1, <3>1, Zenon DEF AssertionInit, Calls, Underway
    <2>3. Records
      <3>1. spent = [a \in Assertions |-> [at |-> 0, times |-> 0]]
        BY <1>1, Zenon DEF AssertionInit
      <3> QED BY <3>1 DEF Records, Spent
    <2> QED BY <2>1, <2>2, <2>3, InvParts, Zenon
  <1>2. ASSUME AssertionInv, [AssertionNext]_assertionVars PROVE AssertionInv'
    <2>1. CASE UNCHANGED assertionVars
      <3>1. /\ UNCHANGED <<time, keySource, spending>> /\ UNCHANGED allowance /\ UNCHANGED verify
            /\ UNCHANGED keyEntry /\ UNCHANGED fetching /\ UNCHANGED refreshing
        BY <2>1, Zenon DEF assertionVars, keySource, spending
      <3>2. allowance' \in Spending /\ Cached' /\ Calls'
        BY <1>2, <3>1, InvParts, UnchangedCalls, Zenon DEF Cached
      <3> QED BY <1>2, <3>1, <3>2, QuietStep, Zenon
    <2> QED BY <1>2, <2>1, CallBeginsOK, KeysForOK, JoinsOK, ClaimsOK, ConsumeOK, FetchOK, RefreshOK, DeleteExpiredOK,
               SurroundingsOK, Zenon DEF AssertionNext, VerificationStep
  <1>3. AssertionInv => SpentOnce
    BY Zenon DEF AssertionInv, Spent, SpentOnce
  <1> QED BY <1>1, <1>2, <1>3, PTL DEF AssertionSpec

(***************************************************************************)
(* Credential files.  Publications replace both files at once, so the      *)
(* generations of the two open files are in the order of their opening;    *)
(* when the first is still the published one after both were read, so is   *)
(* the second.                                                             *)
(***************************************************************************)
Ordered(r, g) == r.since <= r.opened["id"] /\ r.opened["id"] <= r.opened["secret"] /\ r.opened["secret"] <= g
(* What holds of acquisition r when g is the published generation.         *)
FileGood(r, g) ==
  /\ r \in Acquisition /\ g \in Nat /\ r.since <= g
  /\ r.pc \in {"open", "read"} => r.error = ""
  /\ r.pc = "open" /\ r.next = "secret" => r.pair /\ r.since <= r.opened["id"] /\ r.opened["id"] <= g
  /\ r.pc = "read" /\ r.pair => Ordered(r, g)
  /\ r.pc = "stat" => /\ r.pair /\ Ordered(r, g)
                      /\ r.next = "id" => r.error = ""
                      /\ r.next = "secret" /\ r.error = "" => r.opened["id"] = r.opened["secret"]
                      /\ r.error \in {"", "generation_changed"}
  /\ r.error = "generation_changed" => r.since < g
  /\ r.pc = "done" /\ r.error = "" /\ r.pair => Ordered(r, g) /\ r.opened["id"] = r.opened["secret"]
FileInv == defects \in [Paths -> Defects \cup {""}] /\ FileGood(reading, generation)

(* What it takes for an acquisition to be good at each of its stages. *)
LEMMA GoodStages ==
  ASSUME NEW r \in Acquisition, NEW g \in Nat, r.since <= g, r.error = "generation_changed" => r.since < g
  PROVE  /\ /\ r.pc = "open" /\ r.error = ""
            /\ r.next = "secret" => r.pair /\ r.since <= r.opened["id"] /\ r.opened["id"] <= g
            => FileGood(r, g)
         /\ r.pc = "read" /\ r.error = "" /\ (r.pair => Ordered(r, g)) => FileGood(r, g)
         /\ /\ r.pc = "stat" /\ r.pair /\ Ordered(r, g) /\ (r.next = "id" => r.error = "")
            /\ r.next = "secret" /\ r.error = "" => r.opened["id"] = r.opened["secret"]
            /\ r.error \in {"", "generation_changed"}
            => FileGood(r, g)
         /\ /\ r.pc = "done"
            /\ r.error = "" /\ r.pair => Ordered(r, g) /\ r.opened["id"] = r.opened["secret"]
            => FileGood(r, g)
  BY Zenon DEF FileGood

LEMMA Numbers ==
  ASSUME NEW r, NEW g, FileGood(r, g)
  PROVE  r \in Acquisition /\ g \in Nat /\ r.since \in Nat /\ r.opened["id"] \in Nat /\ r.opened["secret"] \in Nat
  BY Zenon DEF FileGood, Acquisition, Paths

(* A step of the acquisition alone. *)
LEMMA ReadingStep ==
  ASSUME FileInv, UNCHANGED <<generation, defects>>, FileGood(reading', generation)
  PROVE  FileInv'
  BY Zenon DEF FileInv, FileGood, Ordered

LEMMA ReturnOK ==
  ASSUME FileInv, NEW e \in Defects \cup {"", "generation_changed"}, Return(e), UNCHANGED <<generation, defects>>,
         e = "generation_changed" => reading.since < generation,
         e = "" /\ reading.pair => Ordered(reading, generation) /\ reading.opened["id"] = reading.opened["secret"]
  PROVE  FileInv'
  <1>1. FileGood(reading, generation) /\ reading' = [reading EXCEPT !.pc = "done", !.error = e]
    BY Zenon DEF FileInv, Return
  <1>2. FileGood(reading', generation)
    BY <1>1, Zenon DEF FileGood, Ordered, Acquisition
  <1> QED BY <1>2, ReadingStep, Zenon

LEMMA ReadBeginsOK ==
  ASSUME FileInv, ReadClientID \/ ReadPair
  PROVE  FileInv'
  <1>1. generation \in Nat /\ UNCHANGED <<generation, defects>>
    BY Zenon DEF FileInv, FileGood, ReadClientID, ReadPair
  <1>2. FileGood(reading', generation)
    <2>1. PICK b \in BOOLEAN : reading' = [NotReading EXCEPT !.pc = "open", !.pair = b, !.since = generation]
      BY Zenon DEF ReadClientID, ReadPair, NotReading
    <2>2. reading' \in Acquisition
      BY <1>1, <2>1, Zenon DEF NotReading, Acquisition, Paths, Sound
    <2>3. reading'.pc = "open" /\ reading'.next = "id" /\ reading'.error = "" /\ reading'.since = generation
      BY <2>1, Zenon DEF NotReading
    <2>4. generation <= generation
      BY <1>1
    <2>5. "id" # "secret" /\ "" # "generation_changed"
      BY Zenon
    <2> QED BY <1>1, <2>2, <2>3, <2>4, <2>5, GoodStages, Zenon
  <1> QED BY <1>1, <1>2, ReadingStep, Zenon

LEMMA openCredentialOK ==
  ASSUME FileInv, openCredential
  PROVE  FileInv'
  <1>1. /\ FileGood(reading, generation) /\ UNCHANGED <<generation, defects>> /\ reading.pc = "open"
        /\ reading.next \in Paths /\ defects[reading.next] \in Defects \cup {""} /\ reading \in Acquisition
    BY Zenon DEF FileInv, FileGood, openCredential, Acquisition
  <1>2. CASE defects[reading.next] \in OpenDefects \cup TargetDefects
    <2>1. PICK e : e = defects[reading.next]
      BY Zenon
    <2>2. e \in Defects \cup {"", "generation_changed"} /\ e # "" /\ e # "generation_changed" /\ Return(e)
      BY <1>2, <2>1, Zenon DEF OpenDefects, TargetDefects, Defects, openCredential
    <2> QED BY <1>1, <2>2, ReturnOK, Zenon
  <1>3. CASE defects[reading.next] \notin OpenDefects \cup TargetDefects
    <2>1. PICK p, q : /\ p = reading.next /\ q = AfterOpen(p) /\ q \in {"open", "read"}
                      /\ p \in Paths /\ (q = "open" <=> reading.pair /\ p = "id")
      <3>1. \A p \in Paths : /\ AfterOpen(p) \in {"open", "read"}
                             /\ AfterOpen(p) = "open" <=> reading.pair /\ p = "id"
        BY Zenon DEF AfterOpen
      <3> QED BY <1>1, <3>1, Zenon
    <2>2. PICK o : o = [reading.opened EXCEPT ![p] = generation]
      BY Zenon
    <2>3. PICK f : f = [reading.flaw EXCEPT ![p] = defects[p]]
      BY Zenon
    <2>4. reading' = [reading EXCEPT !.opened = o, !.flaw = f, !.pc = q, !.next = IF q = "open" THEN "secret" ELSE "id"]
      BY <1>1, <1>3, <2>1, <2>2, <2>3, Zenon DEF openCredential, Acquisition
    <2>5. /\ o \in [Paths -> Nat] /\ f \in [Paths -> Defects \cup {""}] /\ o[p] = generation
          /\ \A r \in Paths \ {p} : o[r] = reading.opened[r]
      BY <1>1, <2>1, <2>2, <2>3, Zenon DEF FileGood, Acquisition
    <2>6. /\ reading' \in Acquisition /\ reading'.error = "" /\ reading'.opened = o
          /\ reading'.since = reading.since /\ reading'.pair = reading.pair
          /\ reading'.pc = q /\ reading'.next = IF q = "open" THEN "secret" ELSE "id"
      BY <1>1, <2>1, <2>4, <2>5, Zenon DEF FileGood, Acquisition, Paths
    <2>7. /\ generation \in Nat /\ reading.since \in Nat /\ reading.since <= generation /\ generation <= generation
          /\ reading.opened["id"] \in Nat
      <3>1. generation \in Nat /\ reading.since \in Nat /\ reading.since <= generation /\ reading.opened["id"] \in Nat
        BY <1>1, Numbers, Zenon DEF FileGood
      <3>2. \A n \in Nat : n <= n
        OBVIOUS
      <3> QED BY <3>1, <3>2, Zenon
    <2>8. FileGood(reading', generation)
      <3>1. CASE q = "open"
        <4>1. o["id"] = generation /\ reading.pair
          BY <2>1, <2>5, <3>1, Zenon
        <4>2. "" # "generation_changed"
          BY Zenon
        <4> QED BY <2>6, <2>7, <3>1, <4>1, <4>2, GoodStages, Zenon
      <3>2. CASE q = "read"
        <4>1. ASSUME reading.pair
              PROVE  /\ reading.since <= o["id"] /\ o["id"] <= generation
                     /\ o["id"] <= o["secret"] /\ o["secret"] <= generation
          <5>1. p = "secret" /\ "id" \in Paths \ {"secret"} /\ q # "open"
            BY <2>1, <3>2, <4>1, Zenon DEF Paths
          <5>2. o["secret"] = generation /\ o["id"] = reading.opened["id"]
            BY <2>5, <5>1, Zenon
          <5>3. reading.since <= reading.opened["id"] /\ reading.opened["id"] <= generation
            BY <1>1, <2>1, <5>1, Zenon DEF FileGood
          <5> QED BY <2>7, <5>2, <5>3, Zenon
        <4>2. "" # "generation_changed"
          BY Zenon
        <4> QED BY <2>6, <2>7, <3>2, <4>1, <4>2, GoodStages, Zenon DEF Ordered
      <3> QED BY <2>1, <3>1, <3>2, Zenon
    <2> QED BY <1>1, <2>8, ReadingStep, Zenon
  <1> QED BY <1>2, <1>3, Zenon

LEMMA readValueOK ==
  ASSUME FileInv, readValue
  PROVE  FileInv'
  <1>1. /\ FileGood(reading, generation) /\ UNCHANGED <<generation, defects>> /\ reading.pc = "read"
        /\ reading.next \in Paths /\ reading.flaw[reading.next] \in Defects \cup {""}
    BY Zenon DEF FileInv, FileGood, readValue, Acquisition
  <1>2. CASE reading.flaw[reading.next] # ""
    <2>1. PICK e : e = reading.flaw[reading.next]
      BY Zenon
    <2>2. e \in Defects \cup {"", "generation_changed"} /\ e # "" /\ e # "generation_changed" /\ Return(e)
      BY <1>1, <1>2, <2>1, Zenon DEF OpenDefects, TargetDefects, ValueDefects, Defects, readValue
    <2> QED BY <1>1, <2>2, ReturnOK, Zenon
  <1>3. CASE reading.flaw[reading.next] = "" /\ ~reading.pair
    <2>1. Return("")
      BY <1>3, Zenon DEF readValue
    <2>2. "" # "generation_changed"
      BY Zenon
    <2> QED BY <1>1, <1>3, <2>1, <2>2, ReturnOK, Zenon
  <1>4. CASE reading.flaw[reading.next] = "" /\ reading.pair
    <2>1. FileGood(reading', generation)
      BY <1>1, <1>4, Zenon DEF readValue, FileGood, Ordered, Acquisition, Paths
    <2> QED BY <1>1, <2>1, ReadingStep, Zenon
  <1> QED BY <1>2, <1>3, <1>4, Zenon

LEMMA finishPairOK ==
  ASSUME FileInv, finishPair
  PROVE  FileInv'
  <1>1. /\ FileGood(reading, generation) /\ UNCHANGED <<generation, defects>> /\ reading.pc = "stat"
        /\ reading.next \in Paths /\ Ordered(reading, generation) /\ reading.pair /\ reading \in Acquisition
        /\ reading.error \in {"", "generation_changed"}
    BY Zenon DEF FileInv, FileGood, finishPair, Acquisition
  <1>2. /\ reading.opened["id"] \in Nat /\ reading.opened["secret"] \in Nat /\ generation \in Nat
        /\ reading.since \in Nat
    BY <1>1, Numbers, Zenon
  <1>7. /\ reading.opened["id"] # generation \/ reading.opened["secret"] # generation => reading.since < generation
        /\ reading.opened["id"] = generation => reading.opened["id"] = reading.opened["secret"]
    <2>1. PICK s, i, x : s = reading.since /\ i = reading.opened["id"] /\ x = reading.opened["secret"]
      BY Zenon
    <2>2. s \in Nat /\ i \in Nat /\ x \in Nat /\ generation \in Nat /\ s <= i /\ i <= x /\ x <= generation
      BY <1>1, <1>2, <2>1, Zenon DEF Ordered
    <2>3. (i # generation \/ x # generation => s < generation) /\ (i = generation => i = x)
      BY <2>2
    <2> QED BY <2>1, <2>3, Zenon
  <1>3. PICK found : /\ found = Restat(reading.next) /\ found \in OpenDefects \cup {"", "generation_changed"}
                     /\ found = "" => reading.opened[reading.next] = generation
                     /\ found = "generation_changed" => reading.opened[reading.next] # generation
    <2>1. ASSUME NEW p
          PROVE  /\ Restat(p) \in OpenDefects \cup {"", "generation_changed"}
                 /\ Restat(p) = "" => reading.opened[p] = generation
                 /\ Restat(p) = "generation_changed" => reading.opened[p] # generation
      BY Zenon DEF Restat, SameFile, OpenDefects
    <2> QED BY <2>1, Zenon
  <1>4. found = "generation_changed" => reading.since < generation
    <2>1. reading.next = "id" \/ reading.next = "secret"
      BY <1>1, Zenon DEF Paths
    <2> QED BY <1>7, <1>3, <2>1, Zenon
  <1>5. CASE reading.next = "id" /\ found \notin OpenDefects
    <2>1. reading' = [reading EXCEPT !.next = "secret", !.error = found]
      BY <1>3, <1>5, Zenon DEF finishPair
    <2>2. found = "" => reading.opened["id"] = reading.opened["secret"]
      BY <1>7, <1>3, <1>5, Zenon
    <2>3. FileGood(reading', generation)
      BY <1>1, <1>3, <1>4, <1>5, <2>1, <2>2, Zenon DEF FileGood, Ordered, Acquisition, Paths
    <2> QED BY <1>1, <2>3, ReadingStep, Zenon
  <1>6. CASE ~(reading.next = "id" /\ found \notin OpenDefects)
    <2>1. PICK e : e = IF found = "" THEN reading.error ELSE found
      BY Zenon
    <2>2. Return(e)
      BY <1>3, <1>6, <2>1, Zenon DEF finishPair
    <2>3. e \in Defects \cup {"", "generation_changed"}
      BY <1>1, <1>3, <2>1, Zenon DEF Defects
    <2>4. e = "generation_changed" => reading.since < generation
      BY <1>1, <1>4, <2>1, Zenon DEF FileGood
    <2>5. e = "" => reading.opened["id"] = reading.opened["secret"]
      BY <1>1, <1>3, <1>6, <2>1, Zenon DEF FileGood, OpenDefects, Paths
    <2> QED BY <1>1, <2>2, <2>3, <2>4, <2>5, ReturnOK, Zenon
  <1> QED BY <1>5, <1>6, Zenon

LEMMA FilesChangeOK ==
  ASSUME FileInv, NEW last, Publication(last) \/ FileLost
  PROVE  FileInv'
  <1>1. FileGood(reading, generation) /\ defects \in [Paths -> Defects \cup {""}] /\ reading' = reading
    BY Zenon DEF FileInv, Publication, FileLost
  <1>2. defects' \in [Paths -> Defects \cup {""}]
    BY <1>1, Zenon DEF Publication, FileLost, Sound, Defects
  <1>3. generation \in Nat /\ generation' \in Nat /\ generation <= generation'
    <2>1. generation \in Nat
      BY <1>1, Numbers, Zenon
    <2>2. generation' = generation \/ generation' = generation + 1
      BY Zenon DEF Publication, FileLost
    <2> QED BY <2>1, <2>2
  <1>4. FileGood(reading, generation')
    <2>1. reading.since \in Nat /\ reading.opened["id"] \in Nat /\ reading.opened["secret"] \in Nat
      BY <1>1, Numbers, Zenon
    <2>2. \A n \in Nat : (n <= generation => n <= generation') /\ (n < generation => n < generation')
      BY <1>3
    <2> QED BY <1>1, <1>3, <2>1, <2>2, Zenon DEF FileGood, Ordered
  <1> QED BY <1>1, <1>2, <1>4, Zenon DEF FileInv, FileGood, Ordered

LEMMA FilesInvariant ==
  ASSUME NEW CONSTANT last
  PROVE  FileSpec(last) => []FileInv
  <1>1. FileInit => FileInv
    <2> SUFFICES ASSUME FileInit PROVE FileInv
      BY Zenon
    <2>1. defects \in [Paths -> Defects \cup {""}]
      BY Zenon DEF FileInit, Sound, Defects
    <2>2. reading = NotReading /\ NotReading \in Acquisition /\ generation = 1
      BY Zenon DEF FileInit, NotReading, Acquisition, Sound, Paths
    <2>3. FileGood(NotReading, 1)
      <3>1. /\ NotReading.pc = "idle" /\ NotReading.error = "" /\ NotReading.since = 0
        BY Zenon DEF NotReading
      <3>2. 1 \in Nat /\ 0 <= 1 /\ "idle" \notin {"open", "read"} /\ "idle" # "open" /\ "idle" # "read" /\ "idle" # "stat"
            /\ "idle" # "done" /\ "" # "generation_changed"
        OBVIOUS
      <3> QED BY <2>2, <3>1, <3>2, Zenon DEF FileGood
    <2> QED BY <2>1, <2>2, <2>3, Zenon DEF FileInv
  <1>2. FileInv /\ [FileNext(last)]_fileVars => FileInv'
    <2>1. ASSUME FileInv, UNCHANGED fileVars PROVE FileInv'
      <3>1. UNCHANGED generation /\ UNCHANGED defects /\ UNCHANGED reading
        BY <2>1, Zenon DEF fileVars
      <3>2. FileGood(reading', generation)
        BY <2>1, <3>1, Zenon DEF FileInv
      <3> QED BY <2>1, <3>1, <3>2, ReadingStep, Zenon
    <2> QED BY <2>1, ReadBeginsOK, openCredentialOK, readValueOK, finishPairOK, FilesChangeOK, Zenon DEF FileNext, FileStep
  <1> QED BY <1>1, <1>2, PTL DEF FileSpec

(* ReadPair returns an identifier and a secret of one generation, which    *)
(* was published at some moment of the call, for any number of             *)
(* publications.                                                           *)
THEOREM PairsAreOfOneGeneration ==
  ASSUME NEW CONSTANT last
  PROVE  FileSpec(last) => []PairIsOfOneGeneration
  <1>1. FileInv => PairIsOfOneGeneration
    <2> SUFFICES ASSUME FileInv, Acquired, reading.pair
                 PROVE  /\ reading.opened["id"] = reading.opened["secret"]
                        /\ reading.opened["id"] \in reading.since..generation
      BY Zenon DEF PairIsOfOneGeneration
    <2>1. /\ FileGood(reading, generation) /\ reading.opened["id"] = reading.opened["secret"]
          /\ Ordered(reading, generation)
      BY Zenon DEF FileInv, FileGood, Acquired
    <2>2. /\ reading.since \in Nat /\ reading.opened["id"] \in Nat /\ reading.opened["secret"] \in Nat
          /\ generation \in Nat
      BY <2>1, Numbers, Zenon
    <2> QED BY <2>1, <2>2 DEF Ordered
  <1> QED BY <1>1, FilesInvariant, PTL

(* ReadPair reports that the generation changed only when one was          *)
(* published while it ran.                                                 *)
THEOREM ReportedChangesAreReal ==
  ASSUME NEW CONSTANT last
  PROVE  FileSpec(last) => []ChangeIsReal
  <1>1. FileInv => ChangeIsReal
    <2> SUFFICES ASSUME FileInv, reading.error = "generation_changed" PROVE generation > reading.since
      BY Zenon DEF ChangeIsReal
    <2>1. reading.since < generation /\ reading.since \in Nat /\ generation \in Nat
      BY Numbers, Zenon DEF FileInv, FileGood
    <2> QED BY <2>1, Zenon
  <1> QED BY <1>1, FilesInvariant, PTL
=============================================================================
