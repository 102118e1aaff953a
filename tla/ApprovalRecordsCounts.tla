----------------------- MODULE ApprovalRecordsCounts -----------------------
(***************************************************************************)
(* The bound on pending prompts of ApprovalRecords.  Each replica about to *)
(* insert a prompt is counted together with the prompts already pending;   *)
(* the invariant of ApprovalRecordsProofs says that it holds its mutex.    *)
(***************************************************************************)
EXTENDS ApprovalRecordsProofs, FiniteSetTheorems

USE RecordsAssumption DEF Persistences

(* ------------------------ the pending prompts -------------------------- *)

(* The prompts that count, and the replicas about to insert another. *)
Pending == {i \in DOMAIN approvals : approvals[i].status = "pending" /\ ~approvals[i].expired}
Inserting == {b \in serving : \E r \in Requests : request[r].pc = "insert" /\ request[r].at = b}
CountInv == Cardinality(Pending) + Cardinality(Inserting) <= MaxPending + Cardinality(serving) - 1 + uncounted

LEMMA SmallerSet ==
  ASSUME NEW S, IsFiniteSet(S), NEW T, T \subseteq S
  PROVE  IsFiniteSet(T) /\ Cardinality(T) <= Cardinality(S) /\ Cardinality(T) \in Nat /\ Cardinality(S) \in Nat
  BY FS_Subset, FS_CardinalityType, Zenon

LEMMA OneMore ==
  ASSUME NEW S, IsFiniteSet(S), NEW x, NEW T, T \subseteq S \cup {x}
  PROVE  Cardinality(T) <= Cardinality(S) + 1 /\ Cardinality(T) \in Nat
  <1>1. IsFiniteSet(S \cup {x}) /\ Cardinality(S \cup {x}) <= Cardinality(S) + 1 /\ Cardinality(S) \in Nat
    <2>1. IsFiniteSet(S \cup {x}) /\ Cardinality(S \cup {x}) = IF x \in S THEN Cardinality(S) ELSE Cardinality(S) + 1
      BY FS_AddElement, Zenon
    <2>2. Cardinality(S) \in Nat
      BY FS_CardinalityType, Zenon
    <2> QED BY <2>1, <2>2
  <1>2. Cardinality(T) <= Cardinality(S \cup {x}) /\ Cardinality(T) \in Nat /\ Cardinality(S \cup {x}) \in Nat
    BY <1>1, SmallerSet, Zenon
  <1> QED BY <1>1, <1>2

LEMMA OneLess ==
  ASSUME NEW S, IsFiniteSet(S), NEW x \in S, NEW T, T \subseteq S \ {x}
  PROVE  Cardinality(T) + 1 <= Cardinality(S) /\ Cardinality(T) \in Nat
  <1>1. IsFiniteSet(S \ {x}) /\ Cardinality(S \ {x}) = Cardinality(S) - 1 /\ Cardinality(S) \in Nat
    <2>1. IsFiniteSet(S \ {x}) /\ Cardinality(S \ {x}) = Cardinality(S) - 1
      BY FS_RemoveElement, Zenon
    <2>2. Cardinality(S) \in Nat
      BY FS_CardinalityType, Zenon
    <2> QED BY <2>1, <2>2, Zenon
  <1>2. Cardinality(T) <= Cardinality(S \ {x}) /\ Cardinality(T) \in Nat /\ Cardinality(S \ {x}) \in Nat
    BY <1>1, SmallerSet, Zenon
  <1> QED BY <1>1, <1>2

LEMMA CountFinite ==
  ASSUME RecordsInv
  PROVE  /\ IsFiniteSet(Pending) /\ Cardinality(Pending) \in Nat
         /\ IsFiniteSet(Inserting) /\ Cardinality(Inserting) \in Nat
         /\ IsFiniteSet(serving) /\ Cardinality(serving) \in Nat \ {0}
  <1>1. RecordsType /\ serving \subseteq Brokers /\ serving # {} /\ Inserting \subseteq serving
    BY Zenon DEF RecordsInv, RecordsType, Inserting
  <1>2. Len(approvals) \in Nat /\ Pending \subseteq 1 .. Len(approvals)
    BY <1>1, RowDomain, Zenon DEF RecordsType, Pending
  <1>3. IsFiniteSet(1 .. Len(approvals))
    BY <1>2, FS_Interval
  <1>4. IsFiniteSet(serving) /\ Cardinality(serving) \in Nat
    BY <1>1, SmallerSet, Zenon
  <1>5. Cardinality(serving) # 0
    BY <1>1, <1>4, FS_EmptySet, Zenon
  <1>6. /\ IsFiniteSet(Pending) /\ Cardinality(Pending) \in Nat
        /\ IsFiniteSet(Inserting) /\ Cardinality(Inserting) \in Nat
    BY <1>1, <1>2, <1>3, <1>4, SmallerSet, Zenon
  <1> QED BY <1>4, <1>5, <1>6, Zenon

LEMMA CountShrinks ==
  ASSUME RecordsInv, CountInv, Pending' \subseteq Pending, Inserting' \subseteq Inserting,
         uncounted' = uncounted, serving' = serving
  PROVE  CountInv'
  <1>1. Cardinality(Pending') <= Cardinality(Pending) /\ Cardinality(Pending') \in Nat
    BY CountFinite, SmallerSet, Zenon
  <1>2. Cardinality(Inserting') <= Cardinality(Inserting) /\ Cardinality(Inserting') \in Nat
    BY CountFinite, SmallerSet, Zenon
  <1>3. uncounted \in Nat
    BY Zenon DEF RecordsInv, RecordsType
  <1> QED BY <1>1, <1>2, <1>3, CountFinite DEF CountInv

(* No prompt becomes pending but a new one. *)
LEMMA PendingKept ==
  ASSUME TableAdvances
  PROVE  Pending' \subseteq Pending \cup (DOMAIN approvals' \ DOMAIN approvals)
  <1>1. \A i \in DOMAIN approvals :
          approvals'[i].status = "pending" /\ ~approvals'[i].expired => approvals[i].status = "pending" /\ ~approvals[i].expired
    BY Zenon DEF TableAdvances, Advances
  <1> QED BY <1>1, Zenon DEF Pending

LEMMA InsertingKept ==
  ASSUME NEW r, OthersKept(r), serving' = serving
  PROVE  /\ r \notin Requests \/ request'[r].pc # "insert" => Inserting' \subseteq Inserting
         /\ Inserting' \subseteq Inserting \cup {request'[r].at}
  <1>1. \A g \in Requests : g = r \/ request'[g] = request[g]
    BY Zenon DEF OthersKept
  <1> QED BY <1>1, Zenon DEF Inserting

LEMMA CountPendingCounts ==
  ASSUME RecordsInv, CountInv, NEW r \in Requests, CountPending(r) \/ CountFails(r), serving' = serving
  PROVE  CountInv'
  <1>1. RecordsInv' /\ OthersKept(r) /\ approvals' = approvals /\ uncounted \in Nat
    BY CountOK, Zenon DEF Kept, CountPending, CountFails, RecordsInv, RecordsType
  <1>2. Pending' = Pending
    BY <1>1, Zenon DEF Pending
  <1>3. CASE CountPending(r) /\ request'[r].pc # "insert"
    <2>1. Inserting' \subseteq Inserting /\ uncounted' = uncounted
      BY <1>1, <1>3, InsertingKept, Zenon DEF CountPending
    <2> QED BY <1>2, <2>1, CountShrinks, Zenon
  <1>4. CASE CountPending(r) /\ request'[r].pc = "insert"
    <2>1. ~AtLimit
      <3>1. AtLimit => Finish(r, "create", "rateLimited", 0)
        BY <1>4, Zenon DEF CountPending, Answer
      <3>2. Finish(r, "create", "rateLimited", 0) => request'[r].pc = "done"
        BY FinishFields, Zenon DEF RecordsInv
      <3> QED BY <1>4, <3>1, <3>2, Zenon
    <2>2. Cardinality(Pending) < MaxPending
      <3>1. ~(Cardinality(Pending) >= MaxPending)
        BY <2>1, Zenon DEF AtLimit, CountPendingByPrincipalAndAgent, Pending
      <3> QED BY <3>1, CountFinite
    <2>3. Inserting' \subseteq serving /\ uncounted' = uncounted
      BY <1>4, Zenon DEF Inserting, CountPending
    <2>4. Cardinality(Inserting') <= Cardinality(serving) /\ Cardinality(Inserting') \in Nat
      BY <2>3, CountFinite, SmallerSet, Zenon
    <2> QED BY <1>1, <1>2, <2>2, <2>3, <2>4, CountFinite DEF CountInv
  <1>5. CASE CountFails(r)
    <2>1. uncounted' = uncounted + 1
      BY <1>5, Zenon DEF CountFails
    <2>2. Cardinality(Inserting') <= Cardinality(Inserting) + 1 /\ Cardinality(Inserting') \in Nat
      BY <1>1, CountFinite, InsertingKept, OneMore, Zenon
    <2> QED BY <1>1, <1>2, <2>1, <2>2, CountFinite DEF CountInv
  <1> QED BY <1>3, <1>4, <1>5, Zenon

LEMMA InsertCounts ==
  ASSUME RecordsInv, CountInv, NEW r \in Requests, Insert(r), serving' = serving
  PROVE  CountInv'
  <1> DEFINE tool == request[r].with
             n == Len(approvals) + 1
  <1>1. /\ RecordsInv' /\ OthersKept(r) /\ TableAdvances /\ uncounted' = uncounted /\ uncounted \in Nat
        /\ request[r].pc = "insert"
    BY InsertOK, Zenon DEF Kept, Insert, RecordsInv, RecordsType
  <1>2. tool \in Tools /\ request[r].at \in serving /\ request[r].pc \in Creating
    <2>1. request[r].pc \in Creating
      BY <1>1, Zenon DEF Creating
    <2>2. Knows(r)
      BY Zenon DEF RecordsInv
    <2> QED BY <2>1, <2>2, SMT DEF Knows
  <1>3. DOMAIN approvals' \subseteq DOMAIN approvals \cup {n}
    <2>1. approvals' = Create(approvals, tool).table
      BY Zenon DEF Insert
    <2> HIDE DEF tool
    <2> QED BY <1>2, <2>1, CreateMoves, Zenon
  <1>4. Pending' \subseteq Pending \cup {n}
    BY <1>1, <1>3, PendingKept, Zenon
  <1>5. request[r].at \in Inserting /\ Inserting' \subseteq Inserting \ {request[r].at}
    <2>1. Inserting' \subseteq Inserting
      BY <1>1, InsertAnswers, InsertingKept, Zenon
    <2>2. request[r].at \in Inserting
      BY <1>1, <1>2, Zenon DEF Inserting
    <2>3. ASSUME NEW g \in Requests, request'[g].pc = "insert", request'[g].at = request[r].at PROVE FALSE
      <3>1. g # r /\ request'[g] = request[g]
        BY <1>1, <2>3, InsertAnswers, Zenon DEF OthersKept
      <3>2. request[g].pc \in Creating /\ request[g].at = request[r].at
        BY <2>3, <3>1, Zenon DEF Creating
      <3>3. creationMu[request[g].at] = g /\ creationMu[request[r].at] = r
        <4>1. \A h \in Requests : request[h].pc \in Creating => creationMu[request[h].at] = h
          BY Zenon DEF RecordsInv, Knows
        <4> QED BY <1>2, <3>2, <4>1, Zenon
      <3> QED BY <3>1, <3>2, <3>3, Zenon
    <2>4. request[r].at \notin Inserting'
      BY <2>3, Zenon DEF Inserting
    <2> QED BY <2>1, <2>2, <2>4, Zenon
  <1>6. Cardinality(Pending') <= Cardinality(Pending) + 1 /\ Cardinality(Pending') \in Nat
    BY <1>4, CountFinite, OneMore, Zenon
  <1>7. Cardinality(Inserting') + 1 <= Cardinality(Inserting) /\ Cardinality(Inserting') \in Nat
    BY <1>5, CountFinite, OneLess, Zenon
  <1> QED BY <1>1, <1>6, <1>7, CountFinite DEF CountInv

LEMMA QuietCounts ==
  ASSUME RecordsInv, CountInv, NEW r, Kept(r), r \notin Requests \/ request'[r].pc # "insert",
         DOMAIN approvals' = DOMAIN approvals, uncounted' = uncounted
  PROVE  CountInv'
  <1>1. Pending' \subseteq Pending
    BY PendingKept, Zenon DEF Kept
  <1>2. Inserting' \subseteq Inserting /\ serving' = serving
    BY InsertingKept, Zenon DEF Kept
  <1> QED BY <1>1, <1>2, CountShrinks, Zenon

LEMMA CountStepOK ==
  ASSUME RecordsInv, CountInv, [RecordsNext]_recordsVars
  PROVE  CountInv'
  <1>1. ASSUME NEW r \in Requests, RequestStep(r), serving' = serving PROVE CountInv'
    <2>1. Kept(r)
      BY <1>1, RequestStepOK, Zenon
    <2>2. CASE Insert(r) \/ CountPending(r) \/ CountFails(r)
      BY <1>1, <2>2, InsertCounts, CountPendingCounts, Zenon
    <2>3. CASE ~(Insert(r) \/ CountPending(r) \/ CountFails(r))
      <3>1. request'[r].pc # "insert"
        BY <1>1, <2>3, MutationAnswers, BeginAnswers, FindAnswers, OtherAnswers, Zenon DEF RequestStep
      <3>2. uncounted' = uncounted /\ (Update(r) \/ approvals' = approvals)
        BY <1>1, <2>3, Zenon DEF RequestStep, Begin, BeginForeign, Update, Reload, LockCreation, FindExisting, Return
      <3>3. DOMAIN approvals' = DOMAIN approvals
        BY <3>2, Zenon DEF Update
      <3> QED BY <2>1, <3>1, <3>2, <3>3, QuietCounts, Zenon
    <2> QED BY <2>2, <2>3, Zenon
  <1>2. ASSUME NEW i \in DOMAIN approvals, Expire(i), serving' = serving PROVE CountInv'
    <2>1. Kept(NoRequest) /\ NoRequest \notin Requests
      BY <1>2, ExpireOK, Zenon
    <2>2. uncounted' = uncounted /\ DOMAIN approvals' = DOMAIN approvals
      BY <1>2, Zenon DEF Expire
    <2> QED BY <2>1, <2>2, QuietCounts, Zenon
  <1>3. CASE UNCHANGED recordsVars
    <2>1. Kept(NoRequest) /\ NoRequest \notin Requests
      BY <1>3, StutterOK, Zenon
    <2>2. uncounted' = uncounted /\ DOMAIN approvals' = DOMAIN approvals
      BY <1>3, Zenon DEF recordsVars
    <2> QED BY <2>1, <2>2, QuietCounts, Zenon
  <1> QED BY <1>1, <1>2, <1>3, StepCases, Zenon

LEMMA CountInitOK == RecordsInit => CountInv
  <1> SUFFICES ASSUME RecordsInit PROVE CountInv
    BY Zenon
  <1>1. RecordsInv /\ uncounted = 0
    BY RecordsInitOK, Zenon DEF RecordsInit
  <1>2. Pending = {}
    BY DEF RecordsInit, Pending
  <1>3. Inserting = {}
    <2>1. \A r \in Requests : request[r] = Idle
      BY Zenon DEF RecordsInit
    <2>2. Idle.pc = "idle"
      BY Zenon DEF Idle
    <2> QED BY <2>1, <2>2, Zenon DEF Inserting
  <1>4. Cardinality(Pending) = 0 /\ Cardinality(Inserting) = 0
    BY <1>2, <1>3, FS_EmptySet, Zenon
  <1> QED BY <1>1, <1>4, CountFinite DEF CountInv

(* However many creations run at once, the pending prompts of a pair       *)
(* exceed max_pending by at most one per further replica and one per       *)
(* failed count: every replica's mutex covers its own count and insert.    *)
THEOREM PendingPromptsBounded == RecordsSpec => []PendingBounded
  <1>1. RecordsInv /\ CountInv => PendingBounded
    <2> SUFFICES ASSUME RecordsInv, CountInv PROVE PendingBounded
      BY Zenon
    <2>1. CountPendingByPrincipalAndAgent(approvals) = Cardinality(Pending)
      BY Zenon DEF CountPendingByPrincipalAndAgent, Pending
    <2>2. uncounted \in Nat
      BY Zenon DEF RecordsInv, RecordsType
    <2> QED BY <2>1, <2>2, CountFinite DEF CountInv, PendingBounded
  <1>2. RecordsInv /\ CountInv /\ [RecordsNext]_recordsVars => CountInv'
    BY CountStepOK, Zenon
  <1>3. RecordsSpec => []CountInv
    BY <1>2, CountInitOK, RecordsInvariant, PTL DEF RecordsSpec
  <1> QED BY <1>1, <1>3, RecordsInvariant, PTL

=============================================================================
