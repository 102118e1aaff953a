----------------------- MODULE ApprovalRecordsProofs ------------------------
(***************************************************************************)
(* Proofs about ApprovalRecords, for any requests, tools, replicas and     *)
(* bounds.  Every step moves each stored prompt forward (Advances): what a *)
(* request has learnt of its row stays true whatever the others do to it,  *)
(* which is the core of the inductive invariant.  From it follow the       *)
(* answers a client reads, the agreement of the two stores, the lifecycle  *)
(* of an approval and what a creation hands out.                           *)
(***************************************************************************)
EXTENDS ApprovalRecords, TLAPS

(* -------------------------- the invariant ------------------------------ *)

Row == [tool : Tools, status : {"pending", "approved", "denied"}, persistence : Persistences \union {"none"},
        consumed : BOOLEAN, expired : BOOLEAN]

(* What holds of a stored prompt: only a pending one lapses, only a lapsed *)
(* prompt is retired and only a once approval used up.                     *)
Sound(row) ==
  /\ row.status = "pending" => row.persistence = "none"
  /\ row.status = "approved" => row.persistence \in Persistences
  /\ row.status = "denied" => row.persistence \in {"none", "permanent"} /\ ~row.consumed
  /\ row.expired => row.status = "pending"
  /\ row.consumed => \/ row.status = "pending" /\ row.expired
                     \/ row.status = "approved" /\ row.persistence = "once"

Ops == {"none", "create", "approve", "deny", "consume", "revoke", "foreign"}
Withs == Persistences \union {"none"} \union Tools
Steps == {"idle", "update", "reload", "find", "again", "count", "insert", "done"}
Creating == {"find", "again", "count", "insert"}
Request == [pc : Steps, op : Ops, row : Nat, with : Withs, at : Brokers \union {NoRequest}, status : Nat]

RecordsType ==
  /\ serving \in (SUBSET Brokers) \ {{}}
  /\ approvals \in Seq(Row)
  /\ request \in [Requests -> Request]
  /\ creationMu \in [Brokers -> Requests \union {NoRequest}]
  /\ uncounted \in Nat

(* What request r knows of its row, and which mutex it holds. *)
Knows(r) ==
  LET q   == request[r]
      row == approvals[q.row]
  IN  /\ q.pc \in {"update", "reload"} =>
           /\ q.row \in DOMAIN approvals
           /\ \/ q.op = "approve" /\ q.with \in Persistences
              \/ q.op = "deny" /\ q.with \in {"none", "permanent"}
              \/ q.op = "consume" /\ row.status = "approved" /\ row.persistence = "once"
              \/ q.op = "revoke"
      /\ q.pc = "reload" =>
           /\ q.op \in {"approve", "deny"} => row.status # "pending" \/ row.expired
           /\ q.op = "consume" => row.consumed
      /\ q.pc \in Creating => /\ q.with \in Tools /\ q.at \in serving /\ creationMu[q.at] = r
      /\ q.pc # "done" => q.status = 0
      /\ q.status = 409 => q.row \in DOMAIN approvals /\ row.status # "pending"
      /\ q.status = 410 => q.row \in DOMAIN approvals /\ row.status = "pending" /\ row.expired
      /\ q.op = "consume" /\ q.status = 200 => q.row \in DOMAIN approvals /\ row.consumed
      /\ q.status # 404

RecordsInv ==
  /\ RecordsType
  /\ \A i \in DOMAIN approvals : Sound(approvals[i])
  /\ \A r \in Requests : Knows(r)

(* ----------------------------- one prompt ------------------------------ *)

USE RecordsAssumption DEF Persistences

LifeOf(row) ==
  CASE row.status = "pending" -> IF row.expired THEN "lapsed" ELSE "open"
    [] row.status = "approved" -> IF row.consumed THEN "spent" ELSE row.persistence
    [] OTHER -> "denied"

(* The moves of ApprovalLifecycle. *)
LifeMoves(a, b) ==
  \/ a = b
  \/ a = "open" /\ b \in {"once", "session", "permanent", "denied", "lapsed"}
  \/ a = "once" /\ b = "spent"
  \/ a = "permanent" /\ b = "denied"

(* A prompt goes from o to n and never back. *)
Advances(o, n) ==
  /\ o.status # "pending" => n.status # "pending"
  /\ o.status = "pending" /\ o.expired => n.status = "pending" /\ n.expired
  /\ o.consumed => n.consumed
  /\ o.status = "approved" /\ o.persistence = "once" => n.status = "approved" /\ n.persistence = "once"
  /\ LifeMoves(LifeOf(o), LifeOf(n))

LEMMA StaysAsItIs ==
  ASSUME NEW o
  PROVE  Advances(o, o)
  BY Zenon DEF Advances, LifeMoves

LEMMA DecideMoves ==
  ASSUME NEW o \in Row, Sound(o), o.status = "pending", ~o.expired,
         NEW status \in {"approved", "denied"}, NEW p \in Persistences \union {"none"},
         IF status = "approved" THEN p \in Persistences ELSE p \in {"none", "permanent"}
  PROVE  LET n == Decide(o, status, p) IN n \in Row /\ Sound(n) /\ Advances(o, n)
  BY Zenon DEF Row, Sound, Advances, Decide, LifeOf, LifeMoves

LEMMA WithdrawMoves ==
  ASSUME NEW o \in Row, Sound(o), o.status \in {"approved", "denied"}, o.persistence = "permanent"
  PROVE  LET n == Decide(o, "denied", "none") IN n \in Row /\ Sound(n) /\ Advances(o, n)
  BY Zenon DEF Row, Sound, Advances, Decide, LifeOf, LifeMoves

LEMMA ConsumeMoves ==
  ASSUME NEW o \in Row, Sound(o), ~o.consumed,
         \/ o.status = "approved" /\ o.persistence = "once"
         \/ o.status = "pending" /\ o.expired
  PROVE  LET n == [o EXCEPT !.consumed = TRUE] IN n \in Row /\ Sound(n) /\ Advances(o, n) /\ n.consumed
  BY Zenon DEF Row, Sound, Advances, LifeOf, LifeMoves

LEMMA RetireKeepsLife ==
  ASSUME NEW o \in Row, o.status = "pending"
  PROVE  LET n == [o EXCEPT !.consumed = TRUE]
         IN  LifeOf(n) = LifeOf(o) /\ n.status = o.status /\ n.expired = o.expired /\ n.tool = o.tool /\ n.consumed
  BY DEF Row, LifeOf

LEMMA ExpireMoves ==
  ASSUME NEW o \in Row, Sound(o), o.status = "pending", ~o.expired
  PROVE  LET n == [o EXCEPT !.expired = TRUE] IN n \in Row /\ Sound(n) /\ Advances(o, n) /\ n.expired
  BY Zenon DEF Row, Sound, Advances, LifeOf, LifeMoves

(* Requests of the service that end in an UPDATE. *)
Mutation(op, with) ==
  \/ op = "approve" /\ with \in Persistences
  \/ op = "deny" /\ with \in {"none", "permanent"}
  \/ op \in {"consume", "revoke"}

(* What an UPDATE leaves, and what follows when it matched no row. *)
LEMMA StoreMoves ==
  ASSUME NEW o \in Row, Sound(o), NEW op, NEW with, Mutation(op, with)
  PROVE  LET s == Store(op, o, with)
         IN  /\ s.row \in Row /\ Sound(s.row) /\ Advances(o, s.row)
             /\ s.err # "ok" => s.row = o
             /\ s.err # "ok" /\ op \in {"approve", "deny"} => o.status # "pending" \/ o.expired
             /\ op = "consume" /\ s.err = "ok" => s.row.consumed
             /\ op = "consume" /\ s.err # "ok" /\ o.status = "approved" /\ o.persistence = "once" => o.consumed
  <1> DEFINE s == Store(op, o, with)
  <1>0. Advances(o, o)
    BY StaysAsItIs, Zenon
  <1>1. CASE op = "approve"
    <2>1. s = Approve(o, with)
      BY <1>1, Zenon DEF Store
    <2>2. CASE o.status = "pending" /\ ~o.expired
      <3>1. s = Result(Decide(o, "approved", with), "ok")
        BY <2>1, <2>2, Zenon DEF Approve
      <3>2. with \in Persistences
        BY <1>1, Zenon DEF Mutation
      <3> QED BY <1>1, <2>2, <3>1, <3>2, DecideMoves DEF Result
    <2>3. CASE ~(o.status = "pending" /\ ~o.expired)
      BY <1>0, <1>1, <2>1, <2>3 DEF Approve, Result
    <2> QED BY <2>2, <2>3, Zenon
  <1>2. CASE op = "deny"
    <2>1. s = Deny(o, with)
      BY <1>2, Zenon DEF Store
    <2>2. CASE o.status = "pending" /\ ~o.expired
      <3>1. s = Result(Decide(o, "denied", with), "ok")
        BY <2>1, <2>2, Zenon DEF Deny
      <3>2. with \in {"none", "permanent"}
        BY <1>2, Zenon DEF Mutation
      <3> QED BY <1>2, <2>2, <3>1, <3>2, DecideMoves DEF Result
    <2>3. CASE ~(o.status = "pending" /\ ~o.expired)
      BY <1>0, <1>2, <2>1, <2>3 DEF Deny, Result
    <2> QED BY <2>2, <2>3, Zenon
  <1>3. CASE op = "consume"
    <2>1. s = Consume(o)
      BY <1>3, Zenon DEF Store
    <2>2. CASE o.status = "approved" /\ o.persistence = "once" /\ ~o.consumed
      <3>1. s = Result([o EXCEPT !.consumed = TRUE], "ok")
        BY <2>1, <2>2, Zenon DEF Consume
      <3> DEFINE n == [o EXCEPT !.consumed = TRUE]
      <3>2. n \in Row /\ Sound(n) /\ Advances(o, n) /\ n.consumed
        BY <2>2, ConsumeMoves, Zenon
      <3>3. s.row = n /\ s.err = "ok"
        BY <3>1 DEF Result
      <3> HIDE DEF n
      <3> QED BY <1>3, <3>2, <3>3, Zenon
    <2>3. CASE ~(o.status = "approved" /\ o.persistence = "once" /\ ~o.consumed)
      BY <1>0, <1>3, <2>1, <2>3 DEF Consume, Result
    <2> QED BY <2>2, <2>3, Zenon
  <1>4. CASE op = "revoke"
    <2>1. s = RevokePermanent(o)
      BY <1>4, Zenon DEF Store
    <2>2. CASE o.status \in {"approved", "denied"} /\ o.persistence = "permanent"
      <3>1. s = Result(Decide(o, "denied", "none"), "ok")
        BY <2>1, <2>2, Zenon DEF RevokePermanent
      <3> QED BY <1>4, <2>2, <3>1, WithdrawMoves DEF Result
    <2>3. CASE ~(o.status \in {"approved", "denied"} /\ o.persistence = "permanent")
      BY <1>0, <1>4, <2>1, <2>3 DEF RevokePermanent, Result
    <2> QED BY <2>2, <2>3, Zenon
  <1> QED BY <1>1, <1>2, <1>3, <1>4, Zenon DEF Mutation

(* ----------------------------- the table ------------------------------- *)

TableAdvances ==
  /\ approvals' \in Seq(Row)
  /\ DOMAIN approvals \subseteq DOMAIN approvals'
  /\ \A i \in DOMAIN approvals' : Sound(approvals'[i])
  /\ \A i \in DOMAIN approvals : Advances(approvals[i], approvals'[i])

LEMMA RowDomain ==
  ASSUME NEW s \in Seq(Row)
  PROVE  /\ DOMAIN s = 1..Len(s) /\ Len(s) \in Nat
         /\ \A i \in DOMAIN s : s[i] \in Row /\ i \in Nat
  OBVIOUS

(* A table with other rows for the same prompts is a table. *)
LEMMA RowTable ==
  ASSUME NEW t \in Seq(Row), NEW f \in [DOMAIN t -> Row]
  PROVE  f \in Seq(Row) /\ DOMAIN f = DOMAIN t
  <1>1. DOMAIN t = 1..Len(t) /\ Len(t) \in Nat
    BY RowDomain, Zenon
  <1>2. f \in [1..Len(t) -> Row]
    BY <1>1, Zenon
  <1>3. DOMAIN f = DOMAIN t
    BY Zenon
  <1> QED BY <1>1, <1>2, <1>3

LEMMA SameTable ==
  ASSUME RecordsInv, approvals' = approvals
  PROVE  TableAdvances /\ DOMAIN approvals' = DOMAIN approvals
  BY StaysAsItIs, Zenon DEF TableAdvances, RecordsInv, RecordsType

LEMMA OneRow ==
  ASSUME RecordsInv, NEW i \in DOMAIN approvals, NEW n \in Row, Sound(n), Advances(approvals[i], n),
         approvals' = [approvals EXCEPT ![i] = n]
  PROVE  /\ TableAdvances /\ DOMAIN approvals' = DOMAIN approvals /\ approvals'[i] = n
         /\ \A j \in DOMAIN approvals \ {i} : approvals'[j] = approvals[j]
  <1>1. approvals \in Seq(Row)
    BY Zenon DEF RecordsInv, RecordsType
  <1>2. \A j \in DOMAIN approvals : approvals[j] \in Row
    BY <1>1, RowDomain, Zenon
  <1>3. DOMAIN approvals' = DOMAIN approvals /\ \A j \in DOMAIN approvals : approvals'[j] = IF j = i THEN n ELSE approvals[j]
    BY Zenon
  <1>4. approvals' \in [DOMAIN approvals -> Row]
    BY <1>2, Zenon
  <1>5. approvals' \in Seq(Row)
    BY <1>1, <1>4, RowTable, Zenon
  <1> QED BY <1>3, <1>5, StaysAsItIs, Zenon DEF TableAdvances, RecordsInv

(* Retiring lapsed duplicates changes no prompt's life. *)
LEMMA RetireKeeps ==
  ASSUME RecordsInv, NEW tool
  PROVE  LET t == Retire(approvals, tool)
         IN  /\ t \in Seq(Row) /\ DOMAIN t = DOMAIN approvals
             /\ \A i \in DOMAIN approvals :
                  /\ Sound(t[i]) /\ Advances(approvals[i], t[i])
                  /\ LifeOf(t[i]) = LifeOf(approvals[i])
                  /\ t[i].status = approvals[i].status /\ t[i].expired = approvals[i].expired
                  /\ Open(t[i], tool) <=> Open(approvals[i], tool) /\ ~approvals[i].expired
  <1> DEFINE t == Retire(approvals, tool)
  <1>1. approvals \in Seq(Row)
    BY Zenon DEF RecordsInv, RecordsType
  <1>2. \A i \in DOMAIN approvals : approvals[i] \in Row
    BY <1>1, RowDomain, Zenon
  <1>3. ASSUME NEW i \in DOMAIN approvals
        PROVE  /\ t[i] \in Row /\ Sound(t[i]) /\ Advances(approvals[i], t[i])
               /\ LifeOf(t[i]) = LifeOf(approvals[i])
               /\ t[i].status = approvals[i].status /\ t[i].expired = approvals[i].expired
               /\ Open(t[i], tool) <=> Open(approvals[i], tool) /\ ~approvals[i].expired
    <2> DEFINE o == approvals[i]
               n == [o EXCEPT !.consumed = TRUE]
    <2>1. o \in Row /\ Sound(o)
      BY <1>2, Zenon DEF RecordsInv
    <2>2. t[i] = IF Open(o, tool) /\ o.expired THEN n ELSE o
      BY Zenon DEF Retire
    <2>3. CASE Open(o, tool) /\ o.expired
      <3>1. t[i] = n /\ o.status = "pending" /\ ~o.consumed /\ o.expired
        BY <2>2, <2>3, Zenon DEF Open
      <3>2. /\ n \in Row /\ Sound(n) /\ Advances(o, n) /\ LifeOf(n) = LifeOf(o)
            /\ n.status = o.status /\ n.expired = o.expired /\ n.consumed
        BY <2>1, <3>1, ConsumeMoves, RetireKeepsLife, Zenon
      <3>3. ~Open(n, tool)
        BY <3>2, Zenon DEF Open
      <3> HIDE DEF n, t
      <3> QED BY <2>3, <3>1, <3>2, <3>3, Zenon
    <2>4. CASE ~(Open(o, tool) /\ o.expired)
      <3>1. t[i] = o
        BY <2>2, <2>4, Zenon
      <3> HIDE DEF n, t
      <3> QED BY <2>1, <2>4, <3>1, StaysAsItIs, Zenon
    <2> QED BY <2>3, <2>4, Zenon
  <1>4. t \in [DOMAIN approvals -> Row]
    BY <1>3, Zenon DEF Retire
  <1>5. t \in Seq(Row) /\ DOMAIN t = DOMAIN approvals
    BY <1>1, <1>4, RowTable, Zenon
  <1> HIDE DEF t
  <1> QED BY <1>3, <1>5, Zenon DEF t

LEMMA AppendRow ==
  ASSUME NEW s \in Seq(Row), NEW r \in Row
  PROVE  /\ Append(s, r) \in Seq(Row)
         /\ DOMAIN Append(s, r) = DOMAIN s \cup {Len(s) + 1}
         /\ Len(s) + 1 \notin DOMAIN s /\ Len(s) + 1 \in Nat
         /\ Append(s, r)[Len(s) + 1] = r
         /\ \A i \in DOMAIN s : Append(s, r)[i] = s[i] /\ i <= Len(s)
  BY RowDomain

(* ---------------------------- the requests ----------------------------- *)

OthersKept(r) ==
  /\ request' \in [Requests -> Request]
  /\ \A g \in Requests \ {r} : request'[g] = request[g]

MutexKept(r) ==
  /\ creationMu' \in [Brokers -> Requests \union {NoRequest}]
  /\ \A b \in Brokers : creationMu[b] \in Requests \ {r} => creationMu'[b] = creationMu[b]
  /\ \A b \in Brokers : creationMu'[b] \in {creationMu[b], r, NoRequest}

Kept(r) == TableAdvances /\ OthersKept(r) /\ MutexKept(r) /\ serving' = serving

LEMMA SameMutex ==
  ASSUME RecordsType, NEW r, creationMu' = creationMu
  PROVE  MutexKept(r)
  BY Zenon DEF MutexKept, RecordsType

LEMMA RequestUpdate ==
  ASSUME RecordsType, NEW r \in Requests, NEW q \in Request, request' = [request EXCEPT ![r] = q]
  PROVE  OthersKept(r) /\ request'[r] = q
  BY Zenon DEF OthersKept, RecordsType

LEMMA StepUpdate ==
  ASSUME RecordsType, NEW r \in Requests, NEW pc \in Steps, Step(r, pc)
  PROVE  /\ OthersKept(r)
         /\ request'[r].pc = pc /\ request'[r].op = request[r].op /\ request'[r].row = request[r].row
         /\ request'[r].with = request[r].with /\ request'[r].at = request[r].at /\ request'[r].status = request[r].status
  <1> DEFINE q == [request[r] EXCEPT !.pc = pc]
  <1>1. request[r] \in Request
    BY Zenon DEF RecordsType
  <1>2. /\ q \in Request
        /\ q.pc = pc /\ q.op = request[r].op /\ q.row = request[r].row
        /\ q.with = request[r].with /\ q.at = request[r].at /\ q.status = request[r].status
    BY <1>1, Zenon DEF Request
  <1>3. request' = [request EXCEPT ![r] = q]
    BY Zenon DEF Step
  <1>4. OthersKept(r) /\ request'[r] = q
    BY <1>2, <1>3, RequestUpdate, Zenon
  <1> HIDE DEF q
  <1> QED BY <1>2, <1>4, Zenon

LEMMA FinishUpdate ==
  ASSUME RecordsType, NEW r \in Requests, NEW op \in Ops, NEW err, NEW i \in Nat, Status(op, err) \in Nat, Finish(r, op, err, i)
  PROVE  /\ OthersKept(r)
         /\ request'[r].pc = "done" /\ request'[r].op = op /\ request'[r].row = i /\ request'[r].status = Status(op, err)
  <1> DEFINE q == [Idle EXCEPT !.pc = "done", !.op = op, !.row = i, !.status = Status(op, err)]
  <1>1. q \in Request /\ q.pc = "done" /\ q.op = op /\ q.row = i /\ q.status = Status(op, err)
    BY Zenon DEF Request, Idle, Steps, Withs
  <1>2. request' = [request EXCEPT ![r] = q]
    BY Zenon DEF Finish
  <1>3. OthersKept(r) /\ request'[r] = q
    BY <1>1, <1>2, RequestUpdate, Zenon
  <1> HIDE DEF q
  <1> QED BY <1>1, <1>3, Zenon

LEMMA StatusOf ==
  ASSUME NEW op
  PROVE  /\ Status(op, "ok") = 200 /\ Status(op, "existing") = 200 /\ Status(op, "created") = 201
         /\ Status(op, "rateLimited") = 429 /\ Status(op, "notConsumable") = 422 /\ Status(op, "notRevocable") = 422
         /\ Status(op, "notPending") = 409 /\ Status(op, "gone") = 410 /\ Status(op, "forbidden") = 403
         /\ op = "consume" => Status(op, "alreadyConsumed") = 200
  BY DEF Status, mapDomainError

(* What r has learnt stays true whatever another request does. *)
LEMMA OthersKnow ==
  ASSUME RecordsInv, NEW r, TableAdvances, OthersKept(r), MutexKept(r), serving' = serving,
         NEW g \in Requests \ {r}
  PROVE  Knows(g)'
  <1> DEFINE q == request[g]
             o == approvals[q.row]
             n == approvals'[q.row]
  <1>1. RecordsType /\ Knows(g) /\ request'[g] = q
    BY Zenon DEF RecordsInv, OthersKept
  <1>2. q.row \in DOMAIN approvals => q.row \in DOMAIN approvals' /\ Advances(o, n)
    BY Zenon DEF TableAdvances
  <1>3. q.pc \in Creating => /\ q.with \in Tools /\ q.at \in serving' /\ creationMu'[q.at] = g
    <2>1. q.pc \in Creating => q.with \in Tools /\ q.at \in serving /\ creationMu[q.at] = g
      BY <1>1, Zenon DEF Knows
    <2>2. serving \subseteq Brokers
      BY <1>1, Zenon DEF RecordsType
    <2> QED BY <2>1, <2>2, Zenon DEF MutexKept
  <1>4. q.pc \in {"update", "reload"} =>
          /\ q.row \in DOMAIN approvals'
          /\ \/ q.op = "approve" /\ q.with \in Persistences
             \/ q.op = "deny" /\ q.with \in {"none", "permanent"}
             \/ q.op = "consume" /\ n.status = "approved" /\ n.persistence = "once"
             \/ q.op = "revoke"
    BY <1>1, <1>2, Zenon DEF Knows, Advances
  <1>5. q.pc = "reload" =>
          /\ q.op \in {"approve", "deny"} => n.status # "pending" \/ n.expired
          /\ q.op = "consume" => n.consumed
    BY <1>1, <1>2, Zenon DEF Knows, Advances
  <1>6. /\ q.status = 409 => q.row \in DOMAIN approvals' /\ n.status # "pending"
        /\ q.status = 410 => q.row \in DOMAIN approvals' /\ n.status = "pending" /\ n.expired
        /\ q.op = "consume" /\ q.status = 200 => q.row \in DOMAIN approvals' /\ n.consumed
    BY <1>1, <1>2, SMT DEF Knows, Advances
  <1>7. (q.pc # "done" => q.status = 0) /\ q.status # 404
    BY <1>1, Zenon DEF Knows
  <1> QED BY <1>1, <1>3, <1>4, <1>5, <1>6, <1>7 DEF Knows

LEMMA InvOK ==
  ASSUME RecordsInv, NEW r, TableAdvances, OthersKept(r), MutexKept(r), serving' = serving, uncounted' \in Nat,
         r \in Requests => Knows(r)'
  PROVE  RecordsInv' /\ Kept(r)
  <1>1. RecordsType'
    BY Zenon DEF RecordsInv, RecordsType, TableAdvances, OthersKept, MutexKept
  <1>2. ASSUME NEW g \in Requests PROVE Knows(g)'
    <2>1. CASE g = r
      BY <2>1, Zenon
    <2>2. CASE g # r
      BY <2>2, OthersKnow, Zenon
    <2> QED BY <2>1, <2>2, Zenon
  <1>3. (\A i \in DOMAIN approvals : Sound(approvals[i]))'
    BY Zenon DEF TableAdvances
  <1> QED BY <1>1, <1>2, <1>3, Zenon DEF RecordsInv, Kept

(* What the check of a request's row leads to. *)
LEMMA CheckOf ==
  ASSUME NEW row \in Row, Sound(row), NEW op, NEW with, Mutation(op, with)
  PROVE  LET err == Check(op, row)
         IN  /\ err \in {"ok", "notPending", "gone", "alreadyConsumed", "notConsumable", "notRevocable"}
             /\ err = "notPending" => row.status # "pending"
             /\ err = "gone" => row.status = "pending" /\ row.expired
             /\ err = "alreadyConsumed" => op = "consume" /\ row.consumed
             /\ err = "ok" /\ op = "consume" => row.status = "approved" /\ row.persistence = "once"
             /\ err # "ok" /\ op = "consume" => err \in {"alreadyConsumed", "notConsumable"}
  <1>1. CASE op = "approve"
    BY <1>1, Zenon DEF Check, EnsureApprovable, Row
  <1>2. CASE op = "deny"
    BY <1>2, Zenon DEF Check, DenyCheck, Row
  <1>3. CASE op = "consume"
    BY <1>3, Zenon DEF Check, ConsumeCheck, Row
  <1>4. CASE op = "revoke"
    BY <1>4, Zenon DEF Check, RevokeCheck, Row
  <1> QED BY <1>1, <1>2, <1>3, <1>4, Zenon DEF Mutation

(* A step of r that leaves the table alone. *)
LEMMA QuietOK ==
  ASSUME RecordsInv, NEW r, approvals' = approvals, OthersKept(r), MutexKept(r), serving' = serving, uncounted' \in Nat,
         r \in Requests => Knows(r)'
  PROVE  RecordsInv' /\ Kept(r)
  BY SameTable, InvOK, Zenon

LEMMA BeginOK ==
  ASSUME RecordsInv, NEW r \in Requests, NEW i \in DOMAIN approvals, NEW ask \in MutationRequests, Begin(r, i, ask), serving' = serving
  PROVE  RecordsInv' /\ Kept(r)
  <1> DEFINE op == ask[1]
             with == ask[2]
             row == approvals[i]
             err == Check(op, row)
             q == [Idle EXCEPT !.pc = "update", !.op = op, !.row = i, !.with = with]
  <1>1. RecordsType /\ row \in Row /\ Sound(row) /\ i \in Nat /\ uncounted' \in Nat
    BY RowDomain, Zenon DEF RecordsInv, RecordsType, Begin
  <1>2. Mutation(op, with) /\ op \in Ops /\ with \in Withs
    BY Zenon DEF MutationRequests, ApproveRequests, DenyRequests, ConsumeRequests, RevokeRequests, Mutation, Ops, Withs
  <1>3. MutexKept(r) /\ approvals' = approvals
    BY <1>1, SameMutex, Zenon DEF Begin
  <1>4. CASE err = "ok"
    <2>1. /\ q \in Request /\ q.pc = "update" /\ q.op = op /\ q.row = i /\ q.with = with /\ q.status = 0
      BY <1>1, <1>2, Zenon DEF Request, Idle, Steps
    <2>2. request' = [request EXCEPT ![r] = q]
      BY <1>4, Zenon DEF Begin
    <2>3. OthersKept(r) /\ request'[r] = q
      BY <1>1, <2>1, <2>2, RequestUpdate, Zenon
    <2>4. op = "consume" => row.status = "approved" /\ row.persistence = "once"
      BY <1>1, <1>2, <1>4, CheckOf, Zenon
    <2>5. Knows(r)'
      <3> HIDE DEF op, with, q
      <3> QED BY <1>2, <1>3, <2>1, <2>3, <2>4 DEF Knows, Mutation, Creating
    <2> QED BY <1>1, <1>3, <2>3, <2>5, QuietOK, Zenon
  <1>5. CASE err # "ok"
    <2>1. Finish(r, op, err, i)
      BY <1>5, Zenon DEF Begin
    <2>2. /\ err \in {"notPending", "gone", "alreadyConsumed", "notConsumable", "notRevocable"}
          /\ err = "notPending" => row.status # "pending"
          /\ err = "gone" => row.status = "pending" /\ row.expired
          /\ err = "alreadyConsumed" => op = "consume" /\ row.consumed
          /\ op = "consume" => err \in {"alreadyConsumed", "notConsumable"}
      BY <1>1, <1>2, <1>5, CheckOf, Zenon
    <2> HIDE DEF op, with, err
    <2>3. /\ Status(op, err) \in {409, 410, 200, 422}
          /\ Status(op, err) = 409 => row.status # "pending"
          /\ Status(op, err) = 410 => row.status = "pending" /\ row.expired
          /\ Status(op, err) = 200 => row.consumed
      BY <2>2, StatusOf
    <2>4. Status(op, err) \in Nat
      BY <2>3
    <2>5. /\ OthersKept(r) /\ request'[r].pc = "done" /\ request'[r].op = op /\ request'[r].row = i
          /\ request'[r].status = Status(op, err)
      BY <1>1, <1>2, <2>1, <2>4, FinishUpdate, Zenon
    <2>6. Knows(r)'
      BY <1>3, <2>3, <2>5 DEF Knows, Creating
    <2> QED BY <1>1, <1>3, <2>5, <2>6, QuietOK, Zenon
  <1> QED BY <1>4, <1>5, Zenon

LEMMA BeginForeignOK ==
  ASSUME RecordsInv, NEW r \in Requests, NEW i \in DOMAIN approvals, BeginForeign(r, i), serving' = serving
  PROVE  RecordsInv' /\ Kept(r)
  <1>1. RecordsType /\ i \in Nat /\ uncounted' \in Nat
    BY RowDomain, Zenon DEF RecordsInv, RecordsType, BeginForeign
  <1>2. Status("foreign", "forbidden") = 403 /\ 403 \in Nat /\ "foreign" \in Ops
    BY StatusOf DEF Ops
  <1>3. OthersKept(r) /\ request'[r].pc = "done" /\ request'[r].op = "foreign" /\ request'[r].status = 403
    BY <1>1, <1>2, FinishUpdate, SMT DEF BeginForeign
  <1>4. MutexKept(r) /\ approvals' = approvals
    BY <1>1, SameMutex, Zenon DEF BeginForeign
  <1>5. Knows(r)'
    BY <1>3, <1>4 DEF Knows, Creating
  <1> QED BY <1>1, <1>3, <1>4, <1>5, QuietOK, Zenon

LEMMA UpdateOK ==
  ASSUME RecordsInv, NEW r \in Requests, Update(r), serving' = serving
  PROVE  RecordsInv' /\ Kept(r)
  <1> DEFINE q == request[r]
             i == q.row
             o == approvals[i]
             st == Store(q.op, o, q.with)
             n == st.row
  <1>1. /\ RecordsType /\ Knows(r) /\ q.pc = "update" /\ q.status = 0 /\ i \in DOMAIN approvals /\ uncounted' \in Nat
        /\ q \in Request
    BY SMT DEF RecordsInv, RecordsType, Update, Knows
  <1>2. o \in Row /\ Sound(o) /\ i \in Nat
    BY <1>1, RowDomain, Zenon DEF RecordsInv, RecordsType
  <1>3. Mutation(q.op, q.with) /\ q.op \in Ops /\ (q.op = "consume" => o.status = "approved" /\ o.persistence = "once")
    BY <1>1, Zenon DEF Knows, Mutation, Request
  <1>4. /\ n \in Row /\ Sound(n) /\ Advances(o, n)
        /\ st.err # "ok" => n = o
        /\ st.err # "ok" /\ q.op \in {"approve", "deny"} => o.status # "pending" \/ o.expired
        /\ q.op = "consume" /\ st.err = "ok" => n.consumed
        /\ q.op = "consume" /\ st.err # "ok" /\ o.status = "approved" /\ o.persistence = "once" => o.consumed
    BY <1>2, <1>3, StoreMoves, Zenon
  <1>5. TableAdvances /\ DOMAIN approvals' = DOMAIN approvals /\ approvals'[i] = n
    <2>1. approvals' = [approvals EXCEPT ![i] = n]
      BY Zenon DEF Update
    <2> HIDE DEF i, o, n
    <2> QED BY <1>1, <1>4, <2>1, OneRow, Zenon DEF o
  <1>6. MutexKept(r)
    BY <1>1, SameMutex, Zenon DEF Update
  <1>7. CASE st.err = "ok"
    <2>1. Finish(r, q.op, "ok", i)
      BY <1>7, Zenon DEF Update
    <2>2. Status(q.op, "ok") = 200 /\ Status(q.op, "ok") \in Nat
      BY StatusOf
    <2>3. OthersKept(r) /\ request'[r].pc = "done" /\ request'[r].op = q.op /\ request'[r].row = i /\ request'[r].status = 200
      <3>1. /\ OthersKept(r) /\ request'[r].pc = "done" /\ request'[r].op = q.op /\ request'[r].row = i
            /\ request'[r].status = Status(q.op, "ok")
        <4> HIDE DEF q, i, o
        <4> QED BY <1>1, <1>2, <1>3, <2>1, <2>2, FinishUpdate, SMT
      <3> QED BY <2>2, <3>1, Zenon
    <2>4. Knows(r)'
      <3> HIDE DEF st, n, o
      <3> QED BY <1>1, <1>4, <1>5, <1>7, <2>3 DEF Knows, Creating
    <2> QED BY <1>1, <1>5, <1>6, <2>3, <2>4, InvOK, Zenon
  <1>8. CASE st.err # "ok"
    <2>1. Step(r, "reload") /\ "reload" \in Steps
      BY <1>8, Zenon DEF Update, Steps
    <2>2. /\ OthersKept(r) /\ request'[r].pc = "reload" /\ request'[r].op = q.op /\ request'[r].row = i
          /\ request'[r].with = q.with /\ request'[r].status = 0
      BY <1>1, <2>1, StepUpdate, Zenon
    <2>3. Knows(r)'
      <3> HIDE DEF st, n, o, q
      <3> QED BY <1>1, <1>3, <1>4, <1>5, <1>8, <2>2 DEF Knows, Creating, Mutation
    <2> QED BY <1>1, <1>5, <1>6, <2>2, <2>3, InvOK, Zenon
  <1> QED BY <1>7, <1>8, Zenon

LEMMA ReloadOK ==
  ASSUME RecordsInv, NEW r \in Requests, Reload(r), serving' = serving
  PROVE  RecordsInv' /\ Kept(r)
  <1> DEFINE q == request[r]
             row == approvals[q.row]
             err == RaceLost(q.op, row)
  <1>1. RecordsType /\ Knows(r) /\ q.pc = "reload" /\ q.row \in DOMAIN approvals /\ uncounted' \in Nat /\ q \in Request
    BY SMT DEF RecordsInv, RecordsType, Reload, Knows
  <1>2. row \in Row /\ Sound(row) /\ q.row \in Nat /\ q.op \in {"approve", "deny", "consume", "revoke"}
    <2>1. row \in Row /\ Sound(row) /\ q.row \in Nat
      BY <1>1, RowDomain, Zenon DEF RecordsInv, RecordsType
    <2>2. q.op \in {"approve", "deny", "consume", "revoke"}
      BY <1>1, Zenon DEF Knows
    <2> QED BY <2>1, <2>2, Zenon
  <1>3. MutexKept(r) /\ approvals' = approvals
    BY <1>1, SameMutex, Zenon DEF Reload
  <1>4. /\ Status(q.op, err) \in {200, 409, 410, 422}
        /\ Status(q.op, err) = 409 => row.status # "pending"
        /\ Status(q.op, err) = 410 => row.status = "pending" /\ row.expired
        /\ Status(q.op, err) = 200 => row.consumed
    <2>1. CASE q.op \in {"approve", "deny"}
      <3>1. err = IF row.status = "pending" /\ row.expired THEN "gone" ELSE "notPending"
        BY <2>1, Zenon DEF RaceLost, resolveApprovalMutationError
      <3>2. row.status # "pending" \/ row.expired
        BY <1>1, <2>1, Zenon DEF Knows
      <3> HIDE DEF err, row
      <3> QED BY <3>1, <3>2, StatusOf
    <2>2. CASE q.op = "consume"
      <3>1. row.consumed
        BY <1>1, <2>2, Zenon DEF Knows
      <3>2. err = "alreadyConsumed"
        BY <2>2, <3>1, Zenon DEF RaceLost
      <3> HIDE DEF err, row
      <3> QED BY <2>2, <3>1, <3>2, StatusOf
    <2>3. CASE q.op = "revoke"
      <3>1. err = "notRevocable"
        BY <2>3, Zenon DEF RaceLost
      <3> HIDE DEF err, row
      <3> QED BY <3>1, StatusOf
    <2> QED BY <1>2, <2>1, <2>2, <2>3, Zenon
  <1>5. Status(q.op, err) \in Nat /\ q.op \in Ops
    <2> HIDE DEF err
    <2> QED BY <1>2, <1>4 DEF Ops
  <1>6. /\ OthersKept(r) /\ request'[r].pc = "done" /\ request'[r].op = q.op /\ request'[r].row = q.row
        /\ request'[r].status = Status(q.op, err)
    BY <1>1, <1>2, <1>5, FinishUpdate, Zenon DEF Reload
  <1>7. Knows(r)'
    <2> HIDE DEF err
    <2> QED BY <1>1, <1>3, <1>4, <1>6 DEF Knows, Creating
  <1> QED BY <1>1, <1>3, <1>6, <1>7, QuietOK, Zenon

LEMMA ReturnOK ==
  ASSUME RecordsInv, NEW r \in Requests, Return(r), serving' = serving
  PROVE  RecordsInv' /\ Kept(r)
  <1>1. RecordsType /\ uncounted' \in Nat
    BY Zenon DEF RecordsInv, RecordsType, Return
  <1>2. Idle \in Request /\ Idle.pc = "idle" /\ Idle.status = 0
    BY Zenon DEF Idle, Request, Ops, Steps, Withs
  <1>3. OthersKept(r) /\ request'[r] = Idle
    BY <1>1, <1>2, RequestUpdate, Zenon DEF Return
  <1>4. MutexKept(r) /\ approvals' = approvals
    BY <1>1, SameMutex, Zenon DEF Return
  <1>5. Knows(r)'
    BY <1>2, <1>3 DEF Knows, Creating
  <1> QED BY <1>1, <1>3, <1>4, <1>5, QuietOK, Zenon

LEMMA ExpireOK ==
  ASSUME RecordsInv, NEW i \in DOMAIN approvals, Expire(i), serving' = serving
  PROVE  RecordsInv' /\ Kept(NoRequest)
  <1> DEFINE n == [approvals[i] EXCEPT !.expired = TRUE]
  <1>1. RecordsType /\ uncounted' \in Nat /\ approvals[i] \in Row /\ Sound(approvals[i])
    BY RowDomain, Zenon DEF RecordsInv, RecordsType, Expire
  <1>2. n \in Row /\ Sound(n) /\ Advances(approvals[i], n) /\ approvals' = [approvals EXCEPT ![i] = n]
    BY <1>1, ExpireMoves, Zenon DEF Expire
  <1>3. TableAdvances
    <2> HIDE DEF n
    <2> QED BY <1>2, OneRow, Zenon
  <1>4. OthersKept(NoRequest) /\ MutexKept(NoRequest)
    BY <1>1, SameMutex, Zenon DEF Expire, OthersKept, RecordsType
  <1> QED BY <1>1, <1>3, <1>4, InvOK, Zenon

(* ------------------------------ creation ------------------------------- *)

(* What Create leaves: prompts keep their lives, and the row it names can  *)
(* be answered.                                                            *)
LEMMA CreateMoves ==
  ASSUME RecordsInv, NEW tool \in Tools
  PROVE  LET c == Create(approvals, tool)
             n == Len(approvals) + 1
         IN  /\ c.table \in Seq(Row)
             /\ c.id \in DOMAIN c.table /\ c.id \in Nat
             /\ Open(c.table[c.id], tool) /\ ~c.table[c.id].expired
             /\ \A i \in DOMAIN c.table : Sound(c.table[i])
             /\ \A i \in DOMAIN approvals :
                  /\ i \in DOMAIN c.table /\ Advances(approvals[i], c.table[i]) /\ LifeOf(c.table[i]) = LifeOf(approvals[i])
                  /\ c.table[i].status = approvals[i].status /\ c.table[i].expired = approvals[i].expired
             /\ n \notin DOMAIN approvals
             /\ \/ DOMAIN c.table = DOMAIN approvals
                \/ DOMAIN c.table = DOMAIN approvals \cup {n} /\ c.table[n] = NewApproval(tool)
  <1> DEFINE c == Create(approvals, tool)
             t == Retire(approvals, tool)
             E == {i \in DOMAIN t : Open(t[i], tool)}
             n == Len(approvals) + 1
  <1>1. approvals \in Seq(Row)
    BY Zenon DEF RecordsInv, RecordsType
  <1>2. /\ t \in Seq(Row) /\ DOMAIN t = DOMAIN approvals
        /\ \A i \in DOMAIN approvals :
             /\ Sound(t[i]) /\ Advances(approvals[i], t[i]) /\ LifeOf(t[i]) = LifeOf(approvals[i])
             /\ t[i].status = approvals[i].status /\ t[i].expired = approvals[i].expired
             /\ Open(t[i], tool) <=> Open(approvals[i], tool) /\ ~approvals[i].expired
    BY RetireKeeps, Zenon
  <1>3. n \notin DOMAIN approvals /\ n \in Nat /\ \A i \in DOMAIN approvals : i \in Nat
    BY <1>1, RowDomain
  <1>4. CASE E = {}
    <2> DEFINE a == NewApproval(tool)
    <2>1. a \in Row /\ Sound(a) /\ Open(a, tool) /\ ~a.expired
      BY Zenon DEF NewApproval, Row, Sound, Open
    <2>2. c.table = Append(t, a) /\ c.id = n
      BY <1>4, Zenon DEF Create
    <2>3. Len(t) = Len(approvals)
      BY <1>1, <1>2, RowDomain
    <2> HIDE DEF a, t
    <2>4. /\ Append(t, a) \in Seq(Row) /\ DOMAIN Append(t, a) = DOMAIN approvals \cup {n}
          /\ Append(t, a)[n] = a /\ \A i \in DOMAIN approvals : Append(t, a)[i] = t[i]
      BY <1>2, <2>1, <2>3, AppendRow, SMT
    <2> HIDE DEF c, n
    <2> QED BY <1>2, <1>3, <2>1, <2>2, <2>4, SMT DEF a, c, n
  <1>5. CASE E # {}
    <2> DEFINE k == CHOOSE i \in E : TRUE
    <2>1. k \in E
      BY <1>5, Zenon
    <2>2. c.table = t /\ c.id = k
      BY <1>5, Zenon DEF Create
    <2> HIDE DEF k, t
    <2>3. k \in DOMAIN approvals /\ Open(t[k], tool) /\ ~t[k].expired
      BY <1>2, <2>1, Zenon
    <2> HIDE DEF c, n
    <2> QED BY <1>2, <1>3, <2>2, <2>3, Zenon DEF c, n
  <1> QED BY <1>4, <1>5, Zenon

(* A creation answers: nothing is known of the row, the mutex is free.     *)
LEMMA AnswerOK ==
  ASSUME RecordsInv, NEW r \in Requests, request[r].pc \in Creating, NEW err \in {"existing", "created", "rateLimited"}, NEW i \in Nat,
         Answer(r, err, i)
  PROVE  OthersKept(r) /\ MutexKept(r) /\ Knows(r)'
  <1>1. RecordsType /\ request[r].at \in Brokers /\ creationMu[request[r].at] = r
    <2>1. RecordsType /\ request[r].at \in serving /\ creationMu[request[r].at] = r
      BY Zenon DEF RecordsInv, Knows
    <2> QED BY <2>1, Zenon DEF RecordsType
  <1>2. Status("create", err) \in {200, 201, 429} /\ "create" \in Ops
    BY StatusOf DEF Ops
  <1>3. OthersKept(r) /\ request'[r].pc = "done" /\ request'[r].op = "create" /\ request'[r].status \in {200, 201, 429}
    <2>1. Status("create", err) \in Nat
      BY <1>2
    <2>2. /\ OthersKept(r) /\ request'[r].pc = "done" /\ request'[r].op = "create"
          /\ request'[r].status = Status("create", err)
      BY <1>1, <1>2, <2>1, FinishUpdate, SMT DEF Answer
    <2> QED BY <1>2, <2>2
  <1>4. MutexKept(r)
    BY <1>1, Zenon DEF MutexKept, RecordsType, Answer
  <1>5. Knows(r)'
    BY <1>3 DEF Knows, Creating
  <1> QED BY <1>3, <1>4, <1>5, Zenon

(* A creation goes on to its next step. *)
LEMMA CreationStepOK ==
  ASSUME RecordsInv, NEW r \in Requests, request[r].pc \in Creating, NEW pc \in Creating, Step(r, pc),
         UNCHANGED <<serving, approvals, creationMu>>, uncounted' \in Nat
  PROVE  RecordsInv' /\ Kept(r)
  <1>1. RecordsType /\ Knows(r) /\ pc \in Steps
    BY Zenon DEF RecordsInv, Creating, Steps
  <1>2. /\ OthersKept(r)
        /\ request'[r].pc = pc /\ request'[r].op = request[r].op /\ request'[r].row = request[r].row
        /\ request'[r].with = request[r].with /\ request'[r].at = request[r].at /\ request'[r].status = request[r].status
    BY <1>1, StepUpdate, Zenon
  <1>3. Knows(r)'
    BY <1>1, <1>2 DEF Knows, Creating
  <1>4. MutexKept(r)
    BY <1>1, SameMutex, Zenon
  <1> QED BY <1>2, <1>3, <1>4, QuietOK, Zenon

LEMMA LockCreationOK ==
  ASSUME RecordsInv, NEW r \in Requests, NEW b \in serving, NEW tool \in Tools, LockCreation(r, b, tool), serving' = serving
  PROVE  RecordsInv' /\ Kept(r)
  <1> DEFINE q == [Idle EXCEPT !.pc = "find", !.op = "create", !.with = tool, !.at = b]
  <1>1. RecordsType /\ uncounted' \in Nat /\ b \in Brokers /\ approvals' = approvals
    BY Zenon DEF RecordsInv, RecordsType, LockCreation
  <1>2. q \in Request /\ q.pc = "find" /\ q.op = "create" /\ q.with = tool /\ q.at = b /\ q.status = 0
    BY <1>1, Zenon DEF Idle, Request, Ops, Steps, Withs
  <1>3. OthersKept(r) /\ request'[r] = q
    <2>1. request' = [request EXCEPT ![r] = q]
      BY Zenon DEF LockCreation
    <2> HIDE DEF q
    <2> QED BY <1>1, <1>2, <2>1, RequestUpdate, Zenon
  <1>4. MutexKept(r) /\ creationMu'[b] = r
    BY <1>1, Zenon DEF MutexKept, RecordsType, LockCreation
  <1>5. Knows(r)'
    <2> HIDE DEF q
    <2> QED BY <1>2, <1>3, <1>4 DEF Knows, Creating
  <1> QED BY <1>1, <1>3, <1>4, <1>5, QuietOK, Zenon

LEMMA FindExistingOK ==
  ASSUME RecordsInv, NEW r \in Requests, NEW limited \in BOOLEAN, FindExisting(r, limited), serving' = serving
  PROVE  RecordsInv' /\ Kept(r)
  <1> DEFINE E == FindPendingByKey(approvals, request[r].with)
             k == CHOOSE i \in E : TRUE
  <1>1. RecordsType /\ uncounted' \in Nat /\ approvals' = approvals /\ request[r].pc \in Creating
    BY Zenon DEF RecordsInv, RecordsType, FindExisting, Creating
  <1>2. CASE E # {} /\ Answer(r, "existing", k)
    <2>1. k \in Nat
      <3>1. k \in DOMAIN approvals
        BY <1>2, Zenon DEF FindPendingByKey
      <3> QED BY <1>1, <3>1, RowDomain, Zenon DEF RecordsType
    <2>2. OthersKept(r) /\ MutexKept(r) /\ Knows(r)'
      <3> HIDE DEF k
      <3> QED BY <1>1, <1>2, <2>1, AnswerOK, Zenon
    <2> QED BY <1>1, <2>2, QuietOK, Zenon
  <1>3. CASE Answer(r, "rateLimited", 0)
    <2>1. OthersKept(r) /\ MutexKept(r) /\ Knows(r)'
      BY <1>1, <1>3, AnswerOK, Zenon
    <2> QED BY <1>1, <2>1, QuietOK, Zenon
  <1>4. CASE (Step(r, "again") \/ Step(r, "count")) /\ UNCHANGED creationMu
    <2>1. "again" \in Creating /\ "count" \in Creating
      BY Zenon DEF Creating
    <2> QED BY <1>1, <1>4, <2>1, CreationStepOK, Zenon
  <1> QED
    <2> HIDE DEF k
    <2>1. \/ E # {} /\ Answer(r, "existing", k)
          \/ Answer(r, "rateLimited", 0)
          \/ (Step(r, "again") \/ Step(r, "count")) /\ UNCHANGED creationMu
      BY Zenon DEF FindExisting, k
    <2> QED BY <1>2, <1>3, <1>4, <2>1, Zenon

LEMMA CountOK ==
  ASSUME RecordsInv, NEW r \in Requests, CountPending(r) \/ CountFails(r), serving' = serving
  PROVE  RecordsInv' /\ Kept(r)
  <1>1. RecordsType /\ uncounted \in Nat /\ approvals' = approvals /\ request[r].pc \in Creating
    BY Zenon DEF RecordsInv, RecordsType, CountPending, CountFails, Creating
  <1>2. uncounted' \in Nat
    BY <1>1 DEF CountPending, CountFails
  <1>3. CASE Answer(r, "rateLimited", 0)
    <2>1. OthersKept(r) /\ MutexKept(r) /\ Knows(r)'
      BY <1>1, <1>3, AnswerOK, Zenon
    <2> QED BY <1>1, <1>2, <2>1, QuietOK, Zenon
  <1>4. CASE Step(r, "insert") /\ UNCHANGED creationMu
    <2>1. "insert" \in Creating
      BY Zenon DEF Creating
    <2> QED BY <1>1, <1>2, <1>4, <2>1, CreationStepOK, Zenon
  <1> QED BY <1>3, <1>4, Zenon DEF CountPending, CountFails

LEMMA InsertOK ==
  ASSUME RecordsInv, NEW r \in Requests, Insert(r), serving' = serving
  PROVE  RecordsInv' /\ Kept(r)
  <1> DEFINE tool == request[r].with
             c == Create(approvals, tool)
  <1>1. RecordsType /\ uncounted' \in Nat /\ request[r].pc \in Creating
    BY Zenon DEF RecordsInv, RecordsType, Insert, Creating
  <1>2. tool \in Tools
    BY <1>1, Zenon DEF RecordsInv, Knows
  <1>3. approvals' = c.table
    BY Zenon DEF Insert
  <1>4. PICK err \in {"created", "existing"} : Answer(r, err, c.id)
    BY Zenon DEF Insert
  <1> HIDE DEF c, tool
  <1>5. c.id \in Nat /\ TableAdvances
    BY <1>2, <1>3, CreateMoves, Zenon DEF TableAdvances, c
  <1>6. OthersKept(r) /\ MutexKept(r) /\ Knows(r)'
    BY <1>1, <1>4, <1>5, AnswerOK, Zenon
  <1> QED BY <1>1, <1>5, <1>6, InvOK, Zenon

(* --------------------------- the invariant holds ----------------------- *)

LEMMA RecordsInitOK == RecordsInit => RecordsInv
  <1> SUFFICES ASSUME RecordsInit PROVE RecordsInv
    BY Zenon
  <1>1. Idle \in Request /\ Idle.pc = "idle" /\ Idle.status = 0
    BY Zenon DEF Idle, Request, Ops, Steps, Withs
  <1>2. request \in [Requests -> Request] /\ \A r \in Requests : request[r] = Idle
    BY <1>1, Zenon DEF RecordsInit
  <1>3. RecordsType
    BY <1>2 DEF RecordsInit, RecordsType
  <1>4. DOMAIN approvals = {}
    BY DEF RecordsInit
  <1>5. ASSUME NEW r \in Requests PROVE Knows(r)
    BY <1>1, <1>2 DEF Knows, Creating
  <1> QED BY <1>3, <1>4, <1>5, Zenon DEF RecordsInv

(* A step of a request, of the passing time, or none at all. *)
RequestStep(r) ==
  \/ \E i \in DOMAIN approvals : (\E ask \in MutationRequests : Begin(r, i, ask)) \/ BeginForeign(r, i)
  \/ Update(r) \/ Reload(r)
  \/ \E b \in serving, tool \in Tools : LockCreation(r, b, tool)
  \/ \E limited \in BOOLEAN : FindExisting(r, limited)
  \/ CountPending(r) \/ CountFails(r) \/ Insert(r) \/ Return(r)

LEMMA StepCases ==
  ASSUME [RecordsNext]_recordsVars
  PROVE  \/ serving' = serving /\ \E r \in Requests : RequestStep(r)
         \/ serving' = serving /\ \E i \in DOMAIN approvals : Expire(i)
         \/ UNCHANGED recordsVars
  <1>1. /\ ApproveRequests \subseteq MutationRequests /\ DenyRequests \subseteq MutationRequests
        /\ ConsumeRequests \subseteq MutationRequests /\ RevokeRequests \subseteq MutationRequests
    BY Zenon DEF MutationRequests
  <1>2. ASSUME NEW r \in Requests, NEW i \in DOMAIN approvals,
               ApproveApproval(r, i) \/ DenyApproval(r, i) \/ ConsumeApproval(r, i) \/ RevokePermanentApproval(r, i)
        PROVE  \E ask \in MutationRequests : Begin(r, i, ask)
    BY <1>1, <1>2, Zenon DEF ApproveApproval, DenyApproval, ConsumeApproval, RevokePermanentApproval
  <1> QED BY <1>2, ZenonT(40) DEF RecordsNext, RequestStep

LEMMA RequestStepOK ==
  ASSUME RecordsInv, NEW r \in Requests, RequestStep(r), serving' = serving
  PROVE  RecordsInv' /\ Kept(r)
  BY BeginOK, BeginForeignOK, UpdateOK, ReloadOK, LockCreationOK, FindExistingOK, CountOK, InsertOK, ReturnOK, Zenon DEF RequestStep

LEMMA StutterOK ==
  ASSUME RecordsInv, UNCHANGED recordsVars
  PROVE  RecordsInv' /\ Kept(NoRequest)
  <1>1. RecordsType /\ uncounted' \in Nat /\ serving' = serving
    BY Zenon DEF RecordsInv, RecordsType, recordsVars
  <1>2. OthersKept(NoRequest) /\ MutexKept(NoRequest) /\ approvals' = approvals
    BY <1>1, SameMutex, Zenon DEF OthersKept, RecordsType, recordsVars
  <1> QED BY <1>1, <1>2, QuietOK, Zenon

LEMMA RecordsStepOK == RecordsInv /\ [RecordsNext]_recordsVars => RecordsInv'
  BY StepCases, RequestStepOK, ExpireOK, StutterOK, Zenon

(* The inductive invariant: what a request has learnt of its row stays     *)
(* true between its read, its UPDATE and its second read.                  *)
THEOREM RecordsInvariant == RecordsSpec => []RecordsInv
  BY RecordsInitOK, RecordsStepOK, PTL DEF RecordsSpec

(* The status a client of the approval service reads stays true, whatever  *)
(* raced with the request and however many replicas serve it.              *)
THEOREM AnswersAreTrue == RecordsSpec => []AnswersStayTrue
  <1>1. RecordsInv => AnswersStayTrue
    <2> SUFFICES ASSUME RecordsInv, NEW r \in Requests
                 PROVE  /\ request[r].status = 409 => approvals[request[r].row].status # "pending"
                        /\ request[r].status = 410 =>
                             approvals[request[r].row].status = "pending" /\ approvals[request[r].row].expired
                        /\ request[r].op = "consume" /\ request[r].status = 200 => approvals[request[r].row].consumed
                        /\ request[r].status # 404
      BY Zenon DEF AnswersStayTrue
    <2>1. Knows(r)
      BY Zenon DEF RecordsInv
    <2> QED BY <2>1, SMT DEF Knows
  <1> QED BY <1>1, RecordsInvariant, PTL

(* ------------------------- the two stores ------------------------------ *)

LEMMA SameUpdate ==
  ASSUME NEW o \in Row, Sound(o), NEW op, NEW with, Mutation(op, with),
         op = "consume" => o.status = "approved" /\ o.persistence = "once"
  PROVE  LET pg  == Store(op, o, with)
             mem == MemStore(op, o, with)
         IN  pg.row = mem.row /\ Outcome(op, o, pg) = Outcome(op, o, mem)
  <1>1. CASE op = "approve"
    <2>1. Store(op, o, with) = Approve(o, with) /\ MemStore(op, o, with) = MemApprove(o, with)
      BY <1>1, Zenon DEF Store, MemStore
    <2>2. Approve(o, with) = MemApprove(o, with)
      BY Zenon DEF Approve, MemApprove
    <2> QED BY <2>1, <2>2, Zenon
  <1>2. CASE op = "deny"
    <2>1. Store(op, o, with) = Deny(o, with) /\ MemStore(op, o, with) = MemDeny(o, with)
      BY <1>2, Zenon DEF Store, MemStore
    <2>2. Deny(o, with) = MemDeny(o, with)
      BY Zenon DEF Deny, MemDeny
    <2> QED BY <2>1, <2>2, Zenon
  <1>3. CASE op = "consume"
    <2> DEFINE n == [o EXCEPT !.consumed = TRUE]
    <2>1. Store(op, o, with) = Consume(o) /\ MemStore(op, o, with) = MemConsume(o)
      BY <1>3, Zenon DEF Store, MemStore
    <2>2. MemConsume(o) = Result(n, "ok")
      BY <1>3, Zenon DEF MemConsume
    <2>3. CASE ~o.consumed
      BY <1>3, <2>1, <2>2, <2>3, Zenon DEF Consume
    <2>4. CASE o.consumed
      <3>1. Consume(o) = Result(o, "notFound")
        BY <2>4, Zenon DEF Consume
      <3>2. n = o
        BY <2>4, Zenon DEF Row
      <3>3. RaceLost(op, o) = "alreadyConsumed"
        BY <1>3, <2>4, Zenon DEF RaceLost
      <3>4. Outcome(op, o, Result(o, "notFound")) = Status(op, "alreadyConsumed") /\ Outcome(op, o, Result(o, "ok")) = Status(op, "ok")
        BY <3>3, Zenon DEF Outcome, Result
      <3> HIDE DEF n
      <3> QED BY <1>3, <2>1, <2>2, <3>1, <3>2, <3>4, StatusOf DEF Result
    <2> QED BY <2>3, <2>4, Zenon
  <1>4. CASE op = "revoke"
    <2>1. Store(op, o, with) = RevokePermanent(o) /\ MemStore(op, o, with) = MemRevokePermanent(o)
      BY <1>4, Zenon DEF Store, MemStore
    <2>2. RevokePermanent(o) = MemRevokePermanent(o)
      BY Zenon DEF RevokePermanent, MemRevokePermanent
    <2> QED BY <2>1, <2>2, Zenon
  <1> QED BY <1>1, <1>2, <1>3, <1>4, Zenon DEF Mutation

LEMMA SameCreate ==
  ASSUME RecordsInv, NEW tool \in Tools
  PROVE  Create(approvals, tool) = MemCreate(approvals, tool)
  <1> DEFINE t == Retire(approvals, tool)
             E == {i \in DOMAIN t : Open(t[i], tool)}
             live == {i \in DOMAIN approvals : Open(approvals[i], tool) /\ ~approvals[i].expired}
  <1>1. E = live
    <2>1. /\ DOMAIN t = DOMAIN approvals
          /\ \A i \in DOMAIN approvals : Open(t[i], tool) <=> Open(approvals[i], tool) /\ ~approvals[i].expired
      BY RetireKeeps, Zenon
    <2> HIDE DEF t
    <2> QED BY <2>1, Zenon
  <1> QED BY <1>1, Zenon DEF Create, MemCreate

(* PostgreSQL and the in-memory store are interchangeable: the service     *)
(* leads to the same rows and the same answers with either, for any        *)
(* interleaving of the requests that came before.                          *)
THEOREM StoresAreInterchangeable == RecordsSpec => []StoresAgree
  <1>1. ASSUME RecordsInv PROVE StoresAgree
    <2>1. ASSUME NEW r \in Requests, request[r].pc = "update"
          PROVE  LET op  == request[r].op
                     row == approvals[request[r].row]
                     pg  == Store(op, row, request[r].with)
                     mem == MemStore(op, row, request[r].with)
                 IN  pg.row = mem.row /\ Outcome(op, row, pg) = Outcome(op, row, mem)
      <3> DEFINE o == approvals[request[r].row]
      <3>1. Knows(r) /\ request[r].row \in DOMAIN approvals
        BY <1>1, <2>1, SMT DEF RecordsInv, Knows
      <3>2. o \in Row /\ Sound(o)
        BY <1>1, <3>1, RowDomain, Zenon DEF RecordsInv, RecordsType
      <3>3. Mutation(request[r].op, request[r].with) /\ (request[r].op = "consume" => o.status = "approved" /\ o.persistence = "once")
        BY <2>1, <3>1, Zenon DEF Knows, Mutation
      <3>4. PICK op, with, row : op = request[r].op /\ with = request[r].with /\ row = o
        BY Zenon
      <3>5. row \in Row /\ Sound(row) /\ Mutation(op, with) /\ (op = "consume" => row.status = "approved" /\ row.persistence = "once")
        BY <3>2, <3>3, <3>4, Zenon
      <3>6. /\ Store(op, row, with).row = MemStore(op, row, with).row
            /\ Outcome(op, row, Store(op, row, with)) = Outcome(op, row, MemStore(op, row, with))
        BY <3>5, SameUpdate, Zenon
      <3> QED BY <3>4, <3>6, Zenon
    <2>2. \A tool \in Tools : Create(approvals, tool) = MemCreate(approvals, tool)
      BY <1>1, SameCreate, Zenon
    <2>3. \A active \in BOOLEAN : ListAllActive(approvals, active) = MemListAllActive(approvals, active)
      BY Zenon DEF ListAllActive, MemListAllActive
    <2> QED BY <2>1, <2>2, <2>3, Zenon DEF StoresAgree
  <1> QED BY <1>1, RecordsInvariant, PTL

(* ----------------------- the abstract lifecycle ------------------------ *)

Lives == [i \in 1 .. MaxRows |-> Life(i)]

LEMMA LifeIs ==
  ASSUME NEW i
  PROVE  /\ i \notin DOMAIN approvals => Life(i) = "absent"
         /\ i \in DOMAIN approvals => Life(i) = LifeOf(approvals[i])
         /\ i \notin DOMAIN approvals' => Life(i)' = "absent"
         /\ i \in DOMAIN approvals' => Life(i)' = LifeOf(approvals'[i])
  BY Zenon DEF Life, LifeOf

(* A step of the service moves one prompt at most. *)
OnePromptMoves(k) ==
  /\ \A j : j # k => Life(j)' = Life(j)
  /\ LifeMoves(Life(k), Life(k)') \/ (Life(k) = "absent" /\ Life(k)' = "open")

LEMMA NoneMoves ==
  ASSUME approvals' = approvals
  PROVE  \E k : OnePromptMoves(k)
  <1>1. \A j : Life(j)' = Life(j)
    BY Zenon DEF Life
  <1> QED BY <1>1, Zenon DEF OnePromptMoves, LifeMoves

LEMMA OneMoves ==
  ASSUME RecordsInv, NEW i \in DOMAIN approvals, NEW n \in Row, Sound(n), Advances(approvals[i], n),
         approvals' = [approvals EXCEPT ![i] = n]
  PROVE  \E k : OnePromptMoves(k)
  <1>1. /\ DOMAIN approvals' = DOMAIN approvals /\ approvals'[i] = n
        /\ \A j \in DOMAIN approvals \ {i} : approvals'[j] = approvals[j]
    BY OneRow, Zenon
  <1>2. \A j : j # i => Life(j)' = Life(j)
    BY <1>1, LifeIs, Zenon
  <1>3. LifeMoves(Life(i), Life(i)')
    BY <1>1, LifeIs, Zenon DEF Advances
  <1> QED BY <1>2, <1>3, Zenon DEF OnePromptMoves

LEMMA UpdateMovesOne ==
  ASSUME RecordsInv, NEW r \in Requests, Update(r)
  PROVE  \E k : OnePromptMoves(k)
  <1> DEFINE q == request[r]
             o == approvals[q.row]
             n == Store(q.op, o, q.with).row
  <1>1. RecordsType /\ Knows(r) /\ q.pc = "update" /\ q.row \in DOMAIN approvals
    BY SMT DEF RecordsInv, RecordsType, Update, Knows
  <1>2. o \in Row /\ Sound(o)
    BY <1>1, RowDomain, Zenon DEF RecordsInv, RecordsType
  <1>3. Mutation(q.op, q.with)
    BY <1>1, Zenon DEF Knows, Mutation
  <1>4. n \in Row /\ Sound(n) /\ Advances(o, n)
    BY <1>2, <1>3, StoreMoves, Zenon
  <1>5. approvals' = [approvals EXCEPT ![q.row] = n]
    BY Zenon DEF Update
  <1> HIDE DEF n
  <1> QED BY <1>1, <1>4, <1>5, OneMoves, Zenon

LEMMA ExpireMovesOne ==
  ASSUME RecordsInv, NEW i \in DOMAIN approvals, Expire(i)
  PROVE  \E k : OnePromptMoves(k)
  <1> DEFINE n == [approvals[i] EXCEPT !.expired = TRUE]
  <1>1. approvals[i] \in Row /\ Sound(approvals[i])
    BY RowDomain, Zenon DEF RecordsInv, RecordsType
  <1>2. n \in Row /\ Sound(n) /\ Advances(approvals[i], n) /\ approvals' = [approvals EXCEPT ![i] = n]
    BY <1>1, ExpireMoves, Zenon DEF Expire
  <1> HIDE DEF n
  <1> QED BY <1>2, OneMoves, Zenon

LEMMA InsertMovesOne ==
  ASSUME RecordsInv, NEW r \in Requests, Insert(r)
  PROVE  \E k : OnePromptMoves(k)
  <1> DEFINE tool == request[r].with
             c == Create(approvals, tool)
  <1>1. request[r].pc \in Creating
    BY Zenon DEF Insert, Creating
  <1>2. tool \in Tools
    BY <1>1, Zenon DEF RecordsInv, Knows
  <1>3. approvals' = c.table
    BY Zenon DEF Insert
  <1> HIDE DEF c, tool
  <1> PICK n : n = Len(approvals) + 1
    BY Zenon
  <1>4. /\ \A i \in DOMAIN approvals : i \in DOMAIN approvals' /\ LifeOf(approvals'[i]) = LifeOf(approvals[i])
        /\ n \notin DOMAIN approvals
        /\ \/ DOMAIN approvals' = DOMAIN approvals
           \/ DOMAIN approvals' = DOMAIN approvals \cup {n} /\ approvals'[n] = NewApproval(tool)
    BY <1>2, <1>3, CreateMoves, Zenon DEF c
  <1>5. LifeOf(NewApproval(tool)) = "open"
    BY Zenon DEF LifeOf, NewApproval
  <1>6. \A j : j # n => Life(j)' = Life(j)
    BY <1>4, LifeIs, Zenon
  <1>7. Life(n) = "absent" /\ (Life(n)' = "absent" \/ Life(n)' = "open")
    BY <1>4, <1>5, LifeIs, Zenon
  <1> QED BY <1>6, <1>7, Zenon DEF OnePromptMoves, LifeMoves

LEMMA StepMovesOne ==
  ASSUME RecordsInv, [RecordsNext]_recordsVars
  PROVE  \E k : OnePromptMoves(k)
  <1>1. ASSUME NEW r \in Requests, RequestStep(r) PROVE \E k : OnePromptMoves(k)
    <2>1. Update(r) \/ Insert(r) \/ approvals' = approvals
      BY <1>1, Zenon DEF RequestStep, Begin, BeginForeign, Reload, LockCreation, FindExisting, CountPending, CountFails, Return
    <2> QED BY <2>1, UpdateMovesOne, InsertMovesOne, NoneMoves, Zenon
  <1>2. UNCHANGED recordsVars => approvals' = approvals
    BY Zenon DEF recordsVars
  <1> QED BY <1>1, <1>2, StepCases, ExpireMovesOne, NoneMoves, Zenon

LEMMA LifecycleStep ==
  ASSUME NEW k, OnePromptMoves(k)
  PROVE  [Lifecycle!LifecycleNext]_Lives
  <1>1. Lives' = [i \in 1 .. MaxRows |-> Life(i)']
    BY Zenon DEF Lives
  <1>2. CASE k \notin 1 .. MaxRows \/ Life(k)' = Life(k)
    <2>1. \A j \in 1 .. MaxRows : Life(j)' = Life(j)
      BY <1>2, Zenon DEF OnePromptMoves
    <2>2. Lives' = Lives
      BY <1>1, <2>1, Zenon DEF Lives
    <2> QED BY <2>2, Zenon
  <1>3. CASE k \in 1 .. MaxRows /\ Life(k)' # Life(k)
    <2>1. Lives[k] = Life(k)
      BY <1>3, Zenon DEF Lives
    <2>2. Lives' = [Lives EXCEPT ![k] = Life(k)']
      <3>1. \A j \in 1 .. MaxRows : j # k => Life(j)' = Life(j)
        BY Zenon DEF OnePromptMoves
      <3> QED BY <1>1, <1>3, <3>1, Zenon DEF Lives
    <2>3. \/ Life(k) = "absent" /\ Life(k)' = "open"
          \/ Life(k) = "open" /\ (\E p \in {"once", "session", "permanent"} : Life(k)' = p)
          \/ Life(k) = "open" /\ Life(k)' = "denied"
          \/ Life(k) = "open" /\ Life(k)' = "lapsed"
          \/ Life(k) = "once" /\ Life(k)' = "spent"
          \/ Life(k) = "permanent" /\ Life(k)' = "denied"
      BY <1>3, Zenon DEF OnePromptMoves, LifeMoves
    <2>4. \/ Lifecycle!OpenPrompt(k) \/ Lifecycle!ApprovePrompt(k) \/ Lifecycle!DenyPrompt(k)
          \/ Lifecycle!LapsePrompt(k) \/ Lifecycle!SpendApproval(k) \/ Lifecycle!WithdrawApproval(k)
      BY <2>1, <2>2, <2>3, Zenon DEF Lives, Lifecycle!OpenPrompt, Lifecycle!ApprovePrompt, Lifecycle!DenyPrompt,
         Lifecycle!LapsePrompt, Lifecycle!SpendApproval, Lifecycle!WithdrawApproval, Lifecycle!Becomes
    <2> QED BY <1>3, <2>4, Zenon DEF Lifecycle!LifecycleNext
  <1> QED BY <1>2, <1>3, Zenon

(* The approval service, its requests interleaved at every statement over  *)
(* any number of replicas, implements the lifecycle of an approval: a      *)
(* prompt is decided at most once, and nothing but using up a once         *)
(* approval or withdrawing a permanent one follows.                        *)
THEOREM ServiceImplementsLifecycle == RecordsSpec => ImplementsLifecycle
  <1>1. RecordsInit => Lifecycle!LifecycleInit
    <2> SUFFICES ASSUME RecordsInit PROVE Lifecycle!LifecycleInit
      BY Zenon
    <2>1. DOMAIN approvals = {}
      BY DEF RecordsInit
    <2>2. \A i : Life(i) = "absent"
      BY <2>1, LifeIs, Zenon
    <2> QED BY <2>2, Zenon DEF Lifecycle!LifecycleInit
  <1>2. RecordsInv /\ [RecordsNext]_recordsVars => [Lifecycle!LifecycleNext]_Lives
    BY StepMovesOne, LifecycleStep, Zenon
  <1>3. RecordsInv /\ [RecordsNext]_recordsVars => [Lifecycle!LifecycleNext]_([i \in 1 .. MaxRows |-> Life(i)])
    BY <1>2, Zenon DEF Lives
  <1> QED BY <1>1, <1>3, RecordsInvariant, PTL DEF RecordsSpec, ImplementsLifecycle, Lifecycle!LifecycleSpec

(* -------------------------- what a request answers --------------------- *)

LEMMA FinishFields ==
  ASSUME RecordsType, NEW r \in Requests, NEW op, NEW err, NEW i, Finish(r, op, err, i)
  PROVE  request'[r].pc = "done" /\ request'[r].op = op /\ request'[r].row = i /\ request'[r].status = Status(op, err)
  <1> DEFINE q == [Idle EXCEPT !.pc = "done", !.op = op, !.row = i, !.status = Status(op, err)]
  <1>1. request'[r] = q
    BY Zenon DEF Finish, RecordsType
  <1>2. q.pc = "done" /\ q.op = op /\ q.row = i /\ q.status = Status(op, err)
    BY Zenon DEF Idle
  <1> HIDE DEF q
  <1> QED BY <1>1, <1>2, Zenon

(* The row a creation hands out can be answered. *)
AnswersOpen(r) ==
  request[r].pc # "done" /\ request'[r].op = "create" /\ request'[r].status \in {200, 201}
    => LET row == approvals'[request'[r].row] IN row.status = "pending" /\ ~row.expired /\ ~row.consumed

LEMMA MutationAnswers ==
  ASSUME RecordsInv, NEW r \in Requests, Update(r) \/ Reload(r)
  PROVE  request'[r].op # "create" /\ request'[r].pc # "insert"
  <1>1. RecordsType /\ request[r].op \in {"approve", "deny", "consume", "revoke"}
    BY Zenon DEF RecordsInv, Update, Reload, Knows
  <1>2. CASE Step(r, "reload")
    <2>1. "reload" \in Steps
      BY Zenon DEF Steps
    <2> QED BY <1>1, <1>2, <2>1, StepUpdate, Zenon
  <1>3. CASE \E err : Finish(r, request[r].op, err, request[r].row)
    BY <1>1, <1>3, FinishFields, Zenon
  <1> QED BY <1>2, <1>3, Zenon DEF Update, Reload

LEMMA BeginAnswers ==
  ASSUME RecordsInv, NEW r \in Requests, NEW i \in DOMAIN approvals,
         (\E ask \in MutationRequests : Begin(r, i, ask)) \/ BeginForeign(r, i)
  PROVE  request'[r].op # "create" /\ request'[r].pc # "insert"
  <1>1. RecordsType
    BY Zenon DEF RecordsInv
  <1>2. CASE BeginForeign(r, i)
    BY <1>1, <1>2, FinishFields DEF BeginForeign
  <1>3. ASSUME NEW ask \in MutationRequests, Begin(r, i, ask) PROVE request'[r].op # "create" /\ request'[r].pc # "insert"
    <2>1. ask[1] # "create"
      BY Zenon DEF MutationRequests, ApproveRequests, DenyRequests, ConsumeRequests, RevokeRequests
    <2> DEFINE q == [Idle EXCEPT !.pc = "update", !.op = ask[1], !.row = i, !.with = ask[2]]
    <2>2. q.pc = "update" /\ q.op = ask[1]
      BY Zenon DEF Idle
    <2>3. CASE request' = [request EXCEPT ![r] = q]
      <3>1. request'[r] = q
        BY <1>1, <2>3, Zenon DEF RecordsType
      <3> HIDE DEF q
      <3> QED BY <2>1, <2>2, <3>1, Zenon
    <2>4. CASE \E err : Finish(r, ask[1], err, i)
      BY <1>1, <2>1, <2>4, FinishFields
    <2> QED BY <1>3, <2>3, <2>4, Zenon DEF Begin
  <1> QED BY <1>2, <1>3, Zenon

LEMMA FindAnswers ==
  ASSUME RecordsInv, NEW r \in Requests, NEW limited \in BOOLEAN, FindExisting(r, limited)
  PROVE  AnswersOpen(r) /\ request'[r].pc # "insert"
  <1> DEFINE E == FindPendingByKey(approvals, request[r].with)
             k == CHOOSE i \in E : TRUE
  <1>1. RecordsType /\ approvals' = approvals /\ request[r].status = 0
    BY SMT DEF RecordsInv, FindExisting, Knows
  <1>2. CASE E # {} /\ Finish(r, "create", "existing", k)
    <2>1. k \in E
      BY <1>2, Zenon
    <2>2. approvals[k].status = "pending" /\ ~approvals[k].expired /\ ~approvals[k].consumed
      BY <2>1, Zenon DEF FindPendingByKey, Open
    <2>3. request'[r].pc = "done" /\ request'[r].row = k
      BY <1>1, <1>2, FinishFields, Zenon
    <2> HIDE DEF k
    <2> QED BY <1>1, <2>2, <2>3, Zenon DEF AnswersOpen
  <1>3. CASE Finish(r, "create", "rateLimited", 0)
    <2>1. request'[r].pc = "done" /\ request'[r].status = 429
      BY <1>1, <1>3, FinishFields, StatusOf
    <2> QED BY <2>1 DEF AnswersOpen
  <1>4. CASE Step(r, "again") \/ Step(r, "count")
    <2>1. "again" \in Steps /\ "count" \in Steps
      BY Zenon DEF Steps
    <2>2. request'[r].pc \in {"again", "count"} /\ request'[r].status = 0
      BY <1>1, <1>4, <2>1, StepUpdate, Zenon
    <2> QED BY <2>2 DEF AnswersOpen
  <1> QED BY <1>2, <1>3, <1>4, Zenon DEF FindExisting, Answer

LEMMA CountAnswers ==
  ASSUME RecordsInv, NEW r \in Requests, CountPending(r) \/ CountFails(r)
  PROVE  /\ AnswersOpen(r)
         /\ \/ AtLimit /\ request'[r].pc # "insert"
            \/ (~AtLimit \/ CountFails(r)) /\ request'[r].pc = "insert" /\ request'[r].at = request[r].at
  <1>1. RecordsType /\ request[r].status = 0
    BY Zenon DEF RecordsInv, CountPending, CountFails, Knows
  <1>2. CASE Finish(r, "create", "rateLimited", 0) /\ AtLimit
    <2>1. request'[r].pc = "done" /\ request'[r].status = 429
      BY <1>1, <1>2, FinishFields, StatusOf
    <2> QED BY <1>2, <2>1 DEF AnswersOpen
  <1>3. CASE Step(r, "insert") /\ (~AtLimit \/ CountFails(r))
    <2>1. "insert" \in Steps
      BY Zenon DEF Steps
    <2>2. request'[r].pc = "insert" /\ request'[r].status = 0 /\ request'[r].at = request[r].at
      BY <1>1, <1>3, <2>1, StepUpdate, Zenon
    <2> QED BY <1>3, <2>2 DEF AnswersOpen
  <1> QED BY <1>2, <1>3, Zenon DEF CountPending, CountFails, Answer

LEMMA InsertAnswers ==
  ASSUME RecordsInv, NEW r \in Requests, Insert(r)
  PROVE  AnswersOpen(r) /\ request'[r].pc # "insert"
  <1> DEFINE tool == request[r].with
             c == Create(approvals, tool)
  <1>1. RecordsType /\ request[r].pc \in Creating
    BY Zenon DEF RecordsInv, Insert, Creating
  <1>2. tool \in Tools
    BY <1>1, Zenon DEF RecordsInv, Knows
  <1>3. approvals' = c.table
    BY Zenon DEF Insert
  <1>4. PICK err \in {"created", "existing"} : Finish(r, "create", err, c.id)
    BY Zenon DEF Insert, Answer
  <1> HIDE DEF c, tool
  <1>5. Open(approvals'[c.id], tool) /\ ~approvals'[c.id].expired
    BY <1>2, <1>3, CreateMoves, Zenon DEF c
  <1>6. request'[r].pc = "done" /\ request'[r].row = c.id
    BY <1>1, <1>4, FinishFields, Zenon
  <1> QED BY <1>5, <1>6, Zenon DEF AnswersOpen, Open

LEMMA OtherAnswers ==
  ASSUME RecordsInv, NEW r \in Requests, Return(r) \/ \E b \in serving, tool \in Tools : LockCreation(r, b, tool)
  PROVE  AnswersOpen(r) /\ request'[r].pc # "insert"
  <1>1. CASE Return(r)
    <2>1. request'[r] = Idle
      BY <1>1, Zenon DEF Return, RecordsInv, RecordsType
    <2>2. Idle.pc = "idle" /\ Idle.status = 0
      BY Zenon DEF Idle
    <2> QED BY <2>1, <2>2 DEF AnswersOpen
  <1>2. ASSUME NEW b \in serving, NEW tool \in Tools, LockCreation(r, b, tool) PROVE AnswersOpen(r) /\ request'[r].pc # "insert"
    <2> DEFINE q == [Idle EXCEPT !.pc = "find", !.op = "create", !.with = tool, !.at = b]
    <2>1. request'[r] = q
      BY <1>2, Zenon DEF LockCreation, RecordsInv, RecordsType
    <2>2. q.pc = "find" /\ q.status = 0
      BY Zenon DEF Idle
    <2> HIDE DEF q
    <2> QED BY <2>1, <2>2 DEF AnswersOpen
  <1> QED BY <1>1, <1>2, Zenon

LEMMA AnswersOpenOK ==
  ASSUME RecordsInv, NEW r \in Requests, RequestStep(r)
  PROVE  AnswersOpen(r)
  <1>1. request'[r].op # "create" => AnswersOpen(r)
    BY Zenon DEF AnswersOpen
  <1> QED BY <1>1, MutationAnswers, BeginAnswers, FindAnswers, CountAnswers, InsertAnswers, OtherAnswers, Zenon DEF RequestStep

(* When a creation answers, the row it names is pending, unexpired and not *)
(* retired: the service never hands out a prompt nobody can answer, also   *)
(* when the deduplication index still held an expired one.                 *)
THEOREM CreationsHandOutOpenPrompts == RecordsSpec => CreateAnswersOpenPrompt
  <1> DEFINE A == \A r \in Requests :
                    request[r].pc # "done" /\ request'[r].op = "create" /\ request'[r].status \in {200, 201}
                      => LET row == approvals'[request'[r].row]
                         IN  row.status = "pending" /\ ~row.expired /\ ~row.consumed
  <1>1. ASSUME RecordsInv, [RecordsNext]_recordsVars PROVE [A]_recordsVars
    <2>1. ASSUME NEW g \in Requests, request'[g] = request[g] PROVE AnswersOpen(g)
      BY <1>1, <2>1, SMT DEF AnswersOpen, RecordsInv, Knows
    <2>2. ASSUME NEW r \in Requests, RequestStep(r), serving' = serving PROVE A
      <3>1. \A g \in Requests : g = r \/ request'[g] = request[g]
        BY <1>1, <2>2, RequestStepOK, Zenon DEF Kept, OthersKept
      <3>2. \A g \in Requests : AnswersOpen(g)
        BY <1>1, <2>1, <2>2, <3>1, AnswersOpenOK, Zenon
      <3> QED BY <3>2, Zenon DEF AnswersOpen
    <2>3. ASSUME NEW i \in DOMAIN approvals, Expire(i), serving' = serving PROVE A
      <3>1. \A g \in Requests : AnswersOpen(g)
        BY <1>1, <2>1, <2>3, Zenon DEF Expire
      <3> QED BY <3>1, Zenon DEF AnswersOpen
    <2> HIDE DEF A
    <2> QED BY <1>1, <2>2, <2>3, StepCases, Zenon
  <1> QED BY <1>1, RecordsInvariant, PTL DEF RecordsSpec, CreateAnswersOpenPrompt

=============================================================================
