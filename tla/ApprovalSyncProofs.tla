------------------------- MODULE ApprovalSyncProofs -------------------------
(***************************************************************************)
(* Proofs about ApprovalSync, for any replicas, gated calls and bounds.    *)
(* Every record list a poll, a gated call or the cache holds is Good for   *)
(* the version that goes with it: a row withdrawn since it was listed has  *)
(* changed after that version.  The commits only move rows forward         *)
(* (Moves), so Good lists stay Good.                                       *)
(***************************************************************************)
EXTENDS ApprovalSync, TLAPS

(* -------------------------- the invariant ------------------------------ *)

Statuses == {"pending", "approved", "denied"}
Kinds == Persistences \union {"none"}
RowT == [tool : {"tool"}, status : Statuses, persistence : Kinds, consumed : BOOLEAN, expired : {FALSE}]
Entry == [status : Statuses, persistence : Kinds, consumed : BOOLEAN, reserved : BOOLEAN]
Lists == UNION {[D -> Entry] : D \in SUBSET Nat}

PollSteps == {"idle", "first", "second", "wait", "version", "list", "install"}
PollT == [pc : PollSteps, at : Brokers \union {"none"}, etag : Nat, session : BOOLEAN, version : Nat,
          list : Lists, subscribed : BOOLEAN, woken : BOOLEAN, missed : BOOLEAN]
CallSteps == {"idle", "version", "list", "install", "rematch", "create", "consume", "confirm", "release"}
CallT == [pc : CallSteps, session : BOOLEAN, version : Nat, list : Lists, record : Nat]
CacheT == [present : BOOLEAN, records : Lists, version : Nat, etag : Nat, fresh : BOOLEAN, session : BOOLEAN]
Sources == {"local", "notify"}

TableOK == table \in Seq(RowT) /\ version \in Nat /\ changed \in [DOMAIN table -> Nat]
WakeOK ==
  /\ listening \in [Brokers -> BOOLEAN] /\ signal \in [Brokers -> SUBSET Sources] /\ coalescing \in [Brokers -> BOOLEAN]
  /\ poll.pc # "idle" => poll.at \in Brokers
  /\ poll.pc \in {"second", "wait"} => poll.subscribed
  /\ NoLostWakeup

(* A list read with version v. *)
Good(list, v) ==
  /\ DOMAIN list \subseteq DOMAIN table /\ v <= version
  /\ \A i \in DOMAIN list : list[i].status = "approved" /\ Withdrawn(i) => changed[i] > v
Answer(q) == Good(q.list, q.version) /\ (q.pc = "version" => DOMAIN q.list = {})

PollOK == poll \in PollT /\ Answer(poll)
CacheOK == cache \in CacheT /\ Good(cache.records, cache.version)
Consuming == {"consume", "confirm", "release"}
CallOK(c) ==
  /\ Answer(call[c])
  /\ call[c].pc \in Consuming => call[c].record \in DOMAIN table
  /\ call[c].pc = "confirm" => table[call[c].record].consumed
CallsOK == call \in [Calls -> CallT] /\ \A c \in Calls : CallOK(c)
UsedOK == \A i \in used : i \in DOMAIN table /\ table[i].consumed

SyncInv == TableOK /\ WakeOK /\ PollOK /\ CacheOK /\ CallsOK /\ UsedOK

(* ------------------------- lists and records --------------------------- *)

LEMMA ListFacts ==
  /\ \A f \in Lists : f \in [DOMAIN f -> Entry] /\ DOMAIN f \in SUBSET Nat
  /\ \A D \in SUBSET Nat : \A f \in [D -> Entry] : f \in Lists /\ DOMAIN f = D
  <1>1. ASSUME NEW f \in Lists PROVE f \in [DOMAIN f -> Entry] /\ DOMAIN f \in SUBSET Nat
    <2>1. PICK D \in SUBSET Nat : f \in [D -> Entry]
      BY Zenon DEF Lists
    <2> QED BY <2>1, Zenon
  <1>2. ASSUME NEW D \in SUBSET Nat, NEW f \in [D -> Entry] PROVE f \in Lists /\ DOMAIN f = D
    BY <1>2, Zenon DEF Lists
  <1> QED BY <1>1, <1>2, Zenon

LEMMA NoList == <<>> \in Lists /\ DOMAIN <<>> = {}
  <1>1. DOMAIN <<>> = {}
    OBVIOUS
  <1>2. <<>> \in [{} -> Entry]
    OBVIOUS
  <1>3. {} \in SUBSET Nat
    BY Zenon
  <1> QED BY <1>1, <1>2, <1>3, ListFacts, Zenon

LEMMA TableDomain ==
  ASSUME NEW t \in Seq(RowT)
  PROVE  DOMAIN t = 1..Len(t) /\ Len(t) \in Nat /\ DOMAIN t \subseteq Nat /\ \A i \in DOMAIN t : t[i] \in RowT
  OBVIOUS

LEMMA NoPollFacts ==
  /\ NoPoll \in PollT
  /\ NoPoll.pc = "idle" /\ NoPoll.list = <<>> /\ NoPoll.version = 0 /\ ~NoPoll.subscribed
  BY NoList, Zenon DEF NoPoll, PollT, PollSteps

LEMMA NoCallFacts ==
  /\ NoCall \in CallT
  /\ NoCall.pc = "idle" /\ NoCall.list = <<>> /\ NoCall.version = 0
  BY NoList, Zenon DEF NoCall, CallT, CallSteps

(* ------------------------------ frames --------------------------------- *)

(* What a step may do to the table. *)
Moves ==
  /\ TableOK' /\ DOMAIN table \subseteq DOMAIN table' /\ version <= version'
  /\ \A i \in DOMAIN table :
       /\ table[i].consumed => table'[i].consumed
       /\ (table'[i] = table[i] /\ changed'[i] = changed[i]) \/ changed'[i] > version

(* Good in the next state, of a list that is not part of it. *)
GoodNext(list, v) ==
  /\ DOMAIN list \subseteq DOMAIN table' /\ v <= version'
  /\ \A i \in DOMAIN list :
       list[i].status = "approved" /\ (table'[i].status = "denied" \/ table'[i].consumed) => changed'[i] > v

LEMMA StaysGood ==
  ASSUME TableOK, Moves, NEW list, NEW v \in Nat, Good(list, v)
  PROVE  GoodNext(list, v)
  <1>1. version \in Nat /\ version' \in Nat /\ version <= version' /\ v <= version
    BY Zenon DEF TableOK, Moves, Good
  <1>2. v <= version'
    BY <1>1
  <1>3. DOMAIN list \subseteq DOMAIN table /\ DOMAIN list \subseteq DOMAIN table'
    BY Zenon DEF Good, Moves
  <1>4. ASSUME NEW i \in DOMAIN list, list[i].status = "approved", table'[i].status = "denied" \/ table'[i].consumed
        PROVE  changed'[i] > v
    <2>1. CASE table'[i] = table[i] /\ changed'[i] = changed[i]
      BY <1>4, <2>1, Zenon DEF Good, Withdrawn
    <2>2. CASE changed'[i] > version
      <3>1. changed'[i] \in Nat
        BY <1>3, Zenon DEF Moves, TableOK
      <3> QED BY <1>1, <2>2, <3>1
    <2> QED BY <1>3, <2>1, <2>2, Zenon DEF Moves
  <1> QED BY <1>2, <1>3, <1>4, Zenon DEF GoodNext

LEMMA NothingIsGood ==
  ASSUME Moves, TableOK, NEW list, DOMAIN list = {}, NEW v \in Nat, v <= version
  PROVE  GoodNext(list, v)
  <1>1. version \in Nat /\ version' \in Nat /\ version <= version'
    BY Zenon DEF TableOK, Moves
  <1>2. v <= version'
    BY <1>1
  <1> QED BY <1>2, Zenon DEF GoodNext

LEMMA SameTable ==
  ASSUME TableOK, UNCHANGED <<table, version, changed>>
  PROVE  Moves
  <1>1. version <= version'
    BY DEF TableOK
  <1> QED BY <1>1, Zenon DEF Moves, TableOK

LEMMA CacheFrame ==
  ASSUME TableOK, Moves, CacheOK, cache' = cache
  PROVE  CacheOK'
  <1>1. cache.version \in Nat
    BY Zenon DEF CacheOK, CacheT
  <1> QED BY <1>1, StaysGood, Zenon DEF CacheOK, Good, GoodNext, Withdrawn

LEMMA AnswerFrame ==
  ASSUME TableOK, Moves, NEW q, q.version \in Nat, Answer(q)
  PROVE  GoodNext(q.list, q.version) /\ (q.pc = "version" => DOMAIN q.list = {})
  BY StaysGood, Zenon DEF Answer

LEMMA CallFrame ==
  ASSUME TableOK, Moves, NEW c, call[c] \in CallT, CallOK(c), call'[c] = call[c]
  PROVE  CallOK(c)'
  <1>1. call[c].version \in Nat
    BY Zenon DEF CallT
  <1>2. Answer(call[c])'
    BY <1>1, AnswerFrame, Zenon DEF CallOK, Answer, Good, GoodNext, Withdrawn
  <1> QED BY <1>2, Zenon DEF CallOK, Moves, Consuming

LEMMA CallsFrame ==
  ASSUME TableOK, Moves, CallsOK, call' = call
  PROVE  CallsOK'
  BY CallFrame, Zenon DEF CallsOK

LEMMA UsedFrame ==
  ASSUME TableOK, Moves, UsedOK, used' = used
  PROVE  UsedOK'
  BY Zenon DEF UsedOK, Moves

LEMMA PollFrame ==
  ASSUME TableOK, Moves, PollOK, poll' \in PollT, poll'.pc = "version" => poll.pc = "version",
         poll'.list = poll.list, poll'.version = poll.version
  PROVE  PollOK'
  <1>1. poll.version \in Nat
    BY Zenon DEF PollOK, PollT
  <1>2. GoodNext(poll.list, poll.version) /\ (poll.pc = "version" => DOMAIN poll.list = {})
    BY <1>1, AnswerFrame, Zenon DEF PollOK
  <1> QED BY <1>2, Zenon DEF PollOK, Answer, Good, GoodNext, Withdrawn

(* ------------------------------ commits -------------------------------- *)

(* The rows after a commit that changed row i. *)
RowChanged(rows, i) ==
  /\ rows \in Seq(RowT) /\ DOMAIN rows = DOMAIN table \union {i}
  /\ \A j \in DOMAIN table \ {i} : rows[j] = table[j]
  /\ i \in DOMAIN table /\ table[i].consumed => rows[i].consumed

LEMMA CommitMoves ==
  ASSUME TableOK, NEW b, NEW rows, NEW i, RowChanged(rows, i), Commit(b, rows, i)
  PROVE  Moves
  <1>1. table' = rows /\ version' = version + 1 /\ version \in Nat
    BY Zenon DEF Commit, TableOK
  <1>2. version' \in Nat /\ version <= version' /\ version' > version
    BY <1>1
  <1>3. /\ DOMAIN changed' = DOMAIN rows
        /\ \A j \in DOMAIN rows : changed'[j] = IF j = i THEN version' ELSE changed[j]
    BY <1>1, Zenon DEF Commit
  <1>4. \A j \in DOMAIN rows : changed'[j] \in Nat
    BY <1>2, <1>3, Zenon DEF TableOK, RowChanged
  <1>5. changed' \in [DOMAIN rows -> Nat]
    BY <1>3, <1>4, Zenon DEF Commit
  <1>6. TableOK'
    BY <1>1, <1>2, <1>5, Zenon DEF TableOK, RowChanged
  <1>7. ASSUME NEW j \in DOMAIN table
        PROVE  /\ table[j].consumed => table'[j].consumed
               /\ (table'[j] = table[j] /\ changed'[j] = changed[j]) \/ changed'[j] > version
    BY <1>1, <1>2, <1>3, Zenon DEF RowChanged
  <1> QED BY <1>1, <1>2, <1>6, <1>7, Zenon DEF Moves, RowChanged

LEMMA CommitWakes ==
  ASSUME WakeOK, PollOK, NEW b, NEW rows, NEW i, Commit(b, rows, i)
  PROVE  WakeOK' /\ poll' \in PollT /\ poll'.pc = poll.pc /\ poll'.list = poll.list /\ poll'.version = poll.version
  <1> DEFINE gone == \E x \in Brokers : Subscribed(x) /\ x # b /\ ~listening[x]
             m == poll.missed \/ gone
  <1>1. poll \in PollT /\ m \in BOOLEAN
    BY Zenon DEF PollOK, PollT
  <1>2. poll' = [poll EXCEPT !.missed = m]
    BY Zenon DEF Commit
  <1>3. /\ poll' \in PollT /\ poll'.missed = m /\ poll'.pc = poll.pc /\ poll'.at = poll.at /\ poll'.etag = poll.etag
        /\ poll'.list = poll.list /\ poll'.version = poll.version /\ poll'.subscribed = poll.subscribed /\ poll'.woken = poll.woken
    <2> HIDE DEF m
    <2> QED BY <1>1, <1>2, Zenon DEF PollT
  <1>4. /\ listening' = listening /\ coalescing' = coalescing
        /\ signal' = [x \in Brokers |-> signal[x] \union (IF x = b THEN {"local"} ELSE {})
                                                  \union (IF listening[x] THEN {"notify"} ELSE {})]
    BY Zenon DEF Commit
  <1>5. signal' \in [Brokers -> SUBSET Sources]
    BY <1>4, Zenon DEF WakeOK, Sources
  <1>6. ASSUME NEW x \in Brokers, poll.at = x, poll.subscribed PROVE poll'.missed \/ signal'[x] # {}
    <2>1. CASE x = b \/ listening[x]
      BY <1>4, <2>1, Zenon
    <2>2. CASE x # b /\ ~listening[x]
      <3>1. m
        BY <1>6, <2>2, Zenon DEF Subscribed
      <3> QED BY <1>3, <3>1, Zenon
    <2> QED BY <2>1, <2>2, Zenon
  <1>7. NoLostWakeup'
    <2> SUFFICES ASSUME poll'.pc = "wait" PROVE poll'.missed \/ signal'[poll'.at] # {}
      BY Zenon DEF NoLostWakeup
    <2>1. poll.at \in Brokers /\ poll.subscribed
      BY <1>3, Zenon DEF WakeOK
    <2> HIDE DEF m
    <2> QED BY <1>3, <1>6, <2>1, Zenon
  <1> HIDE DEF m
  <1> QED BY <1>3, <1>4, <1>5, <1>7, Zenon DEF WakeOK

(* The rows an operation on the table leaves. *)
LEMMA RowUpdate ==
  ASSUME TableOK, NEW i \in DOMAIN table, NEW n \in RowT, table[i].consumed => n.consumed
  PROVE  RowChanged([table EXCEPT ![i] = n], i)
  <1> DEFINE rows == [table EXCEPT ![i] = n]
  <1>1. table \in Seq(RowT) /\ DOMAIN table = 1..Len(table) /\ Len(table) \in Nat /\ \A j \in DOMAIN table : table[j] \in RowT
    BY TableDomain, Zenon DEF TableOK
  <1>2. rows \in [DOMAIN table -> RowT] /\ DOMAIN rows = DOMAIN table /\ rows[i] = n /\ \A j \in DOMAIN table \ {i} : rows[j] = table[j]
    BY <1>1, Zenon
  <1> HIDE DEF rows
  <1>3. rows \in [1..Len(table) -> RowT]
    BY <1>1, <1>2, Zenon
  <1>4. rows \in Seq(RowT)
    BY <1>1, <1>3
  <1> QED BY <1>2, <1>4, Zenon DEF RowChanged, rows

LEMMA OperationOK ==
  ASSUME NEW o \in RowT, NEW p \in Kinds
  PROVE  /\ Approve(o, p).err = "ok" => Approve(o, p).row \in RowT /\ (o.consumed => Approve(o, p).row.consumed)
         /\ Deny(o, p).err = "ok" => Deny(o, p).row \in RowT /\ (o.consumed => Deny(o, p).row.consumed)
         /\ RevokePermanent(o).err = "ok" =>
              RevokePermanent(o).row \in RowT /\ (o.consumed => RevokePermanent(o).row.consumed)
         /\ Consume(o).err = "ok" => Consume(o).row \in RowT /\ Consume(o).row.consumed
  <1>1. \A s \in Statuses : \A k \in Kinds : Decide(o, s, k) \in RowT /\ Decide(o, s, k).consumed = o.consumed
    BY Zenon DEF Decide, RowT
  <1>2. [o EXCEPT !.consumed = TRUE] \in RowT /\ [o EXCEPT !.consumed = TRUE].consumed
    BY Zenon DEF RowT
  <1>3. "approved" \in Statuses /\ "denied" \in Statuses /\ "none" \in Kinds
    BY Zenon DEF Statuses, Kinds
  <1>4. \A row, err : Result(row, err).row = row /\ Result(row, err).err = err
    BY Zenon DEF Result
  <1>5. "notFound" # "ok"
    BY Zenon
  <1>6. Approve(o, p).err = "ok" => Approve(o, p).row \in RowT /\ (o.consumed => Approve(o, p).row.consumed)
    BY <1>1, <1>3, <1>4, <1>5 DEF Approve
  <1>7. Deny(o, p).err = "ok" => Deny(o, p).row \in RowT /\ (o.consumed => Deny(o, p).row.consumed)
    BY <1>1, <1>3, <1>4, <1>5 DEF Deny
  <1>8. RevokePermanent(o).err = "ok" =>
          RevokePermanent(o).row \in RowT /\ (o.consumed => RevokePermanent(o).row.consumed)
    BY <1>1, <1>3, <1>4, <1>5 DEF RevokePermanent
  <1>9. Consume(o).err = "ok" => Consume(o).row \in RowT /\ Consume(o).row.consumed
    BY <1>2, <1>4, <1>5, Zenon DEF Consume
  <1> QED BY <1>6, <1>7, <1>8, <1>9, Zenon

(* Creation finds nothing to retire. *)
LEMMA CreateOK ==
  ASSUME TableOK
  PROVE  LET c == Create(table, "tool")
         IN  c.id \notin DOMAIN table => RowChanged(c.table, c.id)
  <1> DEFINE c == Create(table, "tool")
             t == Retire(table, "tool")
             E == {i \in DOMAIN t : Open(t[i], "tool")}
             a == NewApproval("tool")
  <1>1. table \in Seq(RowT) /\ \A j \in DOMAIN table : table[j] \in RowT
    BY TableDomain, Zenon DEF TableOK
  <1>2. t = table
    <2>1. \A i \in DOMAIN table : ~table[i].expired
      BY <1>1, Zenon DEF RowT
    <2>2. t = [i \in DOMAIN table |-> table[i]]
      BY <2>1, Zenon DEF Retire
    <2> QED BY <1>1, <2>2
  <1>3. a \in RowT
    BY Zenon DEF NewApproval, RowT, Statuses, Kinds
  <1>4. CASE E = {}
    <2>1. c.table = Append(table, a) /\ c.id = Len(table) + 1
      BY <1>2, <1>4, Zenon DEF Create
    <2> HIDE DEF a
    <2>2. /\ Append(table, a) \in Seq(RowT) /\ DOMAIN Append(table, a) = DOMAIN table \union {Len(table) + 1}
          /\ Len(table) + 1 \notin DOMAIN table
          /\ \A j \in DOMAIN table : Append(table, a)[j] = table[j]
      BY <1>1, <1>3
    <2> HIDE DEF c
    <2>3. RowChanged(c.table, c.id)
      BY <2>1, <2>2, Zenon DEF RowChanged
    <2> QED BY <2>3, Zenon DEF c
  <1>5. CASE E # {}
    <2> DEFINE k == CHOOSE i \in E : TRUE
    <2>1. k \in E
      BY <1>5, Zenon
    <2>2. c.id = k
      BY <1>5, Zenon DEF Create
    <2>3. k \in DOMAIN table
      BY <1>2, <2>1, Zenon
    <2> QED BY <2>2, <2>3, Zenon
  <1> QED BY <1>4, <1>5, Zenon

(* --------------------------- the wake-up path -------------------------- *)

LEMMA WakeStep ==
  ASSUME SyncInv, UNCHANGED <<table, version, changed, cache, call, used>>, WakeOK', PollOK'
  PROVE  SyncInv'
  <1>1. TableOK /\ Moves
    BY SameTable, Zenon DEF SyncInv
  <1> QED BY <1>1, CacheFrame, CallsFrame, UsedFrame, Zenon DEF SyncInv, Moves

LEMMA PollKept ==
  ASSUME SyncInv, UNCHANGED <<table, version, changed>>, poll' \in PollT,
         poll'.pc = "version" => poll.pc = "version", poll'.list = poll.list, poll'.version = poll.version
  PROVE  PollOK'
  BY SameTable, PollFrame, Zenon DEF SyncInv

LEMMA PollReset ==
  ASSUME SyncInv, UNCHANGED <<table, version, changed>>, poll' \in PollT,
         poll'.list = <<>>, poll'.version = 0
  PROVE  PollOK'
  <1>1. TableOK /\ Moves /\ 0 \in Nat /\ 0 <= version
    BY SameTable DEF SyncInv, TableOK
  <1>2. GoodNext(<<>>, 0)
    BY <1>1, NoList, NothingIsGood, Zenon
  <1> QED BY <1>2, NoList, Zenon DEF PollOK, Answer, Good, GoodNext, Withdrawn

LEMMA BroadcastOK ==
  ASSUME SyncInv, NEW b \in Brokers, NEW source \in Sources, Broadcast(b, source)
  PROVE  SyncInv'
  <1>1. PollOK'
    <2>1. poll \in PollT
      BY Zenon DEF SyncInv, PollOK
    <2> QED BY <2>1, PollKept, Zenon DEF Broadcast
  <1>2. /\ poll' = poll /\ version' = version /\ listening' = listening
        /\ signal \in [Brokers -> SUBSET Sources] /\ coalescing \in [Brokers -> BOOLEAN]
        /\ signal' = [signal EXCEPT ![b] = @ \ {source}] /\ coalescing' = [coalescing EXCEPT ![b] = TRUE]
    BY Zenon DEF SyncInv, WakeOK, Broadcast
  <1>3. /\ signal' \in [Brokers -> SUBSET Sources] /\ coalescing' \in [Brokers -> BOOLEAN]
        /\ coalescing'[b] /\ \A x \in Brokers \ {b} : signal'[x] = signal[x] /\ coalescing'[x] = coalescing[x]
    BY <1>2, Zenon
  <1>4. WakeOK'
    <2>1. poll.pc = "wait" => poll.at \in Brokers
      BY Zenon DEF SyncInv, WakeOK
    <2>2. NoLostWakeup'
      BY <1>2, <1>3, <2>1, Zenon DEF SyncInv, WakeOK, NoLostWakeup
    <2> QED BY <1>2, <1>3, <2>2, Zenon DEF SyncInv, WakeOK
  <1> QED BY <1>1, <1>4, WakeStep, Zenon DEF Broadcast

LEMMA notifyAllOK ==
  ASSUME SyncInv, NEW b \in Brokers, notifyAll(b)
  PROVE  SyncInv'
  <1>1. poll \in PollT
    BY Zenon DEF SyncInv, PollOK
  <1>2. /\ poll' \in PollT /\ poll'.pc = poll.pc /\ poll'.at = poll.at /\ poll'.etag = poll.etag /\ poll'.list = poll.list
        /\ poll'.version = poll.version /\ poll'.subscribed = poll.subscribed /\ poll'.missed = poll.missed
        /\ poll.woken \/ Subscribed(b) => poll'.woken
    <2>1. CASE Subscribed(b)
      <3>1. poll' = [poll EXCEPT !.woken = TRUE]
        BY <2>1, Zenon DEF notifyAll
      <3> QED BY <1>1, <3>1, Zenon DEF PollT
    <2>2. CASE ~Subscribed(b)
      BY <1>1, <2>2, Zenon DEF notifyAll
    <2> QED BY <2>1, <2>2, Zenon
  <1>3. PollOK'
    BY <1>2, PollKept, Zenon DEF notifyAll
  <1>4. /\ coalescing' \in [Brokers -> BOOLEAN] /\ \A x \in Brokers \ {b} : coalescing'[x] = coalescing[x]
        /\ signal' = signal /\ listening' = listening /\ version' = version
    BY Zenon DEF notifyAll, SyncInv, WakeOK
  <1>5. NoLostWakeup'
    <2>1. poll.pc = "wait" => poll.at \in Brokers /\ poll.subscribed
      BY Zenon DEF SyncInv, WakeOK
    <2>2. CASE poll.at = b /\ poll.subscribed
      BY <1>2, <2>2, Zenon DEF NoLostWakeup, Subscribed
    <2>3. CASE poll.at # b
      BY <1>2, <1>4, <2>1, <2>3, Zenon DEF SyncInv, WakeOK, NoLostWakeup
    <2> QED BY <1>2, <2>1, <2>2, <2>3, Zenon DEF NoLostWakeup
  <1>6. WakeOK'
    BY <1>2, <1>4, <1>5, Zenon DEF SyncInv, WakeOK
  <1> QED BY <1>3, <1>6, WakeStep, Zenon DEF notifyAll

LEMMA ListenLostOK ==
  ASSUME SyncInv, NEW b \in Brokers, ListenLost(b)
  PROVE  SyncInv'
  <1> DEFINE m == poll.missed \/ (Subscribed(b) /\ "notify" \in signal[b])
  <1>1. poll \in PollT /\ m \in BOOLEAN
    BY Zenon DEF SyncInv, PollOK, PollT
  <1>2. poll' = [poll EXCEPT !.missed = m]
    BY Zenon DEF ListenLost
  <1>3. /\ poll' \in PollT /\ poll'.pc = poll.pc /\ poll'.at = poll.at /\ poll'.etag = poll.etag /\ poll'.list = poll.list
        /\ poll'.version = poll.version /\ poll'.subscribed = poll.subscribed /\ poll'.woken = poll.woken /\ poll'.missed = m
    <2> HIDE DEF m
    <2> QED BY <1>1, <1>2, Zenon DEF PollT
  <1>4. PollOK'
    <2> HIDE DEF m
    <2> QED BY <1>3, PollKept, Zenon DEF ListenLost
  <1>5. /\ signal \in [Brokers -> SUBSET Sources] /\ listening \in [Brokers -> BOOLEAN]
        /\ signal' = [signal EXCEPT ![b] = @ \ {"notify"}] /\ listening' = [listening EXCEPT ![b] = FALSE]
        /\ coalescing' = coalescing /\ version' = version
    BY Zenon DEF ListenLost, SyncInv, WakeOK
  <1>6. /\ signal' \in [Brokers -> SUBSET Sources] /\ listening' \in [Brokers -> BOOLEAN]
        /\ \A x \in Brokers \ {b} : signal'[x] = signal[x] /\ signal'[b] = signal[b] \ {"notify"}
        /\ "notify" \notin signal[b] => signal'[b] = signal[b]
    BY <1>5, Zenon
  <1>7. NoLostWakeup'
    <2> SUFFICES ASSUME poll'.pc = "wait", version' # poll'.etag, ~poll'.woken, ~poll'.missed
                 PROVE  coalescing'[poll'.at] \/ signal'[poll'.at] # {}
      BY Zenon DEF NoLostWakeup
    <2>1. poll.pc = "wait" /\ version # poll.etag /\ ~poll.woken /\ ~m
      BY <1>3, <1>5, Zenon
    <2>2. poll.at \in Brokers /\ poll.subscribed
      BY <2>1, Zenon DEF SyncInv, WakeOK
    <2>3. ~poll.missed /\ ~(poll.at = b /\ "notify" \in signal[b])
      BY <2>1, <2>2, Zenon DEF Subscribed
    <2>4. coalescing[poll.at] \/ signal[poll.at] # {}
      BY <2>1, <2>3, Zenon DEF SyncInv, WakeOK, NoLostWakeup
    <2>5. signal'[poll.at] = signal[poll.at]
      BY <1>6, <2>2, <2>3, Zenon
    <2> HIDE DEF m
    <2> QED BY <1>3, <1>5, <2>4, <2>5, Zenon
  <1>8. WakeOK'
    <2> HIDE DEF m
    <2> QED BY <1>3, <1>5, <1>6, <1>7, Zenon DEF SyncInv, WakeOK
  <1> QED BY <1>4, <1>8, WakeStep, Zenon DEF ListenLost

LEMMA listenOnceOK ==
  ASSUME SyncInv, NEW b \in Brokers, listenOnce(b)
  PROVE  SyncInv'
  <1>1. PollOK'
    <2>1. poll \in PollT
      BY Zenon DEF SyncInv, PollOK
    <2> QED BY <2>1, PollKept, Zenon DEF listenOnce
  <1>2. WakeOK'
    BY Zenon DEF SyncInv, WakeOK, listenOnce, NoLostWakeup
  <1> QED BY <1>1, <1>2, WakeStep, Zenon DEF listenOnce

LEMMA BrokerRestartsOK ==
  ASSUME SyncInv, NEW b \in Brokers, BrokerRestarts(b)
  PROVE  SyncInv'
  <1>1. /\ listening' = [listening EXCEPT ![b] = FALSE] /\ signal' = [signal EXCEPT ![b] = {}]
        /\ coalescing' = [coalescing EXCEPT ![b] = FALSE] /\ version' = version
        /\ listening \in [Brokers -> BOOLEAN] /\ signal \in [Brokers -> SUBSET Sources] /\ coalescing \in [Brokers -> BOOLEAN]
    BY Zenon DEF BrokerRestarts, SyncInv, WakeOK
  <1>2. /\ listening' \in [Brokers -> BOOLEAN] /\ signal' \in [Brokers -> SUBSET Sources] /\ coalescing' \in [Brokers -> BOOLEAN]
        /\ \A x \in Brokers \ {b} : signal'[x] = signal[x] /\ coalescing'[x] = coalescing[x]
    BY <1>1, Zenon
  <1>3. CASE poll' = NoPoll
    <2>1. PollOK'
      BY <1>3, NoPollFacts, PollReset, Zenon DEF BrokerRestarts
    <2>2. WakeOK'
      BY <1>2, <1>3, NoPollFacts, Zenon DEF WakeOK, NoLostWakeup
    <2> QED BY <2>1, <2>2, WakeStep, Zenon DEF BrokerRestarts
  <1>4. CASE poll' = poll /\ poll.at # b
    <2>1. PollOK'
      <3>1. poll \in PollT
        BY Zenon DEF SyncInv, PollOK
      <3> QED BY <1>4, <3>1, PollKept, Zenon DEF BrokerRestarts
    <2>2. poll.pc = "wait" => poll.at \in Brokers
      BY Zenon DEF SyncInv, WakeOK
    <2>3. NoLostWakeup'
      BY <1>1, <1>2, <1>4, <2>2, Zenon DEF SyncInv, WakeOK, NoLostWakeup
    <2>4. WakeOK'
      BY <1>2, <1>4, <2>3, Zenon DEF SyncInv, WakeOK
    <2> QED BY <2>1, <2>4, WakeStep, Zenon DEF BrokerRestarts
  <1> QED BY <1>3, <1>4, Zenon DEF BrokerRestarts

(* ----------------------------- the long poll --------------------------- *)

LEMMA PollStep ==
  ASSUME SyncInv, UNCHANGED <<brokerVars, call, used>>, WakeOK', PollOK', CacheOK'
  PROVE  SyncInv'
  <1>1. TableOK /\ Moves
    BY SameTable, Zenon DEF SyncInv, brokerVars
  <1> QED BY <1>1, CallsFrame, UsedFrame, Zenon DEF SyncInv, Moves

LEMMA CacheKept ==
  ASSUME SyncInv, UNCHANGED <<brokerVars, cache>>
  PROVE  CacheOK'
  BY SameTable, CacheFrame, Zenon DEF SyncInv, brokerVars

(* A poll at another step than waiting. *)
LEMMA NotWaiting ==
  ASSUME SyncInv, UNCHANGED brokerVars, poll'.pc # "wait", poll'.pc # "idle" => poll'.at \in Brokers,
         poll'.pc = "second" => poll'.subscribed
  PROVE  WakeOK'
  BY Zenon DEF SyncInv, WakeOK, NoLostWakeup, brokerVars

LEMMA StartPollOK ==
  ASSUME SyncInv, NEW b \in Brokers, StartPoll(b)
  PROVE  SyncInv'
  <1>1. cache \in CacheT
    BY Zenon DEF SyncInv, CacheOK
  <1>2. /\ poll' \in PollT /\ poll'.pc \in {"version", "first"} /\ poll'.at = b
        /\ poll'.list = <<>> /\ poll'.version = 0
    BY <1>1, NoList, Zenon DEF StartPoll, NoPoll, PollT, CacheT, PollSteps
  <1>3. PollOK'
    BY <1>2, PollReset, Zenon DEF StartPoll, brokerVars
  <1>4. WakeOK'
    BY <1>2, NotWaiting, Zenon DEF StartPoll
  <1>5. CacheOK'
    BY CacheKept, Zenon DEF StartPoll
  <1> QED BY <1>3, <1>4, <1>5, PollStep, Zenon DEF StartPoll

LEMMA AnsweringFacts ==
  ASSUME SyncInv, poll.pc # "idle"
  PROVE  /\ Answering \in PollT /\ Answering.pc = "version" /\ Answering.at = poll.at /\ poll.at \in Brokers
         /\ Answering.list = <<>> /\ Answering.version = 0
  <1>1. poll \in PollT /\ poll.at \in Brokers
    BY Zenon DEF SyncInv, PollOK, WakeOK
  <1> QED BY <1>1, NoList, Zenon DEF Answering, NoPoll, PollT, PollSteps

LEMMA AnsweringOK ==
  ASSUME SyncInv, poll.pc # "idle", poll' = Answering, UNCHANGED <<brokerVars, cache, call, used>>
  PROVE  SyncInv'
  <1>1. PollOK'
    BY AnsweringFacts, PollReset, Zenon DEF brokerVars
  <1>2. WakeOK'
    BY AnsweringFacts, NotWaiting, Zenon
  <1>3. CacheOK'
    BY CacheKept, Zenon
  <1> QED BY <1>1, <1>2, <1>3, PollStep, Zenon

LEMMA PreparePollOK ==
  ASSUME SyncInv, PreparePoll
  PROVE  SyncInv'
  <1>1. poll.pc \in {"first", "second"} /\ poll \in PollT
    BY Zenon DEF PreparePoll, Preparation, SyncInv, PollOK
  <1>2. poll.at \in Brokers /\ (poll.pc = "second" => poll.subscribed)
    BY <1>1, Zenon DEF SyncInv, WakeOK
  <1>3. CASE poll.pc = "first"
    <2>1. poll' = [poll EXCEPT !.pc = "second", !.subscribed = TRUE]
      BY <1>3 DEF PreparePoll, Preparation
    <2>2. /\ poll' \in PollT /\ poll'.pc = "second" /\ poll'.at = poll.at /\ poll'.subscribed
          /\ poll'.list = poll.list /\ poll'.version = poll.version
      BY <1>1, <2>1, Zenon DEF PollT, PollSteps
    <2>3. PollOK'
      BY <2>2, PollKept, Zenon DEF PreparePoll, brokerVars
    <2>4. WakeOK'
      BY <1>2, <2>2, NotWaiting, Zenon DEF PreparePoll
    <2>5. CacheOK'
      BY CacheKept, Zenon DEF PreparePoll
    <2> QED BY <2>3, <2>4, <2>5, PollStep, Zenon DEF PreparePoll
  <1>4. CASE poll.pc = "second" /\ version = poll.etag
    <2>1. poll' = [poll EXCEPT !.pc = "wait"]
      BY <1>4 DEF PreparePoll, Preparation
    <2>2. /\ poll' \in PollT /\ poll'.pc = "wait" /\ poll'.at = poll.at /\ poll'.subscribed = poll.subscribed
          /\ poll'.etag = poll.etag /\ poll'.list = poll.list /\ poll'.version = poll.version
      BY <1>1, <2>1, Zenon DEF PollT, PollSteps
    <2>3. PollOK'
      BY <2>2, PollKept, Zenon DEF PreparePoll, brokerVars
    <2>4. NoLostWakeup'
      BY <1>4, <2>2, Zenon DEF NoLostWakeup, PreparePoll, brokerVars
    <2>5. WakeOK'
      BY <1>2, <1>4, <2>2, <2>4, Zenon DEF WakeOK, SyncInv, PreparePoll, brokerVars
    <2>6. CacheOK'
      BY CacheKept, Zenon DEF PreparePoll
    <2> QED BY <2>3, <2>5, <2>6, PollStep, Zenon DEF PreparePoll
  <1>5. CASE poll.pc = "second" /\ version # poll.etag
    <2>1. poll' = Answering
      BY <1>5 DEF PreparePoll, Preparation
    <2> QED BY <1>5, <2>1, AnsweringOK, Zenon DEF PreparePoll
  <1> QED BY <1>1, <1>3, <1>4, <1>5, Zenon

LEMMA WakeActionOK ==
  ASSUME SyncInv, Wake
  PROVE  SyncInv'
  BY AnsweringOK, Zenon DEF Wake

LEMMA NoPollOK ==
  ASSUME SyncInv, poll' = NoPoll, UNCHANGED <<brokerVars, call, used>>, CacheOK'
  PROVE  SyncInv'
  <1>1. PollOK'
    BY NoPollFacts, PollReset, Zenon DEF brokerVars
  <1>2. WakeOK'
    BY NoPollFacts, NotWaiting, Zenon
  <1> QED BY <1>1, <1>2, PollStep, Zenon

LEMMA PollFailsOK ==
  ASSUME SyncInv, PollFails
  PROVE  SyncInv'
  BY CacheKept, NoPollOK, Zenon DEF PollFails

(* The rows a snapshot lists have not been withdrawn. *)
LEMMA SnapshotGood ==
  ASSUME TableOK, UNCHANGED <<table, version, changed>>, NEW s, NEW v \in Nat, v <= version
  PROVE  Snapshot(s) \in Lists /\ GoodNext(Snapshot(s), v)
  <1> DEFINE D == ListAllActive(table, s)
             e(i) == [status |-> table[i].status, persistence |-> table[i].persistence,
                      consumed |-> FALSE, reserved |-> FALSE]
  <1>1. DOMAIN table \subseteq Nat /\ \A i \in DOMAIN table : table[i] \in RowT
    BY TableDomain, Zenon DEF TableOK
  <1>2. D \subseteq DOMAIN table /\ \A i \in D : ~table[i].consumed
    BY Zenon DEF ListAllActive
  <1>3. \A i \in D : e(i) \in Entry /\ e(i).status = table[i].status
    BY <1>1, <1>2, Zenon DEF RowT, Entry
  <1> HIDE DEF D
  <1>4. Snapshot(s) = [i \in D |-> e(i)]
    BY Zenon DEF Snapshot, D
  <1> HIDE DEF e
  <1>5. Snapshot(s) \in [D -> Entry] /\ DOMAIN Snapshot(s) = D /\ \A i \in D : Snapshot(s)[i] = e(i)
    BY <1>3, <1>4, Zenon
  <1>6. D \in SUBSET Nat
    BY <1>1, <1>2, Zenon
  <1>7. Snapshot(s) \in Lists
    BY <1>5, <1>6, ListFacts, Zenon
  <1>8. ASSUME NEW i \in D, Snapshot(s)[i].status = "approved", table[i].status = "denied" \/ table[i].consumed PROVE FALSE
    BY <1>2, <1>3, <1>5, <1>8, Zenon
  <1> QED BY <1>2, <1>5, <1>7, <1>8, Zenon DEF GoodNext

(* ---------------------- reading and installing ------------------------- *)

LEMMA PollReadsOK ==
  ASSUME SyncInv, PollReads
  PROVE  SyncInv'
  <1>1. TableOK /\ Moves /\ UNCHANGED <<table, version, changed>>
    BY SameTable, Zenon DEF SyncInv, brokerVars, PollReads
  <1>2. poll \in PollT /\ Answer(poll) /\ version \in Nat /\ poll.version \in Nat /\ poll.version <= version /\ poll.pc \in {"version", "list"}
    BY Zenon DEF SyncInv, PollOK, TableOK, PollReads, Reading, Answer, Good, PollT
  <1>3. poll.at \in Brokers
    BY <1>2, Zenon DEF SyncInv, WakeOK
  <1>4. poll' \in PollT /\ poll'.pc \in {"list", "install"} /\ poll'.at = poll.at /\ GoodNext(poll'.list, poll'.version)
    <2>1. CASE poll.pc = "version"
      <3>1. poll' = [poll EXCEPT !.pc = "list", !.version = version]
        BY <2>1, Zenon DEF PollReads, GetSyncState
      <3>2. poll' \in PollT /\ poll'.pc = "list" /\ poll'.at = poll.at /\ poll'.list = poll.list /\ poll'.version = version
        BY <1>2, <3>1, Zenon DEF PollT, PollSteps
      <3>3. DOMAIN poll.list = {} /\ version <= version
        BY <1>2, <2>1 DEF Answer
      <3>4. GoodNext(poll.list, version)
        BY <1>1, <1>2, <3>3, NothingIsGood, Zenon
      <3> QED BY <3>2, <3>4, Zenon
    <2>2. CASE poll.pc = "list"
      <3>1. poll' = [poll EXCEPT !.pc = "install", !.list = Snapshot(poll.session)]
        BY <2>2, Zenon DEF PollReads, GetSyncState
      <3>2. Snapshot(poll.session) \in Lists /\ GoodNext(Snapshot(poll.session), poll.version)
        BY <1>1, <1>2, SnapshotGood, Zenon
      <3>3. /\ poll' \in PollT /\ poll'.pc = "install" /\ poll'.at = poll.at
            /\ poll'.list = Snapshot(poll.session) /\ poll'.version = poll.version
        BY <1>2, <3>1, <3>2, Zenon DEF PollT, PollSteps
      <3> QED BY <3>2, <3>3, Zenon
    <2> QED BY <1>2, <2>1, <2>2, Zenon
  <1>5. PollOK'
    BY <1>4, Zenon DEF PollOK, Answer, Good, GoodNext, Withdrawn
  <1>6. WakeOK'
    BY <1>3, <1>4, NotWaiting, Zenon DEF PollReads
  <1>7. CacheOK'
    BY CacheKept, Zenon DEF PollReads
  <1> QED BY <1>5, <1>6, <1>7, PollStep, Zenon DEF PollReads

(* A cache with the same records and version is as good. *)
LEMMA CacheTouched ==
  ASSUME SyncInv, UNCHANGED brokerVars, cache' \in CacheT, cache'.records = cache.records, cache'.version = cache.version
  PROVE  CacheOK'
  <1>1. TableOK /\ Moves /\ CacheOK
    BY SameTable, Zenon DEF SyncInv, brokerVars
  <1>2. cache.version \in Nat
    BY <1>1, Zenon DEF CacheOK, CacheT
  <1>3. GoodNext(cache.records, cache.version)
    BY <1>1, <1>2, StaysGood, Zenon DEF CacheOK
  <1> QED BY <1>3, Zenon DEF CacheOK, Good, GoodNext, Withdrawn

LEMMA NotModifiedOK ==
  ASSUME SyncInv, NotModified
  PROVE  SyncInv'
  <1>1. cache \in CacheT
    BY Zenon DEF SyncInv, CacheOK
  <1>2. cache' \in CacheT /\ cache'.records = cache.records /\ cache'.version = cache.version
    BY <1>1, Zenon DEF NotModified, MarkSynced, CacheT
  <1>3. CacheOK'
    BY <1>2, CacheTouched, Zenon DEF NotModified
  <1> QED BY <1>3, NoPollOK, Zenon DEF NotModified

(* What a snapshot becomes when it is installed. *)
LEMMA SnapshotRecords ==
  ASSUME cache \in CacheT, NEW list \in Lists
  PROVE  LET r == snapshotRecords(list)
         IN  r \in Lists /\ DOMAIN r = DOMAIN list /\ \A i \in DOMAIN list : r[i].status = list[i].status
  <1> DEFINE r == snapshotRecords(list)
             e(i) == IF cache.present /\ i \in DOMAIN cache.records
                       THEN [list[i] EXCEPT !.consumed = cache.records[i].consumed,
                                            !.reserved = ~cache.records[i].consumed /\ cache.records[i].reserved]
                       ELSE list[i]
  <1>1. list \in [DOMAIN list -> Entry] /\ DOMAIN list \in SUBSET Nat
    BY ListFacts, Zenon
  <1>2. cache.records \in Lists
    BY Zenon DEF CacheT
  <1>3. \A i \in DOMAIN cache.records : cache.records[i] \in Entry
    BY <1>2, ListFacts, Zenon
  <1>4. ASSUME NEW i \in DOMAIN list PROVE e(i) \in Entry /\ e(i).status = list[i].status
    <2>1. list[i] \in Entry
      BY <1>1, Zenon
    <2>2. CASE i \in DOMAIN cache.records
      <3>1. cache.records[i] \in Entry
        BY <1>3, <2>2, Zenon
      <3> QED BY <2>1, <3>1, Zenon DEF Entry
    <2>3. CASE i \notin DOMAIN cache.records
      BY <2>1, <2>3, Zenon
    <2> QED BY <2>2, <2>3, Zenon
  <1>5. r = [i \in DOMAIN list |-> e(i)]
    BY Zenon DEF snapshotRecords
  <1> HIDE DEF e, r
  <1>6. r \in [DOMAIN list -> Entry] /\ DOMAIN r = DOMAIN list /\ \A i \in DOMAIN list : r[i] = e(i)
    BY <1>4, <1>5, Zenon
  <1>7. r \in Lists
    BY <1>1, <1>6, ListFacts, Zenon
  <1> QED BY <1>4, <1>6, <1>7, Zenon DEF r

LEMMA InstallGood ==
  ASSUME SyncInv, UNCHANGED brokerVars, NEW list \in Lists, NEW v \in Nat, GoodNext(list, v),
         cache' = Replace(list, v) \/ cache' = ReplaceForPrincipal(list, v)
  PROVE  CacheOK'
  <1> DEFINE r == snapshotRecords(list)
  <1>1. cache \in CacheT
    BY Zenon DEF SyncInv, CacheOK
  <1>2. r \in Lists /\ DOMAIN r = DOMAIN list /\ \A i \in DOMAIN list : r[i].status = list[i].status
    BY <1>1, SnapshotRecords, Zenon
  <1>3. GoodNext(r, v)
    <2> HIDE DEF r
    <2> QED BY <1>2, Zenon DEF GoodNext
  <1>4. CASE cache' = cache
    BY <1>4, CacheKept, Zenon
  <1>5. CASE cache' # cache
    <2>1. \/ cache' = [cache EXCEPT !.present = DOMAIN list # {}, !.records = r, !.version = v, !.etag = v, !.fresh = TRUE]
          \/ cache' = [cache EXCEPT !.present = DOMAIN list # {}, !.records = r, !.version = v, !.fresh = TRUE]
      BY <1>5, Zenon DEF Replace, ReplaceForPrincipal
    <2> HIDE DEF r
    <2>2. cache' \in CacheT /\ cache'.records = r /\ cache'.version = v
      BY <1>1, <1>2, <2>1, Zenon DEF CacheT
    <2> QED BY <1>3, <2>2, Zenon DEF CacheOK, Good, GoodNext, Withdrawn
  <1> QED BY <1>4, <1>5, Zenon

LEMMA PollInstallsOK ==
  ASSUME SyncInv, PollInstalls
  PROVE  SyncInv'
  <1>1. TableOK /\ Moves
    BY SameTable, Zenon DEF SyncInv, brokerVars, PollInstalls
  <1>2. poll.list \in Lists /\ poll.version \in Nat /\ Answer(poll)
    BY Zenon DEF SyncInv, PollOK, PollT
  <1>3. GoodNext(poll.list, poll.version)
    BY <1>1, <1>2, AnswerFrame, Zenon
  <1>4. CacheOK'
    BY <1>2, <1>3, InstallGood, Zenon DEF PollInstalls
  <1> QED BY <1>4, NoPollOK, Zenon DEF PollInstalls

(* ---------------------------- gated calls ------------------------------ *)

(* The call me goes on to q. *)
LEMMA CallStep ==
  ASSUME SyncInv, Moves, NEW me \in Calls, NEW q \in CallT, call' = [call EXCEPT ![me] = q],
         GoodNext(q.list, q.version), q.pc = "version" => DOMAIN q.list = {},
         q.pc \in Consuming => q.record \in DOMAIN table',
         q.pc = "confirm" => table'[q.record].consumed
  PROVE  CallsOK'
  <1>1. TableOK /\ CallsOK /\ call \in [Calls -> CallT]
    BY Zenon DEF SyncInv, CallsOK
  <1>2. call' \in [Calls -> CallT] /\ call'[me] = q /\ \A c \in Calls \ {me} : call'[c] = call[c]
    BY <1>1, Zenon
  <1>3. CallOK(me)'
    BY <1>2, Zenon DEF CallOK, Answer, Good, GoodNext, Withdrawn
  <1>4. ASSUME NEW c \in Calls \ {me} PROVE CallOK(c)'
    <2>1. call[c] \in CallT /\ CallOK(c)
      BY <1>1, Zenon DEF CallsOK
    <2> QED BY <1>1, <1>2, <2>1, CallFrame, Zenon
  <1> QED BY <1>2, <1>3, <1>4, Zenon DEF CallsOK

(* The call me goes on to q, which has read nothing. *)
LEMMA QuietCall ==
  ASSUME SyncInv, UNCHANGED <<brokerVars, poll, used>>, CacheOK',
         NEW me \in Calls, NEW q \in CallT, call' = [call EXCEPT ![me] = q],
         q.list = <<>>, q.version = 0, q.pc \in Consuming => q.record \in DOMAIN table, q.pc # "confirm"
  PROVE  SyncInv'
  <1>1. TableOK /\ Moves /\ table' = table /\ 0 \in Nat /\ 0 <= version
    BY SameTable DEF SyncInv, brokerVars, TableOK
  <1>2. GoodNext(q.list, q.version)
    BY <1>1, NoList, NothingIsGood, Zenon
  <1>3. CallsOK'
    BY <1>1, <1>2, NoList, CallStep, Zenon
  <1>4. PollOK'
    <2>1. poll \in PollT
      BY Zenon DEF SyncInv, PollOK
    <2> QED BY <2>1, PollKept, Zenon DEF brokerVars
  <1>5. WakeOK'
    BY Zenon DEF SyncInv, WakeOK, NoLostWakeup, brokerVars
  <1> QED BY <1>1, <1>3, <1>4, <1>5, UsedFrame, Zenon DEF SyncInv, Moves

LEMMA NoCallOK ==
  ASSUME SyncInv, UNCHANGED <<brokerVars, poll, used>>, CacheOK', NEW me \in Calls, call' = [call EXCEPT ![me] = NoCall]
  PROVE  SyncInv'
  <1>1. NoCall.pc \notin Consuming /\ NoCall.pc # "confirm"
    BY NoCallFacts, Zenon DEF Consuming
  <1> QED BY <1>1, NoCallFacts, QuietCall, Zenon

(* One record of a cache gets other flags. *)
LEMMA SetRecord ==
  ASSUME NEW c \in CacheT, NEW i \in DOMAIN c.records, NEW e \in Entry, e.status = c.records[i].status,
         NEW d, d = [c EXCEPT !.records = [c.records EXCEPT ![i] = e]]
  PROVE  /\ d \in CacheT /\ d.version = c.version /\ DOMAIN d.records = DOMAIN c.records
         /\ \A j \in DOMAIN c.records : d.records[j].status = c.records[j].status
  <1> DEFINE r == [c.records EXCEPT ![i] = e]
  <1>1. c.records \in Lists
    BY Zenon DEF CacheT
  <1>2. c.records \in [DOMAIN c.records -> Entry] /\ DOMAIN c.records \in SUBSET Nat
    BY <1>1, ListFacts, Zenon
  <1>3. r \in [DOMAIN c.records -> Entry] /\ r[i] = e /\ \A j \in DOMAIN c.records \ {i} : r[j] = c.records[j]
    BY <1>2, Zenon
  <1>4. r \in Lists /\ DOMAIN r = DOMAIN c.records
    BY <1>2, <1>3, ListFacts, Zenon
  <1>5. \A j \in DOMAIN c.records : r[j].status = c.records[j].status
    BY <1>3, Zenon
  <1> HIDE DEF r
  <1>6. d \in CacheT /\ d.version = c.version /\ d.records = r
    BY <1>4, Zenon DEF CacheT, r
  <1> QED BY <1>4, <1>5, <1>6, Zenon

(* A cache that grants the same records is as good. *)
LEMMA SameGrants ==
  ASSUME SyncInv, UNCHANGED brokerVars, cache' \in CacheT, cache'.version = cache.version,
         DOMAIN cache'.records \subseteq DOMAIN cache.records,
         \A j \in DOMAIN cache'.records : cache'.records[j].status = cache.records[j].status
  PROVE  CacheOK'
  <1>1. TableOK /\ Moves /\ CacheOK
    BY SameTable, Zenon DEF SyncInv, brokerVars
  <1>2. cache.version \in Nat
    BY <1>1, Zenon DEF CacheOK, CacheT
  <1>3. GoodNext(cache.records, cache.version)
    BY <1>1, <1>2, StaysGood, Zenon DEF CacheOK
  <1>4. GoodNext(cache'.records, cache'.version)
    BY <1>3, Zenon DEF GoodNext
  <1> QED BY <1>4, Zenon DEF CacheOK, Good, GoodNext, Withdrawn

LEMMA EntryOf ==
  ASSUME NEW f \in Lists, NEW i \in DOMAIN f
  PROVE  f[i] \in Entry
  BY ListFacts, Zenon

(* A record of the cache is reserved, released or marked consumed. *)
LEMMA RecordFlags ==
  ASSUME SyncInv, UNCHANGED brokerVars, NEW c \in CacheT, c.records = cache.records, c.version = cache.version,
         NEW i \in DOMAIN c.records, NEW e \in Entry, e.status = c.records[i].status,
         cache' = [c EXCEPT !.records = [c.records EXCEPT ![i] = e]]
  PROVE  CacheOK'
  <1>1. /\ cache' \in CacheT /\ cache'.version = c.version /\ DOMAIN cache'.records = DOMAIN c.records
        /\ \A j \in DOMAIN c.records : cache'.records[j].status = c.records[j].status
    <2>1. PICK d, j, r : d = cache' /\ j = i /\ r = [c.records EXCEPT ![i] = e]
      BY Zenon
    <2>2. d = [c EXCEPT !.records = r] /\ r = [c.records EXCEPT ![j] = e] /\ j \in DOMAIN c.records
      BY <2>1, Zenon
    <2>3. d = [c EXCEPT !.records = [c.records EXCEPT ![j] = e]]
      BY <2>2, Zenon
    <2> QED BY <2>1, <2>2, <2>3, SetRecord, SMT
  <1>2. /\ cache'.version = cache.version /\ DOMAIN cache'.records \subseteq DOMAIN cache.records
        /\ \A j \in DOMAIN cache'.records : cache'.records[j].status = cache.records[j].status
    BY <1>1, Zenon
  <1> QED BY <1>1, <1>2, SameGrants, Zenon

LEMMA EnforceOK ==
  ASSUME SyncInv, UNCHANGED <<brokerVars, poll, used>>, NEW me \in Calls,
         NEW c \in CacheT, c.records = cache.records, c.version = cache.version,
         NEW miss \in CallT, miss.pc \notin Consuming, miss.list = <<>>, miss.version = 0,
         Enforce(c, me, miss)
  PROVE  SyncInv'
  <1>1. miss.pc # "confirm"
    BY Zenon DEF Consuming
  <1>2. CASE cache' = c /\ call' = [call EXCEPT ![me] = NoCall]
    BY <1>2, CacheTouched, NoCallOK, Zenon
  <1>3. CASE cache' = c /\ call' = [call EXCEPT ![me] = miss]
    BY <1>1, <1>3, CacheTouched, QuietCall, Zenon
  <1>4. ASSUME NEW i \in Candidates(c), cache' = [c EXCEPT !.records[i].reserved = TRUE],
               call' = [call EXCEPT ![me] = [NoCall EXCEPT !.pc = "consume", !.record = i]]
        PROVE  SyncInv'
    <2> DEFINE e == [c.records[i] EXCEPT !.reserved = TRUE]
               q == [NoCall EXCEPT !.pc = "consume", !.record = i]
    <2>1. i \in DOMAIN c.records
      BY Zenon DEF Candidates, Usable
    <2>2. c.records[i] \in Entry
      <3>1. c.records \in Lists
        BY Zenon DEF CacheT
      <3> QED BY <2>1, <3>1, EntryOf, Zenon
    <2>3. e \in Entry /\ e.status = c.records[i].status
      BY <2>2, Zenon DEF Entry
    <2>4. cache' = [c EXCEPT !.records = [c.records EXCEPT ![i] = e]]
      BY <1>4, Zenon
    <2> HIDE DEF e
    <2>5. CacheOK'
      BY <2>1, <2>3, <2>4, RecordFlags, Zenon
    <2>6. i \in DOMAIN table /\ i \in Nat
      <3>1. i \in DOMAIN table
        BY <2>1, Zenon DEF SyncInv, CacheOK, Good
      <3> QED BY <3>1, TableDomain, Zenon DEF SyncInv, TableOK
    <2>7. q \in CallT /\ q.pc = "consume" /\ q.record = i /\ q.list = <<>> /\ q.version = 0
      BY <2>6, NoList, Zenon DEF NoCall, CallT, CallSteps
    <2> HIDE DEF q
    <2>8. call' = [call EXCEPT ![me] = q] /\ q.pc # "confirm"
      BY <1>4, <2>7, Zenon DEF q
    <2> QED BY <2>5, <2>6, <2>7, <2>8, QuietCall, Zenon
  <1> QED BY <1>2, <1>3, <1>4, Zenon DEF Enforce

LEMMA EvaluateOK ==
  ASSUME SyncInv, NEW me \in Calls, Evaluate(me)
  PROVE  SyncInv'
  <1> DEFINE c == [cache EXCEPT !.session = TRUE]
             miss == [NoCall EXCEPT !.pc = "version", !.session = TRUE]
  <1>1. c \in CacheT /\ c.records = cache.records /\ c.version = cache.version
    BY Zenon DEF SyncInv, CacheOK, CacheT
  <1>2. miss \in CallT /\ miss.pc \notin Consuming /\ miss.list = <<>> /\ miss.version = 0
    BY NoList, Zenon DEF NoCall, CallT, CallSteps, Consuming
  <1>3. Enforce(c, me, miss)
    BY Zenon DEF Evaluate
  <1> HIDE DEF c, miss
  <1> QED BY <1>1, <1>2, <1>3, EnforceOK, Zenon DEF Evaluate

LEMMA GateRematchesOK ==
  ASSUME SyncInv, NEW me \in Calls, GateRematches(me)
  PROVE  SyncInv'
  <1> DEFINE miss == [NoCall EXCEPT !.pc = "create"]
  <1>1. cache \in CacheT
    BY Zenon DEF SyncInv, CacheOK
  <1>2. miss \in CallT /\ miss.pc \notin Consuming /\ miss.list = <<>> /\ miss.version = 0
    BY NoList, Zenon DEF NoCall, CallT, CallSteps, Consuming
  <1>3. Enforce(cache, me, miss)
    BY Zenon DEF GateRematches
  <1> HIDE DEF miss
  <1> QED BY <1>1, <1>2, <1>3, EnforceOK, Zenon DEF GateRematches

LEMMA GateReadsOK ==
  ASSUME SyncInv, NEW me \in Calls, GateReads(me)
  PROVE  SyncInv'
  <1> DEFINE o == call[me]
             q == GetSyncState(o)
  <1>1. TableOK /\ Moves /\ UNCHANGED <<table, version, changed>> /\ UsedOK
    BY SameTable, Zenon DEF SyncInv, brokerVars, GateReads
  <1>2. o \in CallT /\ Answer(o)
    BY Zenon DEF SyncInv, CallsOK, CallOK
  <1>3. version \in Nat /\ o.version \in Nat /\ o.version <= version /\ o.pc \in {"version", "list"}
    BY <1>1, <1>2, Zenon DEF TableOK, GateReads, Reading, Answer, Good, CallT
  <1>4. q \in CallT /\ q.pc \in {"list", "install"} /\ GoodNext(q.list, q.version)
    <2>1. CASE o.pc = "version"
      <3>1. q = [o EXCEPT !.pc = "list", !.version = version]
        BY <2>1, Zenon DEF GetSyncState
      <3> HIDE DEF q, o
      <3>2. q \in CallT /\ q.pc = "list" /\ q.list = o.list /\ q.version = version
        BY <1>2, <1>3, <3>1, Zenon DEF CallT, CallSteps
      <3>3. DOMAIN o.list = {} /\ version <= version
        BY <1>2, <1>3, <2>1 DEF Answer
      <3>4. GoodNext(o.list, version)
        BY <1>1, <1>3, <3>3, NothingIsGood, Zenon
      <3> QED BY <3>2, <3>4, Zenon
    <2>2. CASE o.pc = "list"
      <3>1. q = [o EXCEPT !.pc = "install", !.list = Snapshot(o.session)]
        BY <2>2, Zenon DEF GetSyncState
      <3> HIDE DEF q, o
      <3>2. Snapshot(o.session) \in Lists /\ GoodNext(Snapshot(o.session), o.version)
        BY <1>1, <1>3, SnapshotGood, Zenon
      <3>3. q \in CallT /\ q.pc = "install" /\ q.list = Snapshot(o.session) /\ q.version = o.version
        BY <1>2, <3>1, <3>2, Zenon DEF CallT, CallSteps
      <3> QED BY <3>2, <3>3, Zenon
    <2> QED BY <1>3, <2>1, <2>2, Zenon
  <1>5. call' = [call EXCEPT ![me] = q]
    BY Zenon DEF GateReads
  <1> HIDE DEF q
  <1>6. q.pc # "version" /\ q.pc \notin Consuming /\ q.pc # "confirm"
    BY <1>4, Zenon DEF Consuming
  <1>7. CallsOK'
    BY <1>1, <1>4, <1>5, <1>6, CallStep, Zenon
  <1>8. PollOK'
    <2>1. poll \in PollT
      BY Zenon DEF SyncInv, PollOK
    <2> QED BY <2>1, PollKept, Zenon DEF brokerVars, GateReads
  <1>9. WakeOK'
    BY Zenon DEF SyncInv, WakeOK, NoLostWakeup, brokerVars, GateReads
  <1>10. CacheOK'
    BY CacheKept, Zenon DEF GateReads
  <1> QED BY <1>1, <1>7, <1>8, <1>9, <1>10, UsedFrame, Zenon DEF SyncInv, Moves, GateReads

LEMMA GateReadFailsOK ==
  ASSUME SyncInv, NEW me \in Calls, GateReadFails(me)
  PROVE  SyncInv'
  BY CacheKept, NoCallOK, Zenon DEF GateReadFails

LEMMA GateCreateFailsOK ==
  ASSUME SyncInv, NEW me \in Calls, GateCreateFails(me)
  PROVE  SyncInv'
  BY CacheKept, NoCallOK, Zenon DEF GateCreateFails

LEMMA GateInstallsOK ==
  ASSUME SyncInv, NEW me \in Calls, GateInstalls(me)
  PROVE  SyncInv'
  <1>1. TableOK /\ Moves
    BY SameTable, Zenon DEF SyncInv, brokerVars, GateInstalls
  <1>2. call[me] \in CallT /\ Answer(call[me])
    BY Zenon DEF SyncInv, CallsOK, CallOK
  <1>3. call[me].list \in Lists /\ call[me].version \in Nat
    BY <1>2, Zenon DEF CallT
  <1>4. GoodNext(call[me].list, call[me].version)
    BY <1>1, <1>2, <1>3, AnswerFrame, Zenon
  <1>5. CASE cache' = cache /\ call' = [call EXCEPT ![me] = NoCall]
    BY <1>5, CacheKept, NoCallOK, Zenon DEF GateInstalls
  <1>6. CASE /\ cache' = ReplaceForPrincipal(call[me].list, call[me].version)
             /\ call' = [call EXCEPT ![me] = [NoCall EXCEPT !.pc = "rematch"]]
    <2> DEFINE q == [NoCall EXCEPT !.pc = "rematch"]
    <2>1. CacheOK'
      BY <1>3, <1>4, <1>6, InstallGood, Zenon DEF GateInstalls
    <2>2. q \in CallT /\ q.list = <<>> /\ q.version = 0 /\ q.pc \notin Consuming /\ q.pc # "confirm"
      BY NoList, Zenon DEF NoCall, CallT, CallSteps, Consuming
    <2>3. call' = [call EXCEPT ![me] = q]
      BY <1>6, Zenon
    <2> HIDE DEF q
    <2> QED BY <2>1, <2>2, <2>3, QuietCall, Zenon DEF GateInstalls
  <1> QED BY <1>5, <1>6, Zenon DEF GateInstalls

(* A commit leaves the poll, the cache and the uses as they should be. *)
LEMMA CommitKeeps ==
  ASSUME SyncInv, NEW b, NEW rows, NEW i, RowChanged(rows, i), Commit(b, rows, i), UNCHANGED <<cache, used>>
  PROVE  Moves /\ TableOK' /\ WakeOK' /\ PollOK' /\ CacheOK' /\ UsedOK'
  <1>1. TableOK /\ Moves
    BY CommitMoves, Zenon DEF SyncInv
  <1>2. WakeOK' /\ poll' \in PollT /\ poll'.pc = poll.pc /\ poll'.list = poll.list /\ poll'.version = poll.version
    BY CommitWakes, Zenon DEF SyncInv
  <1>3. PollOK'
    BY <1>1, <1>2, PollFrame, Zenon DEF SyncInv
  <1> QED BY <1>1, <1>2, <1>3, CacheFrame, UsedFrame, Zenon DEF SyncInv, Moves

LEMMA CommitRowOK ==
  ASSUME SyncInv, NEW b, NEW i \in DOMAIN table, NEW result, CommitRow(b, i, result),
         result.row \in RowT, table[i].consumed => result.row.consumed
  PROVE  SyncInv'
  <1>1. RowChanged([table EXCEPT ![i] = result.row], i)
    BY RowUpdate, Zenon DEF SyncInv
  <1>2. Moves /\ TableOK' /\ WakeOK' /\ PollOK' /\ CacheOK' /\ UsedOK'
    BY <1>1, CommitKeeps, Zenon DEF CommitRow
  <1>3. CallsOK'
    BY <1>2, CallsFrame, Zenon DEF SyncInv, CommitRow
  <1> QED BY <1>2, <1>3, Zenon DEF SyncInv

LEMMA UserOK ==
  ASSUME SyncInv, NEW b, NEW i \in DOMAIN table, NEW p \in Kinds,
         UserApproves(b, i, p) \/ UserDenies(b, i, p) \/ UserRevokes(b, i)
  PROVE  SyncInv'
  <1>1. table[i] \in RowT
    BY TableDomain, Zenon DEF SyncInv, TableOK
  <1> USE <1>1, OperationOK, CommitRowOK
  <1>2. CASE UserApproves(b, i, p)
    BY <1>2, Zenon DEF UserApproves, CommitRow
  <1>3. CASE UserDenies(b, i, p)
    BY <1>3, Zenon DEF UserDenies, CommitRow
  <1>4. CASE UserRevokes(b, i)
    BY <1>4, Zenon DEF UserRevokes, CommitRow
  <1> QED BY <1>2, <1>3, <1>4, Zenon

(* A commit by a call that then goes on to q with nothing read. *)
LEMMA CommitCall ==
  ASSUME SyncInv, NEW b, NEW rows, NEW i, RowChanged(rows, i), Commit(b, rows, i), UNCHANGED <<cache, used>>,
         NEW me \in Calls, NEW q \in CallT, call' = [call EXCEPT ![me] = q],
         GoodNext(q.list, q.version), q.pc # "version",
         q.pc \in Consuming => q.record \in DOMAIN table',
         q.pc = "confirm" => table'[q.record].consumed
  PROVE  SyncInv'
  <1>1. Moves /\ TableOK' /\ WakeOK' /\ PollOK' /\ CacheOK' /\ UsedOK'
    BY CommitKeeps, Zenon
  <1>2. CallsOK'
    BY <1>1, CallStep, Zenon
  <1> QED BY <1>1, <1>2, Zenon DEF SyncInv

LEMMA GateCreatesOK ==
  ASSUME SyncInv, NEW me \in Calls, NEW b, GateCreates(me, b)
  PROVE  SyncInv'
  <1>1. PICK rows, i : rows = Create(table, "tool").table /\ i = Create(table, "tool").id
    BY Zenon
  <1>2. CASE i \in DOMAIN table
    BY <1>1, <1>2, CacheKept, NoCallOK, Zenon DEF GateCreates
  <1>3. CASE i \notin DOMAIN table
    <2>1. Commit(b, rows, i)
      BY <1>1, <1>3, Zenon DEF GateCreates
    <2>2. TableOK /\ RowChanged(rows, i)
      BY <1>1, <1>3, CreateOK, Zenon DEF SyncInv
    <2>3. Moves /\ 0 \in Nat /\ 0 <= version
      BY <2>1, <2>2, CommitMoves DEF TableOK
    <2>4. GoodNext(NoCall.list, NoCall.version)
      BY <2>2, <2>3, NoCallFacts, NoList, NothingIsGood, Zenon
    <2>5. NoCall.pc # "version" /\ NoCall.pc \notin Consuming /\ NoCall.pc # "confirm"
      BY NoCallFacts, Zenon DEF Consuming
    <2> QED BY <2>1, <2>2, <2>4, <2>5, NoCallFacts, CommitCall, Zenon DEF GateCreates
  <1> QED BY <1>2, <1>3, Zenon

(* A consuming call takes its next step; its record is unchanged. *)
LEMMA CallMoves ==
  ASSUME SyncInv, NEW me \in Calls, call[me].pc = "consume", NEW s \in {"release", "confirm"}
  PROVE  LET q == [call[me] EXCEPT !.pc = s]
         IN  /\ q \in CallT /\ q.pc = s /\ q.pc # "version" /\ q.record = call[me].record /\ q.record \in DOMAIN table
             /\ q.list = call[me].list /\ q.version = call[me].version /\ Good(q.list, q.version) /\ q.version \in Nat
  <1>1. call[me] \in CallT /\ CallOK(me)
    BY Zenon DEF SyncInv, CallsOK
  <1>2. call[me].record \in DOMAIN table /\ Good(call[me].list, call[me].version)
    BY <1>1, Zenon DEF CallOK, Consuming, Answer
  <1> QED BY <1>1, <1>2, Zenon DEF CallT, CallSteps

(* A call that moves on while the table keeps still. *)
LEMMA StillCall ==
  ASSUME SyncInv, UNCHANGED <<brokerVars, poll, cache, used>>,
         NEW me \in Calls, NEW q \in CallT, call' = [call EXCEPT ![me] = q],
         Good(q.list, q.version), q.version \in Nat, q.pc # "version",
         q.record \in DOMAIN table, q.pc = "confirm" => table[q.record].consumed
  PROVE  SyncInv'
  <1>1. TableOK /\ Moves /\ UNCHANGED <<table, version, changed, cache, used>>
    BY SameTable, Zenon DEF SyncInv, brokerVars
  <1>2. GoodNext(q.list, q.version)
    BY <1>1, StaysGood, Zenon
  <1>3. CallsOK'
    BY <1>1, <1>2, CallStep, Zenon
  <1>4. PollOK'
    <2>1. poll \in PollT
      BY Zenon DEF SyncInv, PollOK
    <2> QED BY <2>1, PollKept, Zenon DEF brokerVars
  <1>5. WakeOK'
    BY Zenon DEF SyncInv, WakeOK, NoLostWakeup, brokerVars
  <1> QED BY <1>1, <1>3, <1>4, <1>5, CacheFrame, UsedFrame, Zenon DEF SyncInv, Moves

LEMMA GateConsumesOK ==
  ASSUME SyncInv, NEW me \in Calls, NEW b, GateConsumes(me, b)
  PROVE  SyncInv'
  <1>1. PICK i, result : i = call[me].record /\ result = ConsumeApproval(i)
    BY Zenon
  <1>2. call[me].pc = "consume" /\ TableOK /\ call \in [Calls -> CallT]
    BY Zenon DEF GateConsumes, SyncInv, CallsOK
  <1>3. PICK s \in {"release", "confirm"} :
          /\ call' = [call EXCEPT ![me] = [call[me] EXCEPT !.pc = s]]
          /\ s = "confirm" => result.err # "notFound"
    <2>1. \/ call' = [call EXCEPT ![me] = [call[me] EXCEPT !.pc = IF result.err = "notFound" THEN "release" ELSE "confirm"]]
          \/ call' = [call EXCEPT ![me] = [call[me] EXCEPT !.pc = "release"]]
      BY <1>1, Zenon DEF GateConsumes, ConsumeError
    <2>2. "release" # "confirm"
      BY Zenon
    <2> QED BY <2>1, <2>2, Zenon
  <1>4. PICK q : q = [call[me] EXCEPT !.pc = s]
    BY Zenon
  <1>5. /\ q \in CallT /\ q.pc = s /\ q.pc # "version" /\ q.record = i /\ i \in DOMAIN table
        /\ Good(q.list, q.version) /\ q.version \in Nat
    BY <1>1, <1>2, <1>4, CallMoves, Zenon
  <1>6. call' = [call EXCEPT ![me] = q] /\ UNCHANGED <<cache, used>>
    BY <1>3, <1>4, Zenon DEF GateConsumes
  <1>7. table[i] \in RowT
    BY <1>2, <1>5, TableDomain, Zenon DEF TableOK
  <1>8. CASE result.err = "ok" /\ Commit(b, [table EXCEPT ![i] = result.row], i)
    <2>1. result = Consume(table[i]) /\ result.row \in RowT /\ result.row.consumed
      <3>1. result = Consume(table[i])
        BY <1>1, <1>8, Zenon DEF ConsumeApproval, Result
      <3>2. "once" \in Kinds
        BY Zenon DEF Kinds, Persistences
      <3> QED BY <1>7, <1>8, <3>1, <3>2, OperationOK, Zenon
    <2>2. PICK rows : rows = [table EXCEPT ![i] = result.row]
      BY Zenon
    <2>3. RowChanged(rows, i) /\ Commit(b, rows, i)
      BY <1>2, <1>5, <1>8, <2>1, <2>2, RowUpdate, Zenon
    <2>4. Moves /\ table' = rows /\ i \in DOMAIN rows /\ rows[i].consumed
      <3>1. Moves /\ table' = rows
        BY <1>2, <2>3, CommitMoves, Zenon DEF Commit
      <3> QED BY <1>5, <2>1, <2>2, <3>1, Zenon
    <2>5. GoodNext(q.list, q.version)
      BY <1>2, <1>5, <2>4, StaysGood, Zenon
    <2> QED BY <1>5, <1>6, <2>3, <2>4, <2>5, CommitCall, Zenon
  <1>9. CASE result.err # "ok" /\ UNCHANGED <<brokerVars, poll>>
    <2>1. s = "confirm" => table[i].consumed
      BY <1>1, <1>3, <1>9, Zenon DEF ConsumeApproval, Consume, Result
    <2> QED BY <1>5, <1>6, <1>9, <2>1, StillCall, Zenon
  <1> QED BY <1>1, <1>8, <1>9, Zenon DEF GateConsumes

LEMMA ConsumeFailsOK ==
  ASSUME SyncInv, NEW me \in Calls, ConsumeFails(me)
  PROVE  SyncInv'
  <1>1. PICK q : q = [call[me] EXCEPT !.pc = "release"]
    BY Zenon
  <1>2. "release" \in {"release", "confirm"} /\ "release" # "confirm" /\ call[me].pc = "consume"
    BY Zenon DEF ConsumeFails
  <1>3. /\ q \in CallT /\ q.pc # "confirm" /\ q.pc # "version" /\ q.record \in DOMAIN table
        /\ Good(q.list, q.version) /\ q.version \in Nat
    BY <1>1, <1>2, CallMoves, Zenon
  <1>4. call' = [call EXCEPT ![me] = q]
    BY <1>1, Zenon DEF ConsumeFails, ConsumeError
  <1> QED BY <1>3, <1>4, StillCall, Zenon DEF ConsumeFails

LEMMA ReservationOK ==
  ASSUME SyncInv, UNCHANGED brokerVars, NEW i, NEW done \in BOOLEAN, cache' = setReservation(i, done)
  PROVE  CacheOK'
  <1>1. cache \in CacheT
    BY Zenon DEF SyncInv, CacheOK
  <1>2. CASE cache' = cache
    BY <1>2, CacheKept, Zenon
  <1>3. CASE cache' # cache
    <2> DEFINE o == cache.records[i]
    <2>1. i \in DOMAIN cache.records
      BY <1>3, Zenon DEF setReservation
    <2>2. cache.records \in Lists
      BY <1>1, Zenon DEF CacheT
    <2>3. o \in Entry
      BY <2>1, <2>2, EntryOf, Zenon
    <2>4. PICK e : e = settled(o, done)
      BY Zenon
    <2>5. e \in Entry /\ e.status = o.status
      BY <2>3, <2>4, Zenon DEF Entry, settled
    <2>6. cache' = [cache EXCEPT !.records = [cache.records EXCEPT ![i] = e]]
      <3>1. cache' = [cache EXCEPT !.records[i] = settled(@, done)]
        BY <1>3, Zenon DEF setReservation
      <3> QED BY <2>4, <3>1, Zenon
    <2> QED BY <1>1, <2>1, <2>5, <2>6, RecordFlags, Zenon
  <1> QED BY <1>2, <1>3, Zenon

LEMMA ReleaseOK ==
  ASSUME SyncInv, NEW me \in Calls, Release(me)
  PROVE  SyncInv'
  <1>1. CacheOK'
    BY ReservationOK, Zenon DEF Release
  <1> QED BY <1>1, NoCallOK, Zenon DEF Release

LEMMA ConfirmConsumedOK ==
  ASSUME SyncInv, NEW me \in Calls, ConfirmConsumed(me)
  PROVE  SyncInv'
  <1>1. CacheOK'
    BY ReservationOK, Zenon DEF ConfirmConsumed
  <1>2. call[me].record \in DOMAIN table /\ table[call[me].record].consumed
    BY Zenon DEF SyncInv, CallsOK, CallOK, Consuming, ConfirmConsumed
  <1>3. UsedOK'
    BY <1>2, Zenon DEF SyncInv, UsedOK, ConfirmConsumed, brokerVars
  <1>4. TableOK /\ Moves /\ 0 \in Nat /\ 0 <= version
    BY SameTable DEF SyncInv, TableOK, brokerVars, ConfirmConsumed
  <1>5. GoodNext(NoCall.list, NoCall.version)
    BY <1>4, NoCallFacts, NoList, NothingIsGood, Zenon
  <1>6. NoCall.pc # "version" /\ NoCall.pc \notin Consuming /\ NoCall.pc # "confirm"
    BY NoCallFacts, Zenon DEF Consuming
  <1>7. CallsOK'
    BY <1>4, <1>5, <1>6, NoCallFacts, CallStep, Zenon DEF ConfirmConsumed
  <1>8. PollOK'
    <2>1. poll \in PollT
      BY Zenon DEF SyncInv, PollOK
    <2> QED BY <2>1, PollKept, Zenon DEF brokerVars, ConfirmConsumed
  <1>9. WakeOK'
    BY Zenon DEF SyncInv, WakeOK, NoLostWakeup, brokerVars, ConfirmConsumed
  <1> QED BY <1>1, <1>3, <1>4, <1>7, <1>8, <1>9, Zenon DEF SyncInv, Moves

(* ------------------------- time and eviction --------------------------- *)

(* Only the cache changes. *)
LEMMA CacheStep ==
  ASSUME SyncInv, UNCHANGED <<brokerVars, poll, call, used>>, CacheOK'
  PROVE  SyncInv'
  <1>1. poll \in PollT
    BY Zenon DEF SyncInv, PollOK
  <1>2. PollOK'
    BY <1>1, PollKept, Zenon DEF brokerVars
  <1>3. WakeOK'
    BY Zenon DEF SyncInv, WakeOK, NoLostWakeup, brokerVars
  <1> QED BY <1>2, <1>3, PollStep, Zenon

LEMMA GoStaleOK ==
  ASSUME SyncInv, GoStale
  PROVE  SyncInv'
  <1>1. cache' \in CacheT /\ cache'.records = cache.records /\ cache'.version = cache.version
    BY Zenon DEF SyncInv, CacheOK, GoStale, CacheT
  <1>2. CacheOK'
    BY <1>1, CacheTouched, Zenon DEF GoStale
  <1> QED BY <1>2, CacheStep, Zenon DEF GoStale

LEMMA evictIdleOK ==
  ASSUME SyncInv, evictIdle
  PROVE  SyncInv'
  <1> DEFINE kept == {j \in DOMAIN cache.records : cache.records[j].persistence # "session"}
             r == [i \in kept |-> cache.records[i]]
  <1>1. cache \in CacheT
    BY Zenon DEF SyncInv, CacheOK
  <1>2. cache.records \in Lists
    BY <1>1, Zenon DEF CacheT
  <1>3. /\ r \in Lists /\ DOMAIN r \subseteq DOMAIN cache.records
        /\ \A j \in DOMAIN r : r[j].status = cache.records[j].status
    <2>1. cache.records \in [DOMAIN cache.records -> Entry] /\ DOMAIN cache.records \in SUBSET Nat
      BY <1>2, ListFacts, Zenon
    <2>2. kept \in SUBSET Nat /\ kept \subseteq DOMAIN cache.records
      BY <2>1, Zenon
    <2> HIDE DEF kept
    <2>3. r \in [kept -> Entry] /\ DOMAIN r = kept /\ \A j \in kept : r[j] = cache.records[j]
      BY <2>1, <2>2, Zenon
    <2> HIDE DEF r
    <2>4. r \in Lists
      BY <2>2, <2>3, ListFacts, Zenon
    <2> QED BY <2>2, <2>3, <2>4, Zenon
  <1>4. CASE cache' = [cache EXCEPT !.present = FALSE, !.records = <<>>]
    <2>1. cache' \in CacheT /\ cache'.version = cache.version /\ cache'.records = <<>>
      BY <1>1, <1>4, NoList, Zenon DEF CacheT
    <2>2. CacheOK'
      BY <2>1, NoList, SameGrants, Zenon DEF evictIdle
    <2> QED BY <2>2, CacheStep, Zenon DEF evictIdle
  <1>5. CASE cache' = [cache EXCEPT !.session = FALSE, !.records = r]
    <2> HIDE DEF r
    <2>1. cache' \in CacheT /\ cache'.version = cache.version /\ cache'.records = r
      BY <1>1, <1>3, <1>5, Zenon DEF CacheT
    <2>2. CacheOK'
      BY <1>3, <2>1, SameGrants, Zenon DEF evictIdle
    <2> QED BY <2>2, CacheStep, Zenon DEF evictIdle
  <1> QED BY <1>4, <1>5, Zenon DEF evictIdle

(* ----------------------------- theorems -------------------------------- *)

LEMMA SyncInitOK ==
  ASSUME SyncInit
  PROVE  SyncInv
  <1>1. TableOK
    BY DEF SyncInit, TableOK
  <1>2. WakeOK
    BY NoPollFacts, Zenon DEF SyncInit, WakeOK, NoLostWakeup
  <1>3. Good(<<>>, 0)
    BY NoList DEF SyncInit, Good
  <1>4. PollOK
    BY <1>3, NoList, NoPollFacts, Zenon DEF SyncInit, PollOK, Answer
  <1>5. EmptyCache \in CacheT /\ EmptyCache.records = <<>> /\ EmptyCache.version = 0
    BY NoList, Zenon DEF EmptyCache, CacheT
  <1>6. CacheOK
    BY <1>3, <1>5, Zenon DEF SyncInit, CacheOK
  <1>7. CallsOK
    <2>1. call = [c \in Calls |-> NoCall]
      BY Zenon DEF SyncInit
    <2>2. call \in [Calls -> CallT] /\ \A c \in Calls : call[c] = NoCall
      BY <2>1, NoCallFacts, Zenon
    <2>3. NoCall.pc \notin Consuming /\ NoCall.pc # "confirm"
      BY NoCallFacts, Zenon DEF Consuming
    <2> QED BY <1>3, <2>2, <2>3, NoList, NoCallFacts, Zenon DEF CallsOK, CallOK, Answer
  <1>8. UsedOK
    BY Zenon DEF SyncInit, UsedOK
  <1> QED BY <1>1, <1>2, <1>4, <1>6, <1>7, <1>8, Zenon DEF SyncInv

LEMMA SyncNextOK ==
  ASSUME SyncInv, [SyncNext]_syncVars
  PROVE  SyncInv'
  <1>1. CASE \E b \in Sites, i \in DOMAIN table :
               \/ \E p \in Persistences : UserApproves(b, i, p)
               \/ \E p \in {"none", "permanent"} : UserDenies(b, i, p)
               \/ UserRevokes(b, i)
    <2>1. Persistences \subseteq Kinds /\ {"none", "permanent"} \subseteq Kinds /\ "none" \in Kinds
      BY Zenon DEF Kinds, Persistences
    <2> QED BY <1>1, <2>1, UserOK, Zenon
  <1>2. CASE Wakeups
    BY <1>2, BroadcastOK, notifyAllOK, Zenon DEF Wakeups, Sources
  <1>3. CASE SyncPolls
    BY <1>3, StartPollOK, PreparePollOK, WakeActionOK, PollReadsOK, NotModifiedOK, PollInstallsOK, Zenon DEF SyncPolls
  <1>4. CASE \E b \in Brokers : ListenLost(b) \/ listenOnce(b) \/ BrokerRestarts(b)
    BY <1>4, ListenLostOK, listenOnceOK, BrokerRestartsOK, Zenon
  <1>5. CASE \E c \in Calls :
               \/ Evaluate(c) \/ GateReads(c) \/ GateReadFails(c) \/ GateInstalls(c)
               \/ GateRematches(c) \/ GateCreateFails(c)
               \/ \E b \in Sites : GateCreates(c, b) \/ GateConsumes(c, b)
               \/ ConsumeFails(c) \/ Release(c) \/ ConfirmConsumed(c)
    BY <1>5, EvaluateOK, GateReadsOK, GateReadFailsOK, GateInstallsOK, GateRematchesOK, GateCreateFailsOK,
       GateCreatesOK, GateConsumesOK, ConsumeFailsOK, ReleaseOK, ConfirmConsumedOK, Zenon
  <1>6. CASE PollFails \/ GoStale \/ evictIdle
    BY <1>6, PollFailsOK, GoStaleOK, evictIdleOK, Zenon
  <1>7. CASE UNCHANGED syncVars
    BY <1>7, CacheKept, CacheStep, Zenon DEF syncVars
  <1> QED BY <1>1, <1>2, <1>3, <1>4, <1>5, <1>6, <1>7, Zenon DEF SyncNext

(* Every record list in flight or cached is Good for the version that goes  *)
(* with it, a waiting poll has a wake-up on its way or was out of reach of  *)
(* the change, and a call that is about to confirm a consumption holds a    *)
(* consumed row: internal/extproc/approval with the broker's sync handler.  *)
THEOREM SyncInvariant == SyncSpec => []SyncInv
  <1>1. SyncInit => SyncInv
    BY SyncInitOK, Zenon
  <1>2. SyncInv /\ [SyncNext]_syncVars => SyncInv'
    BY SyncNextOK, Zenon
  <1> QED BY <1>1, <1>2, PTL DEF SyncSpec

(* A long poll that waits while the version has moved on is woken, will be  *)
(* woken, or was subscribed at a replica whose LISTEN connection was down:  *)
(* the handler subscribes before it compares the version.                   *)
THEOREM WakeupsAreNotLost == SyncSpec => []NoLostWakeup
  <1>1. SyncInv => NoLostWakeup
    BY Zenon DEF SyncInv, WakeOK
  <1> QED BY <1>1, SyncInvariant, PTL

(* The cache grants an approval that was withdrawn only while the           *)
(* withdrawal is newer than the version the cache claims: GetSyncState      *)
(* reads the version before the rows.                                       *)
THEOREM CachedVersionsAreHonest == SyncSpec => []CacheVersionIsHonest
  <1>1. SyncInv => CacheVersionIsHonest
    BY Zenon DEF SyncInv, CacheOK, Good, CacheVersionIsHonest, Granting
  <1> QED BY <1>1, SyncInvariant, PTL

(* A once approval that let a call through is consumed in the broker,       *)
(* whatever answers were lost: Gate.Evaluate proceeds on a confirmed        *)
(* consumption only, and no commit takes a consumption back.                *)
THEOREM OnceUsesAreConsumed == SyncSpec => []UsesAreConsumed
  <1>1. SyncInv => UsesAreConsumed
    BY Zenon DEF SyncInv, UsedOK, UsesAreConsumed
  <1> QED BY <1>1, SyncInvariant, PTL
=============================================================================
