--------------------------- MODULE ApprovalStore ---------------------------
(***************************************************************************)
(* The tool-approval repositories.  A row is one human-in-the-loop prompt; *)
(* an operation maps the stored row (or table) to the one it leaves and to *)
(* the error it answers with.  PostgreSQL is the production store, the     *)
(* in-memory store serves development and the test suites; both implement  *)
(* ports.ToolApprovalRepository.                                           *)
(*                                                                         *)
(* `expired' stands for expires_at having passed: SQL compares it with     *)
(* NOW(), the memory store with time.Now().  Identifiers are positions in  *)
(* the table.  `tool' is the deduplication key within one (principal,      *)
(* agent) pair: tool_name and arguments_hash.                              *)
(***************************************************************************)
EXTENDS Naturals, Sequences, FiniteSets

Persistences == {"once", "session", "permanent"}

Result(row, err) == [row |-> row, err |-> err]

NewApproval(tool) ==
    [tool |-> tool, status |-> "pending", persistence |-> "none",
     consumed |-> FALSE, expired |-> FALSE]

Decide(row, status, persistence) ==
    [row EXCEPT !.status = status, !.persistence = persistence]

(* PostgreSQL: one UPDATE ... WHERE ... RETURNING per operation; no row     *)
(* returned is a NotFound error.                                           *)
Approve(row, persistence) ==
    IF row.status = "pending" /\ ~row.expired
      THEN Result(Decide(row, "approved", persistence), "ok")
      ELSE Result(row, "notFound")

Deny(row, persistence) ==
    IF row.status = "pending" /\ ~row.expired
      THEN Result(Decide(row, "denied", persistence), "ok")
      ELSE Result(row, "notFound")

Consume(row) ==
    IF row.status = "approved" /\ row.persistence = "once" /\ ~row.consumed
      THEN Result([row EXCEPT !.consumed = TRUE], "ok")
      ELSE Result(row, "notFound")

RevokePermanent(row) ==
    IF row.status \in {"approved", "denied"} /\ row.persistence = "permanent"
      THEN Result(Decide(row, "denied", "none"), "ok")
      ELSE Result(row, "notFound")

(* Create: retire the expired duplicate, INSERT ... ON CONFLICT DO NOTHING  *)
(* against the partial unique index, and return the existing row when the  *)
(* insert hit it.  One transaction.                                        *)
Open(row, tool) == row.tool = tool /\ row.status = "pending" /\ ~row.consumed

Retire(table, tool) ==
    [i \in DOMAIN table |->
        IF Open(table[i], tool) /\ table[i].expired
          THEN [table[i] EXCEPT !.consumed = TRUE] ELSE table[i]]

Create(table, tool) ==
    LET retired  == Retire(table, tool)
        existing == {i \in DOMAIN retired : Open(retired[i], tool)}
    IN  IF existing = {}
          THEN [table |-> Append(retired, NewApproval(tool)), id |-> Len(table) + 1]
          ELSE [table |-> retired, id |-> CHOOSE i \in existing : TRUE]

FindPendingByKey(table, tool) ==
    {i \in DOMAIN table : Open(table[i], tool) /\ ~table[i].expired}

CountPendingByPrincipalAndAgent(table) ==
    Cardinality({i \in DOMAIN table :
                    table[i].status = "pending" /\ ~table[i].expired})

(* The snapshot a sync answer carries: session approvals only for sessions *)
(* the caller named as active.                                             *)
ListAllActive(table, sessionActive) ==
    {i \in DOMAIN table :
        /\ ~table[i].consumed
        /\ table[i].status # "pending" \/ ~table[i].expired
        /\ table[i].persistence # "session" \/ sessionActive}

-----------------------------------------------------------------------------
(* The in-memory store: the same operations under one mutex.               *)
\* Mutant: only the status is checked.
MemApprove_AnyAge(row, persistence) ==
    IF row.status # "pending"
      THEN Result(row, "notFound")
      ELSE Result(Decide(row, "approved", persistence), "ok")
MemApprove(row, persistence) ==
    IF row.status # "pending" \/ row.expired
      THEN Result(row, "notFound")
      ELSE Result(Decide(row, "approved", persistence), "ok")

MemDeny(row, persistence) ==
    IF row.status # "pending" \/ row.expired
      THEN Result(row, "notFound")
      ELSE Result(Decide(row, "denied", persistence), "ok")

MemRevokePermanent(row) ==
    IF row.persistence # "permanent" \/ row.status \notin {"approved", "denied"}
      THEN Result(row, "notFound")
      ELSE Result(Decide(row, "denied", "none"), "ok")

MemConsume(row) ==
    IF row.status # "approved" \/ row.persistence # "once"
      THEN Result(row, "validation")
      ELSE Result([row EXCEPT !.consumed = TRUE], "ok")

(* The map is scanned in no particular order: an expired duplicate is       *)
(* retired on the way, an unexpired one ends the scan.                     *)
MemCreate(table, tool) ==
    LET live == {i \in DOMAIN table : Open(table[i], tool) /\ ~table[i].expired}
    IN  IF live # {}
          THEN [table |-> Retire(table, tool), id |-> CHOOSE i \in live : TRUE]
          ELSE [table |-> Append(Retire(table, tool), NewApproval(tool)),
                id |-> Len(table) + 1]

MemListAllActive(table, sessionActive) ==
    {i \in DOMAIN table :
        /\ ~(table[i].status = "pending" /\ table[i].expired)
        /\ ~table[i].consumed
        /\ table[i].persistence = "session" => sessionActive}
=============================================================================
