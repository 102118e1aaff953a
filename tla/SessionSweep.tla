---------------------------- MODULE SessionSweep ----------------------------
(***************************************************************************)
(* The admin sweep: it pages through the sessions that expire by a fixed   *)
(* threshold, in (expiry, ID) order behind a cursor, and refreshes each    *)
(* under its row lock, while callers and other replicas refresh, reject,   *)
(* terminate and create sessions between any two of its steps.  A session  *)
(* it refreshes may come back behind the cursor when tokens live shorter   *)
(* than the lookahead.                                                     *)
(***************************************************************************)
EXTENDS Naturals, FiniteSets, Sequences, SequencesExt

CONSTANTS
  Keys,       \* (principal, service) pairs, one session each at most
  IDs,        \* session IDs, numbers ordered as bytes.Compare orders UUIDs
  Nil,        \* no session, no cursor
  PageSize,
  Lookahead,  \* distance of the threshold, in ticks
  Lifetime,   \* how long a refreshed access token lives, in ticks
  MaxTime     \* bound: ticks of the clock

ASSUME SweepAssumption ==
  IDs \subseteq Nat /\ PageSize \in Nat \ {0} /\ Lookahead \in Nat \ {0} /\ Lifetime \in Nat \ {0}

VARIABLES
  now,
  row,       \* Keys -> session or Nil
  sweep,     \* the running Sweep
  commits,   \* history: the IDs of the sessions the sweep refreshed, in order
  touched    \* history: IDs created or changed by somebody else since the sweep began

sweepVars == <<now, row, sweep, commits, touched>>

Session == [id : IDs, expiresAt : Nat, refreshable : BOOLEAN, rejected : BOOLEAN]
CanRefresh(s) == s.refreshable /\ ~s.rejected
AccessTokenExpiresBy(s, t) == s.expiresAt <= t

Outcome == {"refreshed", "skipped", "failed"}
Sweeps == [pc : {"listing", "next", "check", "refresh", "done", "aborted"},
           dryRun : BOOLEAN, threshold : Nat,
           cursor : {Nil} \cup [expiresAt : Nat, id : IDs],
           page : Seq(Keys \X Session), last : BOOLEAN,
           seen : SUBSET IDs, count : [Outcome -> Nat], total : Nat, cause : {"none", "cursor", "failure"}]

Precedes(a, b) == a.expiresAt < b.expiresAt \/ (a.expiresAt = b.expiresAt /\ a.id < b.id)

AfterCursor(s, c) == c = Nil \/ Precedes(c, s)

(* ListExpiringSessions: one query, ordered and limited; rejected sessions *)
(* are left out.                                                           *)
ListExpiringSessions(threshold, c) ==
  LET due == {k \in Keys : row[k] # Nil /\ ~row[k].rejected
                           /\ AccessTokenExpiresBy(row[k], threshold) /\ AfterCursor(row[k], c)}
      sorted == SetToSortSeq(due, LAMBDA j, k : Precedes(row[j], row[k]))
      first == SubSeq(sorted, 1, IF Len(sorted) < PageSize THEN Len(sorted) ELSE PageSize)
  IN  [i \in DOMAIN first |-> <<first[i], row[first[i]]>>]

Tuple(s) == [expiresAt |-> s.expiresAt, id |-> s.id]

\* Mutant: the cursor of the previous page is kept.
NextCursor_Previous(page, c) == c
\* Mutant: the cursor steps over the rest of its expiry time.
NextCursor_ExpiryOnly(page, c) ==
  IF page = <<>> THEN c ELSE [expiresAt |-> page[Len(page)][2].expiresAt, id |-> CHOOSE i \in IDs : \A j \in IDs : j <= i]
NextCursor(page, c) == IF page = <<>> THEN c ELSE Tuple(page[Len(page)][2])

\* nextSweepCursor's check: every tuple is behind the one before it.
Increasing(page, c) ==
  \A i \in DOMAIN page :
    LET before == IF i = 1 THEN c ELSE Tuple(page[i - 1][2])
    IN  before = Nil \/ Precedes(before, page[i][2])

List ==
  LET page == ListExpiringSessions(sweep.threshold, sweep.cursor)
  IN  /\ sweep.pc = "listing"
      /\ IF Increasing(page, sweep.cursor)
         THEN sweep' = [sweep EXCEPT !.pc = "next", !.page = page, !.last = Len(page) < PageSize,
                                     !.cursor = NextCursor(page, sweep.cursor)]
         ELSE sweep' = [sweep EXCEPT !.pc = "aborted", !.cause = "cursor"]
      /\ UNCHANGED <<now, row, commits, touched>>

PageDone ==
  /\ sweep.pc = "next" /\ sweep.page = <<>>
  /\ sweep' = [sweep EXCEPT !.pc = IF sweep.last THEN "done" ELSE "listing"]
  /\ UNCHANGED <<now, row, commits, touched>>

Candidate == sweep.page[1]

\* The sweep after its candidate was classified.
Classified(outcome) ==
  [sweep EXCEPT !.pc = "next", !.page = Tail(@), !.count[outcome] = @ + 1, !.total = @ + 1]

Seen(s) == s.id \in sweep.seen

(* The next candidate of the page: skipped if an earlier page had it,      *)
(* classified as it was read in a dry run, checked or refreshed under the  *)
(* row lock otherwise.                                                     *)
NextCandidate ==
  LET s == Candidate[2]
      marked == sweep.seen \cup {s.id}
  IN  /\ sweep.pc = "next" /\ sweep.page # <<>>
      /\ \/ /\ Seen(s)
            /\ sweep' = [sweep EXCEPT !.page = Tail(@)]
         \/ /\ ~Seen(s) /\ sweep.dryRun
            /\ sweep' = [Classified(IF s.rejected \/ ~AccessTokenExpiresBy(s, sweep.threshold) THEN "skipped"
                                    ELSE IF CanRefresh(s) THEN "refreshed" ELSE "failed") EXCEPT !.seen = marked]
         \/ /\ ~Seen(s) /\ ~sweep.dryRun
            /\ sweep' = [sweep EXCEPT !.pc = IF CanRefresh(s) THEN "refresh" ELSE "check", !.seen = marked]
      /\ UNCHANGED <<now, row, commits, touched>>

NotDue(s) == s.rejected \/ ~AccessTokenExpiresBy(s, sweep.threshold)

(* checkUnrefreshableSweepCandidate: the row may have become refreshable   *)
(* since the page was read.                                                *)
CheckUnrefreshable ==
  LET s == row[Candidate[1]]
  IN  /\ sweep.pc = "check"
      /\ \/ /\ s = Nil \/ (s # Nil => NotDue(s))
            /\ sweep' = Classified("skipped")
         \/ /\ s # Nil
            /\ ~NotDue(s)
            /\ sweep' = IF CanRefresh(s) THEN [sweep EXCEPT !.pc = "refresh"] ELSE Classified("failed")
      /\ UNCHANGED <<now, row, commits, touched>>

(* refreshDueSession of the candidate's principal and service. *)
RefreshDueSession ==
  LET k == Candidate[1]
      s == row[k]
  IN  /\ sweep.pc = "refresh"
      /\ \/ /\ s = Nil \/ (s # Nil => NotDue(s))
            /\ sweep' = Classified("skipped")
            /\ UNCHANGED <<row, commits>>
         \/ /\ s # Nil
            /\ ~NotDue(s)
            /\ \/ /\ CanRefresh(s)
                  /\ sweep' = Classified("refreshed")
                  /\ row' = [row EXCEPT ![k].expiresAt = now + Lifetime]
                  /\ commits' = Append(commits, s.id)
               \/ /\ CanRefresh(s)   \* invalid_grant
                  /\ sweep' = Classified("failed")
                  /\ row' = [row EXCEPT ![k].rejected = TRUE]
                  /\ UNCHANGED commits
               \/ /\ sweep' = Classified("failed")
                  /\ UNCHANGED <<row, commits>>
               \/ /\ CanRefresh(s)   \* the commit succeeds but reports an error
                  /\ sweep' = [sweep EXCEPT !.pc = "aborted", !.cause = "failure"]
                  /\ row' = [row EXCEPT ![k].expiresAt = now + Lifetime]
                  /\ commits' = Append(commits, s.id)
      /\ UNCHANGED <<now, touched>>

(* A repository fails, or the request is canceled.  What was refreshed     *)
(* stays refreshed; the candidate at hand is not counted.                  *)
Abort ==
  /\ sweep.pc \notin {"done", "aborted"}
  /\ sweep' = [sweep EXCEPT !.pc = "aborted", !.cause = "failure"]
  /\ UNCHANGED <<now, row, commits, touched>>

(* ----------------------------- environment ----------------------------- *)

Unused == IDs \ (touched \cup sweep.seen \cup {row[k].id : k \in {j \in Keys : row[j] # Nil}})

\* A refresh or a rejection elsewhere.
SessionChanges(k) ==
  /\ row[k] # Nil /\ ~row[k].rejected
  /\ \/ row' = [row EXCEPT ![k].expiresAt = now + Lifetime]
     \/ row' = [row EXCEPT ![k].rejected = TRUE]
  /\ row' # row
  /\ touched' = touched \cup {row[k].id}
  /\ UNCHANGED <<now, sweep, commits>>

SessionTerminated(k) ==
  /\ row[k] # Nil
  /\ row' = [row EXCEPT ![k] = Nil]
  /\ touched' = touched \cup {row[k].id}
  /\ UNCHANGED <<now, sweep, commits>>

SessionCreated(k) ==
  /\ row[k] = Nil
  /\ \E i \in Unused, can \in BOOLEAN :
       /\ row' = [row EXCEPT ![k] = [id |-> i, expiresAt |-> now + Lifetime, refreshable |-> can, rejected |-> FALSE]]
       /\ touched' = touched \cup {i}
  /\ UNCHANGED <<now, sweep, commits>>

\* The user reconnects: the row keeps its ID and gets new tokens.
SessionReconnected(k) ==
  /\ row[k] # Nil
  /\ \E can \in BOOLEAN :
       row' = [row EXCEPT ![k].expiresAt = now + Lifetime, ![k].refreshable = can, ![k].rejected = FALSE]
  /\ row' # row
  /\ touched' = touched \cup {row[k].id}
  /\ UNCHANGED <<now, sweep, commits>>

Tick ==
  /\ now < MaxTime
  /\ now' = now + 1
  /\ UNCHANGED <<row, sweep, commits, touched>>

(* A sweep; the threshold is fixed as it begins. *)
NewSweep(pc, dry) ==
  [pc |-> pc, dryRun |-> dry, threshold |-> Lookahead, cursor |-> Nil, page |-> <<>>, last |-> FALSE,
   seen |-> {}, count |-> [o \in Outcome |-> 0], total |-> 0, cause |-> "none"]

SweepInit ==
  /\ now = 0
  /\ row \in [Keys -> {Nil} \cup [id : IDs, expiresAt : 0..Lookahead, refreshable : BOOLEAN, rejected : {FALSE}]]
  /\ \A j, k \in Keys : row[j] # Nil /\ row[k] # Nil /\ row[j].id = row[k].id => j = k
  /\ \E dry \in BOOLEAN : sweep = NewSweep("listing", dry)
  /\ commits = <<>>
  /\ touched = {}

Progress == List \/ PageDone \/ NextCandidate \/ CheckUnrefreshable \/ RefreshDueSession
Others == \E k \in Keys : SessionChanges(k) \/ SessionTerminated(k) \/ SessionCreated(k) \/ SessionReconnected(k)

SweepNext == Progress \/ Abort \/ Others \/ Tick

(* The sweep runs on: each refresh has a deadline of its own. *)
SweepFairness == WF_sweepVars(Progress)

(* ------------------------------ properties ----------------------------- *)

(* The sweep's page, cursor, counts and rows have their types; a page       *)
(* holds sessions, never missing rows.                                     *)
SweepTypeInvariant ==
  /\ now \in 0..MaxTime
  /\ row \in [Keys -> Session \cup {Nil}]
  /\ sweep \in Sweeps
  /\ commits \in Seq(IDs)
  /\ touched \subseteq IDs

Finished == sweep.pc \in {"done", "aborted"}

(* "SweepResult classifies every evaluated candidate exactly once", and    *)
(* what a real sweep reports as refreshed is what it committed: an         *)
(* operator reads these counts after an aborted run too, which leaves out  *)
(* at most the one commit whose outcome it never learnt.                   *)
CountsAreTrue ==
  /\ sweep.total = sweep.count["refreshed"] + sweep.count["skipped"] + sweep.count["failed"]
  /\ ~sweep.dryRun => Len(commits) - sweep.count["refreshed"] \in (IF sweep.pc = "aborted" THEN 0..1 ELSE {0})

(* No session that nobody else touched is refreshed twice in one sweep,    *)
(* even when its new token is due by the same threshold.                   *)
RefreshedOnce ==
  \A i, j \in DOMAIN commits : commits[i] = commits[j] /\ commits[i] \notin touched => i = j

(* A sweep that completes has evaluated every session that was due and     *)
(* untouched: rows that others refresh, delete or insert while it pages    *)
(* never make it jump over one ("A sweep selects all sessions due within   *)
(* the lookahead window").                                                 *)
NoDueSessionMissed ==
  sweep.pc = "done" =>
    \A k \in Keys :
      row[k] # Nil /\ ~row[k].rejected /\ AccessTokenExpiresBy(row[k], sweep.threshold)
        /\ row[k].id \notin touched => row[k].id \in sweep.seen

(* The repository's pages never trip nextSweepCursor's guard, whatever     *)
(* changes between two pages.                                              *)
CursorNeverStalls == sweep.cause # "cursor"

(* A session that others refreshed past the threshold keeps the token it   *)
(* got: the sweep only renews what is due when it holds the lock.          *)
OnlyDueIsRefreshed ==
  [][commits' # commits =>
       \E k \in Keys : row[k] # Nil /\ row[k].id = commits'[Len(commits')]
                       /\ ~row[k].rejected /\ AccessTokenExpiresBy(row[k], sweep.threshold)]_sweepVars

(* Every sweep ends, also when sessions keep coming back behind the cursor.*)
SweepEnds == <>Finished

=============================================================================
