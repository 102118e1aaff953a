--------------------------- MODULE RefreshFlights ---------------------------
(***************************************************************************)
(* How one replica shares refreshes: the singleflight group behind         *)
(* GetValidAccessToken, the bounded pool of background refreshes, and the  *)
(* pool's shutdown.  A refresh of a locked row is one step here (its       *)
(* interleavings are the subject of SessionVault); what interleaves is     *)
(* who starts it, who joins it, and what each of them does with a result   *)
(* that may be old by the time it is read.                                 *)
(***************************************************************************)
EXTENDS Naturals, FiniteSets

CONSTANTS
  Keys,       \* (principal, service) pairs
  Callers,    \* goroutines inside GetValidAccessToken
  Tasks,      \* background goroutines, each admitted once
  Closers,    \* goroutines inside Close
  Nil,        \* no session, no flight, no result
  Workers,    \* capacity of the pool's slots channel
  Lookahead,  \* RefreshLookahead, in ticks
  Lifetime,   \* how long a refreshed access token lives, in ticks
  MaxTime     \* bound: ticks of the clock

ASSUME FlightsAssumption ==
  Workers \in Nat \ {0} /\ Lookahead \in Nat /\ Lifetime \in Nat \ {0} /\ MaxTime \in Nat

VARIABLES
  now,
  session,   \* Keys -> the stored session or Nil
  flight,    \* Keys -> the running call of refreshGroup, or Nil
  caller,    \* Callers -> state of the call
  task,      \* Tasks -> state of the background refresh
  inflight,  \* the pool's set of keys
  slots,     \* len(p.slots)
  closed,
  drains,    \* how often the drained channel was closed
  canceled,  \* baseCtx is canceled
  closer     \* Closers -> state of Close

pool == <<inflight, slots, closed, drains, canceled>>
vars == <<now, session, flight, caller, task, pool, closer>>

Session == [expiresAt : Nat, rejected : BOOLEAN, refreshable : BOOLEAN]
Triggers == {"on_demand", "background"}
\* refreshFlightResult; err is what the shared function returned with it.
Result == [trigger : Triggers, session : Session \cup {Nil}, refreshed : BOOLEAN,
           err : {"none", "missing", "failed"}]
NoResult == [trigger |-> "background", session |-> Nil, refreshed |-> FALSE, err |-> "missing"]

Call == [pc : {"idle", "near_end", "expired", "waiting", "answered"}, key : Keys \cup {Nil}, result : Result]
Task == [pc : {"new", "admitted", "waiting", "joined", "finishing", "done"},
         key : Keys \cup {Nil}, result : Result]
Parked(label) == [pc |-> label, key |-> Nil, result |-> NoResult]

HasValidAccessToken(s) == now < s.expiresAt
AccessTokenExpiresBy(s, t) == s.expiresAt <= t
RefreshRejected(s) == s.rejected
CanRefresh(s) == s.refreshable /\ ~s.rejected

DueBy(trigger) == IF trigger = "on_demand" THEN now ELSE now + Lookahead

(* ------------------------- GetValidAccessToken ------------------------- *)

Admits(k) == ~closed /\ k \notin inflight /\ slots < Workers

(* submit, under p.mu: admitted once per key while there is a free slot,   *)
(* dropped otherwise.                                                      *)
Submit(k) ==
  \/ /\ Admits(k)
     /\ \E t \in Tasks :
          /\ task[t].pc = "new"
          /\ task' = [task EXCEPT ![t] = [pc |-> "admitted", key |-> k, result |-> NoResult]]
     /\ inflight' = inflight \cup {k}
     /\ slots' = slots + 1
     /\ UNCHANGED <<closed, drains, canceled>>
  \/ /\ ~Admits(k) \/ \A t \in Tasks : task[t].pc # "new"
     /\ UNCHANGED <<task, pool>>

(* The session is read once, before anything is decided about it. *)
ReadSession(c, k) ==
  LET s == session[k]
  IN  /\ caller[c].pc = "idle"
      /\ s # Nil
      /\ ~RefreshRejected(s)
      /\ \/ /\ ~HasValidAccessToken(s)
            /\ caller' = [caller EXCEPT ![c].pc = "expired", ![c].key = k]
         \/ /\ HasValidAccessToken(s)
            /\ CanRefresh(s) /\ AccessTokenExpiresBy(s, now + Lookahead)
            /\ caller' = [caller EXCEPT ![c].pc = "near_end", ![c].key = k]
      /\ UNCHANGED <<now, session, flight, task, pool, closer>>

(* The token read was valid: submit its session, return the token. *)
ReturnValid(c) ==
  /\ caller[c].pc = "near_end"
  /\ Submit(caller[c].key)
  /\ caller' = [caller EXCEPT ![c] = Parked("idle")]
  /\ UNCHANGED <<now, session, flight, closer>>

(* The token read had expired: join the flight of the key or start one. *)
RefreshOnDemand(c) ==
  LET k == caller[c].key
  IN  /\ caller[c].pc = "expired"
      /\ caller' = [caller EXCEPT ![c].pc = "waiting"]
      /\ flight' = IF flight[k] = Nil THEN [flight EXCEPT ![k] = "on_demand"] ELSE flight
      /\ UNCHANGED <<now, session, task, pool, closer>>

(* What refreshLockedSession may return for the row it locked, and the row *)
(* it leaves behind.                                                       *)
Outcomes(trigger, s) ==
  LET stays(err) ==
        [result |-> [trigger |-> trigger, session |-> IF err = "none" THEN s ELSE Nil,
                     refreshed |-> FALSE, err |-> err], row |-> s]
      renewed == [s EXCEPT !.expiresAt = now + Lifetime]
      rejected == [s EXCEPT !.rejected = TRUE]
  IN  {stays("failed")} \cup
      CASE s = Nil -> {stays("missing")}
        [] s # Nil /\ RefreshRejected(s) /\ trigger = "background" -> {stays("none")}
        [] s # Nil /\ RefreshRejected(s) /\ trigger # "background" -> {}
        [] s # Nil /\ ~RefreshRejected(s) /\ ~AccessTokenExpiresBy(s, DueBy(trigger)) -> {stays("none")}
        [] s # Nil /\ ~RefreshRejected(s) /\ AccessTokenExpiresBy(s, DueBy(trigger)) ->
             IF ~s.refreshable THEN {}
             ELSE {[result |-> [trigger |-> trigger, session |-> renewed, refreshed |-> TRUE, err |-> "none"],
                    row |-> renewed],
                   [result |-> stays("failed").result, row |-> rejected]}

\* singleflight: every goroutine waiting for the key gets the same result.
Deliver(k, r) ==
  /\ caller' = [c \in Callers |->
       IF caller[c].pc = "waiting" /\ caller[c].key = k
       THEN [caller[c] EXCEPT !.pc = "answered", !.result = r] ELSE caller[c]]
  /\ task' = [t \in Tasks |->
       IF task[t].pc = "waiting" /\ task[t].key = k
       THEN [task[t] EXCEPT !.pc = "joined", !.result = r] ELSE task[t]]
  /\ flight' = [flight EXCEPT ![k] = Nil]

(* The flight's function runs: under the row lock it sees the session as   *)
(* it is now.  A background flight of a pool whose context is canceled     *)
(* fails without touching the row.                                         *)
RunFlight(k) ==
  /\ flight[k] # Nil
  /\ \/ /\ flight[k] = "background" /\ canceled
        /\ Deliver(k, [NoResult EXCEPT !.err = "failed"])
        /\ UNCHANGED session
     \/ \E o \in Outcomes(flight[k], session[k]) :
          /\ ~(flight[k] = "background" /\ canceled)
          /\ Deliver(k, o.result)
          /\ session' = [session EXCEPT ![k] = o.row]
  /\ UNCHANGED <<now, pool, closer>>

(* The caller reads its result, or its own context ends first; the flight  *)
(* goes on without it.                                                     *)
CallerReturns(c) ==
  /\ caller[c].pc = "answered"
  /\ caller' = [caller EXCEPT ![c] = Parked("idle")]
  /\ UNCHANGED <<now, session, flight, task, pool, closer>>

CallerGivesUp(c) ==
  /\ caller[c].pc = "waiting"
  /\ caller' = [caller EXCEPT ![c] = Parked("idle")]
  /\ UNCHANGED <<now, session, flight, task, pool, closer>>

(* -------------------------- background refresh ------------------------- *)

\* refresh: enter refreshGroup, as the leader or behind another flight.
BackgroundEnters(t) ==
  LET k == task[t].key
  IN  /\ task[t].pc = "admitted"
      /\ task' = [task EXCEPT ![t].pc = "waiting"]
      /\ flight' = IF flight[k] = Nil THEN [flight EXCEPT ![k] = "background"] ELSE flight
      /\ UNCHANGED <<now, session, caller, pool, closer>>

\* Mutant: an on-demand flight settles the background refresh as well.
MustContinue_Never(r) == FALSE
(* An on-demand flight only looked at expiry, not at the lookahead. *)
MustContinue(r) ==
  /\ r.err = "none"
  /\ r.trigger = "on_demand" /\ ~r.refreshed
  /\ r.session # Nil
  /\ ~RefreshRejected(r.session) /\ AccessTokenExpiresBy(r.session, now + Lookahead)

(* continueSharedRefresh: a refresh of its own, outside the group. *)
ContinueSharedRefresh(t) ==
  LET k == task[t].key
  IN  /\ task[t].pc = "joined"
      /\ MustContinue(task[t].result)
      /\ \/ /\ canceled
            /\ task' = [task EXCEPT ![t].pc = "finishing", ![t].result = [NoResult EXCEPT !.err = "failed"]]
            /\ UNCHANGED session
         \/ /\ ~canceled
            /\ \E o \in Outcomes("background", session[k]) :
                 /\ task' = [task EXCEPT ![t].pc = "finishing", ![t].result = o.result]
                 /\ session' = [session EXCEPT ![k] = o.row]
      /\ UNCHANGED <<now, flight, caller, pool, closer>>

(* The shared result settles it. *)
AcceptShared(t) ==
  /\ task[t].pc = "joined"
  /\ ~MustContinue(task[t].result)
  /\ task' = [task EXCEPT ![t].pc = "finishing"]
  /\ UNCHANGED <<now, session, flight, caller, pool, closer>>

Release(k) == inflight \ {k}
DrainsNow(n) == n = 0

(* finish, under p.mu. *)
Finish(t) ==
  /\ task[t].pc = "finishing"
  /\ task' = [task EXCEPT ![t] = Parked("done")]
  /\ inflight' = Release(task[t].key)
  /\ slots' = slots - 1
  /\ drains' = IF closed /\ DrainsNow(slots - 1) THEN drains + 1 ELSE drains
  /\ UNCHANGED <<now, session, flight, caller, closed, canceled, closer>>

(* -------------------------------- Close -------------------------------- *)

DrainsAtClose == ~closed /\ slots = 0

CloseBegins(x) ==
  /\ closer[x] = "idle"
  /\ closer' = [closer EXCEPT ![x] = "waiting"]
  /\ closed' = TRUE
  /\ drains' = IF DrainsAtClose THEN drains + 1 ELSE drains
  /\ UNCHANGED <<now, session, flight, caller, task, inflight, slots, canceled>>

CloseReturns(x) ==
  /\ closer[x] = "waiting"
  /\ drains > 0
  /\ closer' = [closer EXCEPT ![x] = "drained"]
  /\ canceled' = TRUE
  /\ UNCHANGED <<now, session, flight, caller, task, inflight, slots, closed, drains>>

\* Its context ends first; running refreshes are canceled.
CloseGivesUp(x) ==
  /\ closer[x] = "waiting"
  /\ closer' = [closer EXCEPT ![x] = "gave_up"]
  /\ canceled' = TRUE
  /\ UNCHANGED <<now, session, flight, caller, task, inflight, slots, closed, drains>>

(* ----------------------------- environment ----------------------------- *)

Tick ==
  /\ now < MaxTime
  /\ now' = now + 1
  /\ UNCHANGED <<session, flight, caller, task, pool, closer>>

(* Another replica refreshes, rejects, terminates or reconnects. *)
SessionChanges(k) ==
  /\ \E s \in {Nil} \cup [expiresAt : {now + Lifetime}, rejected : {FALSE}, refreshable : BOOLEAN]
               \cup {[session[k] EXCEPT !.rejected = TRUE] : j \in {k} \ {i \in Keys : session[i] = Nil}} :
       /\ s # session[k]
       /\ session' = [session EXCEPT ![k] = s]
  /\ UNCHANGED <<now, flight, caller, task, pool, closer>>

Init ==
  /\ now = 0
  /\ session \in [Keys -> [expiresAt : {Lifetime}, rejected : {FALSE}, refreshable : {TRUE}]]
  /\ flight = [k \in Keys |-> Nil]
  /\ caller = [c \in Callers |-> Parked("idle")]
  /\ task = [t \in Tasks |-> Parked("new")]
  /\ inflight = {} /\ slots = 0
  /\ closed = FALSE /\ drains = 0 /\ canceled = FALSE
  /\ closer = [x \in Closers |-> "idle"]

CallerStep(c) == ReturnValid(c) \/ RefreshOnDemand(c) \/ CallerReturns(c) \/ CallerGivesUp(c)
TaskStep(t) == BackgroundEnters(t) \/ ContinueSharedRefresh(t) \/ AcceptShared(t) \/ Finish(t)
CloserStep(x) == CloseReturns(x) \/ CloseGivesUp(x)

Next ==
  \/ \E c \in Callers : CallerStep(c) \/ \E k \in Keys : ReadSession(c, k)
  \/ \E k \in Keys : RunFlight(k) \/ SessionChanges(k)
  \/ \E t \in Tasks : TaskStep(t)
  \/ \E x \in Closers : CloserStep(x) \/ CloseBegins(x)
  \/ Tick

Spec == Init /\ [][Next]_vars

(* ------------------------------ properties ----------------------------- *)

(* The state has its types, and no more refreshes run than there are slots. *)
TypeInvariant ==
  /\ now \in 0..MaxTime
  /\ session \in [Keys -> Session \cup {Nil}]
  /\ flight \in [Keys -> Triggers \cup {Nil}]
  /\ caller \in [Callers -> Call]
  /\ task \in [Tasks -> Task]
  /\ inflight \subseteq Keys /\ slots \in 0..Workers
  /\ closed \in BOOLEAN /\ drains \in Nat /\ canceled \in BOOLEAN
  /\ closer \in [Closers -> {"idle", "waiting", "drained", "gave_up"}]

Running == {t \in Tasks : task[t].pc \notin {"new", "done"}}

(* The pool's books agree with the goroutines it started: one slot and one *)
(* inflight key for each, no two of them on one key.                       *)
PoolAccounting ==
  /\ slots = Cardinality(Running)
  /\ inflight = {task[t].key : t \in Running}
  /\ Cardinality(inflight) = slots

(* The drained channel is closed exactly when the pool is closed and       *)
(* empty, and once: a second close would panic the process, and a missing  *)
(* one would leave every Close waiting for its context to end.  So a Close *)
(* that reports success leaves no refresh running, and none starts later.  *)
DrainedOnce ==
  drains = IF closed /\ Running = {} THEN 1 ELSE 0

(* A caller that gets a session from a flight, its own or a background     *)
(* one, without an error gets one that is rejected (and reported as such)  *)
(* or one that is valid as the flight ends: the expired token it set out   *)
(* to replace is never what it gets.                                       *)
AnswerIsUsable ==
  [][\A c \in Callers :
       caller[c].pc = "waiting" /\ caller'[c].pc = "answered" /\ caller'[c].result.err = "none" =>
         LET s == caller'[c].result.session
         IN  s # Nil /\ (RefreshRejected(s) \/ HasValidAccessToken(s))]_vars

(* A background refresh that joined an on-demand flight does not take its  *)
(* word for it: it ends without an error only with a session renewed,      *)
(* rejected or not due by its own, later threshold (continueSharedRefresh).*)
NotShadowedByOnDemand ==
  [][\A t \in Tasks :
       (/\ task[t].pc = "joined" /\ task'[t].pc = "finishing"
        /\ task[t].result.trigger = "on_demand" /\ task'[t].result.err = "none") =>
            \/ task'[t].result.refreshed
            \/ RefreshRejected(task'[t].result.session)
            \/ ~AccessTokenExpiresBy(task'[t].result.session, now + Lookahead)]_vars

=============================================================================
