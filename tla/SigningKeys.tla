---------------------------- MODULE SigningKeys ----------------------------
(***************************************************************************)
(* The life of the broker's own keys in one key domain: the token-signing  *)
(* keys, or those of the CIMD client.  Replicas that start create the      *)
(* first key under the bootstrap lock; operators add, promote and delete   *)
(* keys, each in a READ COMMITTED transaction of several statements; and   *)
(* requests sign with the key in effect.  A verifier elsewhere knows the   *)
(* key set only as of its last fetch, which may be MaxAge old.             *)
(***************************************************************************)
EXTENDS Naturals, FiniteSets, Sequences

CONSTANTS
  KeyIDs,
  Goroutines,    \* goroutines, each running one operation at a time
  Remote,     \* those of them on other replicas
  None,
  Grace,      \* jwksGracePeriod, cimdKeyGracePeriod
  MaxAge,     \* the max-age of the published set
  OpTime,     \* longest an administrative operation takes (its deadlines)
  SignerTTL   \* signingKeyCacheTTL

VARIABLES
  keyRows,   \* the rows of signing_keys in the domain
  clock,
  op,        \* what each goroutine is doing
  bootLock,  \* holder of the advisory lock, or None
  signer,    \* cachedSigner and signerVersion of this replica
  loads,     \* the flights of signerFlight that are loading
  verifier,  \* what a verifier last fetched, and when
  keyHistory \* the domain; two bounds, the operations each goroutine is still to be asked for and
             \* the end of time; keys created without grace or promoted, and whether a lock was lost

keyVars == <<keyRows, clock, op, bootLock, signer, loads, verifier, keyHistory>>

ASSUME KeyTimes == {Grace, MaxAge, OpTime} \subseteq Nat /\ MaxAge + OpTime < Grace

Row == [current : BOOLEAN, activatesAt : Nat, removed : BOOLEAN]
ASSUME NoRow == None \notin Row

Stored == {k \in KeyIDs : keyRows[k] # None}
Active == {k \in Stored : ~keyRows[k].removed}
Currents == {k \in Active : keyRows[k].current}

(* The key that signs: of the active keys whose time has come the current  *)
(* one, or else the one activated last.                                    *)
Better(j, k) ==
  \/ keyRows[j].current /\ ~keyRows[k].current
  \/ keyRows[j].current = keyRows[k].current /\ keyRows[j].activatesAt > keyRows[k].activatesAt
Activated(t) == {k \in Active : keyRows[k].activatesAt <= t}
EffectiveCurrent(t) ==
  {k \in Activated(t) : \A j \in Activated(t) : ~Better(j, k)}

(* ------------------------------ operations ----------------------------- *)

Operation == [pc : {"idle", "bootstrap", "counting", "generating", "storing", "demoting", "inserting",
                    "promoting", "deleting", "invalidating", "minting", "holding", "confirming", "loading", "signed",
                    "done", "failed"},
              name : {"none", "ensure", "add", "promote", "delete", "mint"},
              kid : KeyIDs \cup {None}, began : Nat, at : Nat, seen : SUBSET KeyIDs, gen : Nat]
Idle == [pc |-> "idle", name |-> "none", kid |-> None, began |-> 0, at |-> 0, seen |-> {}, gen |-> 0]
Resting == {"idle", "done", "failed", "signed"}
Ended(a, pc) == [op EXCEPT ![a] = [Idle EXCEPT !.pc = pc, !.name = op[a].name]]
AtStep(a, pc) == op[a].pc = pc
Goto(a, pc) == [op EXCEPT ![a].pc = pc]

\* Rows a transaction between its statements holds locks on.
LockedBy(a) == IF op[a].pc \in {"inserting", "promoting"} THEN op[a].seen ELSE {}
Free(a, rows) == \A b \in Goroutines \ {a} : LockedBy(b) \cap rows = {}

Start(a, name, kid, pc) ==
  /\ op[a].pc \in Resting /\ keyHistory.script[a] # <<>> /\ Head(keyHistory.script[a]) = name
  /\ op' = [op EXCEPT ![a] = [pc |-> pc, name |-> name, kid |-> kid, began |-> clock, at |-> clock,
                              seen |-> IF name = "mint" THEN Stored \ Active ELSE {}, gen |-> 0]]
  /\ keyHistory' = [keyHistory EXCEPT !.script[a] = Tail(@)]
  /\ UNCHANGED <<keyRows, clock, bootLock, signer, loads, verifier>>

\* Keys are added, promoted and deleted once a replica has started.
EnsureInitialKey(a) == Start(a, "ensure", None, "bootstrap")
AddKey(a) == Active # {} /\ Start(a, "add", None, IF keyHistory.cimd THEN "bootstrap" ELSE "generating")
AddFirstKey(a) == Active = {} /\ keyHistory.cimd /\ Start(a, "add", None, "bootstrap")
PromoteKey(a) == \E k \in Stored : Start(a, "promote", k, "promoting")
SignToken(a) == a \notin Remote /\ Start(a, "mint", None, "minting")

WithBootstrapLock(a) ==
  /\ AtStep(a, "bootstrap") /\ bootLock = None
  /\ bootLock' = a /\ op' = Goto(a, "counting")
  /\ UNCHANGED <<keyRows, clock, signer, loads, verifier, keyHistory>>

Unlock(a) == IF bootLock = a THEN None ELSE bootLock

(* Under the lock: EnsureInitialKey is done when there is a key, the CIMD  *)
(* GenerateWithInitialActivation goes on, and gives a later key its grace. *)
CountActive(a) ==
  IF Active # {} /\ op[a].name = "ensure"
  THEN op' = Ended(a, "done") /\ bootLock' = Unlock(a)
  ELSE op' = [op EXCEPT ![a].pc = "generating", ![a].at = IF Active = {} THEN @ ELSE @ + Grace]
       /\ UNCHANGED bootLock
Count(a) ==
  /\ AtStep(a, "counting") /\ CountActive(a)
  /\ UNCHANGED <<keyRows, clock, signer, loads, verifier, keyHistory>>

\* Mutant: the grace is no longer than the max-age of the published set.
ActivatesAt_Early(a) == IF op[a].name = "add" /\ ~keyHistory.cimd THEN clock + MaxAge ELSE op[a].at
\* The explicit time, or the publication grace from the moment before the key is stored.
ActivatesAt(a) == IF op[a].name = "add" /\ ~keyHistory.cimd THEN clock + Grace ELSE op[a].at

Fresh == KeyIDs \ (Stored \cup {op[b].kid : b \in Goroutines})
(* A key with its branch key, ready to be stored; or the branch key cannot *)
(* be created, or stays behind because the encryption fails.               *)
GenerateKey(a) ==
  /\ AtStep(a, "generating")
  /\ \/ /\ Fresh # {}
        /\ op' = [op EXCEPT ![a].pc = "storing", ![a].kid = CHOOSE k \in Fresh : TRUE, ![a].at = ActivatesAt(a)]
        /\ UNCHANGED bootLock
     \/ op' = Ended(a, "failed") /\ bootLock' = Unlock(a)
  /\ UNCHANGED <<keyRows, clock, signer, loads, verifier, keyHistory>>

(* CreateAndSetCurrent: the statement that demotes does not see rows       *)
(* stored after it began, and waits for those others have locked.          *)
DemoteBegins(a) ==
  /\ AtStep(a, "storing")
  /\ op' = [op EXCEPT ![a].pc = "demoting", ![a].seen = Currents]
  /\ UNCHANGED <<keyRows, clock, bootLock, signer, loads, verifier, keyHistory>>
Demoted(a) ==
  /\ AtStep(a, "demoting") /\ Free(a, op[a].seen)
  /\ op' = Goto(a, "inserting")
  /\ UNCHANGED <<keyRows, clock, bootLock, signer, loads, verifier, keyHistory>>

\* Mutant: no unique index on the current key of a domain.
SingleCurrent_Unchecked(a) == TRUE
\* The partial unique index refuses a second current key.
SingleCurrent(a) == Currents \subseteq op[a].seen

WithCurrent(a, row) ==
  [k \in KeyIDs |-> IF k = op[a].kid THEN row
                    ELSE IF k \in op[a].seen THEN [keyRows[k] EXCEPT !.current = FALSE] ELSE keyRows[k]]

(* What a committed insertion leaves behind.                               *)
Insert(a) ==
  /\ AtStep(a, "inserting") /\ SingleCurrent(a)
  /\ keyRows' = WithCurrent(a, [current |-> TRUE, activatesAt |-> op[a].at, removed |-> FALSE])
Unpublished(a) == IF op[a].at = op[a].began THEN {op[a].kid} ELSE {}

(* The row is inserted and committed, or the transaction is rolled back.   *)
CreateAndSetCurrent(a) ==
  /\ Insert(a)
  /\ keyHistory' = [keyHistory EXCEPT !.initial = @ \cup Unpublished(a)]
  /\ op' = IF op[a].name = "ensure" THEN Ended(a, "done") ELSE [Goto(a, "invalidating") EXCEPT ![a].seen = {}]
  /\ bootLock' = Unlock(a)
  /\ UNCHANGED <<clock, signer, loads, verifier>>
StoreFails(a) ==
  /\ AtStep(a, "inserting")
  /\ op' = Ended(a, "failed") /\ bootLock' = Unlock(a)
  /\ UNCHANGED <<keyRows, clock, signer, loads, verifier, keyHistory>>

Recovered(rows) == \E k \in KeyIDs : rows[k] # None /\ ~rows[k].removed
(* The bootstrap context ends: the lock is gone, the insertion may or may  *)
(* not have gone through, and EnsureInitialKey looks at the count again.   *)
BootstrapCancelled(a) ==
  /\ bootLock = a /\ bootLock' = None
  /\ \/ Insert(a) /\ keyHistory' = [keyHistory EXCEPT !.initial = @ \cup Unpublished(a), !.cancelled = TRUE]
     \/ UNCHANGED keyRows /\ keyHistory' = [keyHistory EXCEPT !.cancelled = TRUE]
  /\ op' = Ended(a, IF op[a].name = "ensure" /\ Recovered(keyRows') THEN "done" ELSE "failed")
  /\ UNCHANGED <<clock, signer, loads, verifier>>

(* SetCurrentInDomain: the active rows are locked and the current one is   *)
(* demoted; then the key is made current as of now.                        *)
LockForPromotion(a) ==
  /\ AtStep(a, "promoting") /\ op[a].seen = {} /\ Free(a, Active)
  /\ op' = IF op[a].kid \in Active THEN [op EXCEPT ![a].seen = Active] ELSE Ended(a, "failed")
  /\ UNCHANGED <<keyRows, clock, bootLock, signer, loads, verifier, keyHistory>>
SetCurrent(a) ==
  /\ AtStep(a, "promoting") /\ op[a].seen # {} /\ SingleCurrent(a)
  /\ keyRows' = WithCurrent(a, [current |-> TRUE, activatesAt |-> op[a].at, removed |-> FALSE])
  /\ keyHistory' = [keyHistory EXCEPT !.promoted = @ \cup {op[a].kid}]
  /\ op' = [Goto(a, "invalidating") EXCEPT ![a].seen = {}]
  /\ UNCHANGED <<clock, bootLock, signer, loads, verifier>>
PromotionFails(a) ==
  /\ AtStep(a, "promoting") /\ op[a].seen # {}
  /\ op' = Ended(a, "failed")
  /\ UNCHANGED <<keyRows, clock, bootLock, signer, loads, verifier, keyHistory>>

\* Not the last key, not the current one, and not the one that signs.
Deletable(k, t) == Cardinality(Active) > 1 /\ ~keyRows[k].current /\ k \notin EffectiveCurrent(t)

\* The engine looks first, without a lock.
DeleteKey(a) == \E k \in Active : Deletable(k, clock) /\ Start(a, "delete", k, "deleting")

\* The repository locks the rows and looks again.
DeleteInDomain(a) ==
  IF op[a].kid \in Active /\ Deletable(op[a].kid, clock)
  THEN /\ keyRows' = [keyRows EXCEPT ![op[a].kid].removed = TRUE]
       /\ op' = Goto(a, "invalidating")
  ELSE UNCHANGED keyRows /\ op' = Ended(a, "failed")
Remove(a) ==
  /\ AtStep(a, "deleting") /\ Free(a, Active)
  /\ DeleteInDomain(a)
  /\ UNCHANGED <<clock, bootLock, signer, loads, verifier, keyHistory>>

NoSigner == [kid |-> None, expiresAt |-> 0, version |-> signer.version]
(* After the transaction this replica forgets its signer; others do not    *)
(* hear of the change.                                                     *)
InvalidateSigner(a) ==
  /\ AtStep(a, "invalidating")
  /\ signer' = IF a \in Remote \/ keyHistory.cimd THEN signer ELSE [NoSigner EXCEPT !.version = @ + 1]
  /\ op' = Ended(a, "done")
  /\ UNCHANGED <<keyRows, clock, bootLock, loads, verifier, keyHistory>>

(* ------------------------------- signing ------------------------------- *)

(* signingMaterial reads the key in effect; a CIMD assertion reads it      *)
(* twice, and fails when another one has taken effect in between.          *)
GetCurrent(a) ==
  /\ AtStep(a, "minting")
  /\ \/ \E k \in EffectiveCurrent(clock) :
          op' = [op EXCEPT ![a].pc = IF keyHistory.cimd THEN "confirming" ELSE "holding", ![a].kid = k]
     \/ EffectiveCurrent(clock) = {} /\ op' = Ended(a, "failed")
  /\ UNCHANGED <<keyRows, clock, bootLock, signer, loads, verifier, keyHistory>>

SignCIMDClientAssertion(a) ==
  /\ AtStep(a, "confirming")
  /\ op' = IF op[a].kid \in EffectiveCurrent(clock) THEN Goto(a, "signed") ELSE Ended(a, "failed")
  /\ UNCHANGED <<keyRows, clock, bootLock, signer, loads, verifier, keyHistory>>

\* The cached signer is the one of the key just read, and has not expired.
CachedFor(k) == signer.kid = k /\ clock < signer.expiresAt

(* The cached signer signs, or it is dropped and its load is awaited.      *)
SigningMaterial(a) ==
  /\ AtStep(a, "holding")
  /\ IF CachedFor(op[a].kid)
     THEN op' = [op EXCEPT ![a].pc = "signed", ![a].kid = signer.kid] /\ UNCHANGED <<signer, loads>>
     ELSE /\ signer' = NoSigner
          /\ loads' = loads \cup {[gen |-> signer.version, kid |-> op[a].kid]}
          /\ op' = [op EXCEPT ![a].pc = "loading", ![a].gen = signer.version]
  /\ UNCHANGED <<keyRows, clock, bootLock, verifier, keyHistory>>

Waits(a, l) == AtStep(a, "loading") /\ op[a].gen = l.gen /\ op[a].kid = l.kid
Resume(l, pc) ==
  op' = [a \in Goroutines |-> IF Waits(a, l) THEN [op[a] EXCEPT !.pc = pc, !.gen = 0] ELSE op[a]]

Overtaken(l) == signer.version # l.gen
(* loadAndCacheSigner: every waiter reads the key again when the cache was *)
(* invalidated meanwhile; else they get the error, or the signer.          *)
LoadAndCacheSigner(l) ==
  /\ loads' = loads \ {l}
  /\ \/ Overtaken(l) /\ Resume(l, "minting") /\ UNCHANGED signer
     \/ ~Overtaken(l) /\ Resume(l, "failed") /\ UNCHANGED signer
     \/ /\ ~Overtaken(l) /\ Resume(l, "signed")
        /\ signer' = [kid |-> l.kid, expiresAt |-> clock + SignerTTL, version |-> signer.version + 1]
  /\ UNCHANGED <<keyRows, clock, bootLock, verifier, keyHistory>>

(* The request goes away while it waits; the load goes on.                 *)
SigningGivesUp(a) ==
  /\ AtStep(a, "loading")
  /\ op' = Ended(a, "failed")
  /\ UNCHANGED <<keyRows, clock, bootLock, signer, loads, verifier, keyHistory>>

(* ---------------------------- surroundings ----------------------------- *)

\* The timer drops the signer of its own version when it expires.
ExpireSigner == IF signer.kid # None /\ signer.expiresAt <= clock + 1 THEN NoSigner ELSE signer
(* Verifiers keep a set for MaxAge; an administrative call has deadlines.  *)
PassTime ==
  /\ clock < keyHistory.until /\ clock < verifier.at + MaxAge
  /\ \A a \in Goroutines : op[a].pc \in Resting \/ op[a].name = "mint" \/ clock < op[a].began + OpTime
  /\ clock' = clock + 1 /\ signer' = ExpireSigner
  /\ UNCHANGED <<keyRows, op, bootLock, loads, verifier, keyHistory>>

FetchKeySet ==
  /\ verifier' = [keys |-> Active, at |-> clock] /\ verifier' # verifier
  /\ UNCHANGED <<keyRows, clock, op, bootLock, signer, loads, keyHistory>>

KeyAdministration(a) ==
  \/ EnsureInitialKey(a) \/ AddKey(a) \/ AddFirstKey(a) \/ PromoteKey(a) \/ DeleteKey(a)
  \/ WithBootstrapLock(a) \/ Count(a) \/ GenerateKey(a) \/ BootstrapCancelled(a)
  \/ DemoteBegins(a) \/ Demoted(a) \/ CreateAndSetCurrent(a) \/ StoreFails(a)
  \/ LockForPromotion(a) \/ SetCurrent(a) \/ PromotionFails(a)
  \/ Remove(a) \/ InvalidateSigner(a)
Signing(a) ==
  \/ SignToken(a) \/ GetCurrent(a) \/ SignCIMDClientAssertion(a) \/ SigningMaterial(a) \/ SigningGivesUp(a)

KeyRest ==
  /\ clock = 0 /\ op = [a \in Goroutines |-> Idle] /\ bootLock = None /\ loads = {}
  /\ signer = [kid |-> None, expiresAt |-> 0, version |-> 0]
KeyInit(cimd, rows, script, until) ==
  /\ KeyRest /\ keyRows = rows
  /\ verifier = [keys |-> {k \in KeyIDs : rows[k] # None}, at |-> 0]
  /\ keyHistory = [cimd |-> cimd, script |-> script, until |-> until, cancelled |-> FALSE, initial |-> {},
                   promoted |-> {k \in KeyIDs : rows[k] # None}]
KeyNext ==
  \/ \E a \in Goroutines : KeyAdministration(a) \/ Signing(a)
  \/ \E l \in loads : LoadAndCacheSigner(l)
  \/ PassTime \/ FetchKeySet
KeySpec(cimd, rows, script, until) == KeyInit(cimd, rows, script, until) /\ [][KeyNext]_keyVars

(* ------------------------------ properties ----------------------------- *)

\* The rows, operations, caches and histories have their types.
KeyTypeInvariant ==
  /\ keyRows \in [KeyIDs -> Row \cup {None}] /\ op \in [Goroutines -> Operation]
  /\ bootLock \in Goroutines \cup {None} /\ signer.kid \in KeyIDs \cup {None}
  /\ loads \subseteq [gen : 0..signer.version, kid : KeyIDs] /\ verifier.keys \subseteq KeyIDs

(* However additions, promotions and deletions interleave, a domain that   *)
(* has keys has exactly one current key.                                   *)
OneCurrentKey == Active # {} => \E k \in Active : Currents = {k}

(* Once the broker has a key it can sign with it never runs out of one: a  *)
(* deletion leaves the key in effect in place during another's grace.      *)
SignerRemains ==
  [][EffectiveCurrent(clock) # {} => (EffectiveCurrent(clock))' # {}]_keyVars

(* A key that had been deleted when a request to sign came in never signs  *)
(* for it, even where this replica holds a signer of it.                   *)
DeletedKeyIsSilent == \A a \in Goroutines : AtStep(a, "signed") => op[a].kid \notin op[a].seen

(* Verifiers that honour the max-age of the key set know every key that    *)
(* has signed and is still active, except one promoted by an operator or   *)
(* created for an empty domain.                                            *)
VerifierKnowsSigner ==
  \A a \in Goroutines : AtStep(a, "signed") /\ op[a].kid \in Active =>
    op[a].kid \in keyHistory.promoted \cup keyHistory.initial \cup verifier.keys

(* Replicas starting together, and first-key requests racing with them,    *)
(* create one immediately usable key, unless one lost its lock.            *)
OneInitialKey == ~keyHistory.cancelled => Cardinality(keyHistory.initial) <= 1

(* A replica that reports its start done has a key to start with, also     *)
(* when its bootstrap was cut off.                                         *)
StartedWithKey == (\E a \in Goroutines : AtStep(a, "done")) => Active # {}

=============================================================================
