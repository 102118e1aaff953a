------------------------- MODULE MCSessionCallbacks -------------------------
(* SessionVault, seen from the callbacks.  Either callbacks and            *)
(* terminations race on two replicas that crash, with three grants, or the *)
(* operator replaces the client registration while callbacks and refreshes *)
(* of two grants run, one of them at a time behind the session lock.       *)
EXTENDS SessionVault, TLC

CONSTANTS k1, p1, p2, c1, c2

VARIABLE rotating

MCReplicas == {{p1}, {p2}}
ProcSymmetry == Permutations({p1, p2})

Racing ==
  \/ \E k \in Keys : InitiateOAuth2Flow(k)
  \/ \E p \in Procs :
       (\E c \in claims : HandleCallback(p, c)) \/ (\E k \in Keys : TerminateSession(p, k)) \/ Step(p)
  \/ \E r \in Replicas : Crash(r)

Rotating ==
  /\ \/ \E k \in Keys : InitiateOAuth2Flow(k) \/ RotateCredentials(k, c2)
     \/ \E p \in Procs : Begin(p) \/ Step(p)
     \/ Provider
  /\ nextGrant' <= MaxGrants
  /\ ~\A p \in Procs : op'[p].pc \in {"lock", "held", "sent", "answered"}

MCInit == Init /\ clientID = [k \in Keys |-> c1] /\ rotating \in BOOLEAN
MCNext ==
  /\ \/ ~rotating /\ Racing
     \/ rotating /\ Rotating
  /\ UNCHANGED rotating

MCSpec == MCInit /\ [][MCNext]_<<vars, rotating>>

=============================================================================
