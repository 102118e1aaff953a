---------------------------- MODULE MCJWKSCache ----------------------------
(* An instance of JWKSCache for TLC, made of two: two requests for the     *)
(* server's key set and one change of it, or one request for either key    *)
(* set, with a cache that expires or a key that is activated.              *)
EXTENDS JWKSCache, TLC

CONSTANTS a, b, r1, r2

VARIABLE alone

MCInit == Init /\ alone \in BOOLEAN /\ (alone <=> strict \/ broken # {})
Bounded ==
  IF alone THEN request'[r2] = request[r2] ELSE Len(past') <= 2 /\ ticks' = ticks
MCNext == Next /\ Bounded /\ alone' = alone

mcVars == <<vars, alone>>
FairSpec ==
  /\ MCInit /\ [][MCNext]_mcVars
  /\ \A r \in Requests : WF_mcVars(RequestStep(r) /\ Bounded /\ alone' = alone)
  /\ \A g \in Generations : WF_mcVars(RebuildStep(g) /\ Bounded /\ alone' = alone)

=============================================================================
