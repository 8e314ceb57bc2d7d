---------------------------- MODULE MCPriorityGate ----------------------------
(* A gate of two slots and a queue of two, five requests of three priorities, *)
(* two pairs of them with equal keys so that the tiebreaker decides.          *)
EXTENDS PriorityGate, TLC

CONSTANTS r1, r2, r3, r4, r5

MCRequests == {r1, r2, r3, r4, r5}
MCOrderingKey == r1 :> 2 @@ r2 :> 2 @@ r3 :> 1 @@ r4 :> 1 @@ r5 :> 0
==============================================================================
