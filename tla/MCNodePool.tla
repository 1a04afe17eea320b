----------------------------- MODULE MCNodePool -----------------------------
(* A pool of two nodes and a pool that has one of them. *)
EXTENDS NodePool, TLC

CONSTANTS n1, n2, pA, pB

MCNodes == {n1, n2}
MCPools == {pA, pB}
MCPoolSeq == <<pA, pB>>
MCPins == pA :> {n1} @@ pB :> {}
MCShared == pA :> {n1, n2} @@ pB :> {n2}
MCDropped == pA :> {n1} @@ pB :> {n1}
MCMemberships == {MCShared, MCDropped}
MCStrategies == {"stable", "agile", "manual"}
=============================================================================
