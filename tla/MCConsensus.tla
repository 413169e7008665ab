---------------------------- MODULE MCConsensus ----------------------------
(* Three branches.  Over the node's a1, the chain of c3 is heavier but its first blocks    *)
(* are not, and from b2 on it starts too deep; b3 is the heaviest.                         *)
EXTENDS Consensus

CONSTANTS a1, a2, b1, b2, b3, c1, c2, c3

MCBlocks == {a1, a2, b1, b2, b3, c1, c2, c3}
MCPrev == a1 :> Genesis @@ a2 :> a1 @@ b1 :> Genesis @@ b2 :> b1 @@ b3 :> b2
          @@ c1 :> Genesis @@ c2 :> c1 @@ c3 :> c2
MCChain == Genesis :> {} @@ a1 :> {a1} @@ a2 :> {a1, a2}
           @@ b1 :> {b1} @@ b2 :> {b1, b2} @@ b3 :> {b1, b2, b3}
           @@ c1 :> {c1} @@ c2 :> {c1, c2} @@ c3 :> {c1, c2, c3}
MCTotalDifficulty == Genesis :> 0 @@ a1 :> 2 @@ a2 :> 3 @@ b1 :> 1 @@ b2 :> 3 @@ b3 :> 5
                     @@ c1 :> 1 @@ c2 :> 2 @@ c3 :> 4
=============================================================================
