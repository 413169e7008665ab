------------------------------ MODULE MCRelay ------------------------------
(* "good" is valid; "own" is made by the node's builder and never verified, *)
(* and a worker would refuse it.                                            *)
EXTENDS Relay

MCOffers == [c \in Callers |-> IF c \in Peers THEN {"good"} ELSE {"own"}]
MCAppliesAt == [t \in Txs |-> IF t = "own" THEN {0} ELSE {0, 1}]
MCCandidates == <<<<"own", "good">>>>
=============================================================================
