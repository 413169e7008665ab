--------------------------- MODULE BlockchainSync ---------------------------
(***************************************************************************)
(* Whether the chain is in sync, from how many blocks changed in an        *)
(* interval.  SyncTime is left out: it is set exactly when sync is.        *)
(***************************************************************************)
EXTENDS Naturals

CONSTANTS
    SyncLimit,      \* 3: with as many new blocks it is out of sync
    StartLimit,     \* 5: with as many it does not get in sync
    ManyBlocks      \* 1000: what the interval before the start counts; the counters end here

ASSUME SyncAssumption == {SyncLimit, StartLimit, ManyBlocks} \subseteq Nat /\ ManyBlocks >= StartLimit

SyncData == [prev : Nat, last : Nat, sync : BOOLEAN, started : BOOLEAN]

Capped(n) == IF n > ManyBlocks THEN ManyBlocks ELSE n

CreateBlockchainSync(skip) ==
    [prev |-> IF skip THEN 0 ELSE ManyBlocks, last |-> 0, sync |-> FALSE, started |-> skip]

AddBlocksChanged(d, blocks) ==
    LET last == Capped(d.last + blocks)
    IN  [d EXCEPT !.last = last, !.sync = last < SyncLimit /\ @]

\* Mutant: the interval before stays.
ResetBlocksChangedKept(d) ==
    LET calm == d.last < StartLimit /\ (d.started \/ d.prev < StartLimit)
    IN  [prev |-> d.prev, last |-> 0, sync |-> calm, started |-> d.started \/ calm]

ResetBlocksChanged(d) ==
    LET calm == d.last < StartLimit /\ (d.started \/ d.prev < StartLimit)
    IN  [prev |-> d.last, last |-> 0, sync |-> calm, started |-> d.started \/ calm]
=============================================================================
