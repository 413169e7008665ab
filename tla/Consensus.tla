----------------------------- MODULE Consensus -----------------------------
(***************************************************************************)
(* How a node finds, downloads and adopts the chains of its peers.         *)
(*                                                                         *)
(* Peers announce their chain when it changes, and the node asks for it    *)
(* every two seconds; a goroutine per announcement compares it with the    *)
(* node's own chain and lists it as a fork.  One thread takes the best     *)
(* fork, looks for the last block it shares with the own chain, downloads  *)
(* the other blocks a few at a time, and gives them to AddBlocks.  The     *)
(* peers and the node's own forger change their chains meanwhile, a        *)
(* request may fail, and a connection may close.                           *)
(*                                                                         *)
(* A chain is named by its last block: Prev gives the blocks before it.  A *)
(* fork is keyed by the hash of its last block, as in Forks.hashes.  A     *)
(* block is downloaded by two requests, for the block and for the          *)
(* transactions the mempool lacks; a failure of either is one failure.     *)
(***************************************************************************)
EXTENDS Integers, Sequences, FiniteSets, FiniteSetsExt, TLC

CONSTANTS
    Blocks, Genesis,
    Prev,            \* the block before each block
    Chain,           \* the blocks of the chain that ends in each block
    TotalDifficulty, \* BlockchainData.BigTotalDifficulty of that chain
    Forged,          \* the blocks that the node itself may forge
    Tips,            \* the chains that the peers may have
    Conns,           \* connections to peers
    FirstTip,        \* the node's chain at the start
    FirstPeerTip,    \* the peers' chain at the start
    FORK_MAX_UNCLE_ALLOWED, FORK_MAX_DOWNLOAD,
    MaxErrors,       \* errors of a fork that are forgiven: 2
    MaxFailures,     \* bound: requests that fail without a reason in the chains
    MaxClosed        \* bound: connections that close

Hashes == Blocks \cup {Genesis}

ASSUME TreeAssumption == /\ Genesis \notin Blocks /\ IsFiniteSet(Blocks)
                         /\ Prev \in [Blocks -> Hashes] /\ Chain \in [Hashes -> SUBSET Blocks]
                         /\ TotalDifficulty \in [Hashes -> Nat]
                         /\ Chain[Genesis] = {} /\ TotalDifficulty[Genesis] = 0
                         /\ \A b \in Blocks : /\ Chain[b] = {b} \cup Chain[Prev[b]]
                                              /\ b \notin Chain[Prev[b]]
                                              /\ TotalDifficulty[b] > TotalDifficulty[Prev[b]]
                         /\ Forged \subseteq Blocks /\ Tips \subseteq Blocks
                         /\ FirstTip \in Hashes /\ FirstPeerTip \in Tips
ASSUME LimitsAssumption == /\ FORK_MAX_UNCLE_ALLOWED \in Nat /\ FORK_MAX_DOWNLOAD \in Nat \ {0}
                           /\ {MaxErrors, MaxFailures, MaxClosed} \subseteq Nat

\* BlockchainData.Height of the chain that ends in a block.
ChainHeight(t) == Cardinality(Chain[t])

BlockHeight(b) == ChainHeight(b) - 1

\* The store of a chain: the block of a height, or none.
OpenLoadBlockHash(t, height) == {b \in Chain[t] : BlockHeight(b) = height}

VARIABLES
    full,       \* whether NODE_CONSENSUS is NODE_CONSENSUS_TYPE_FULL; an app node otherwise
    chain,      \* the node's own chain
    selfForged, \* chainData.ConsecutiveSelfForged
    peer,       \* the peers' chains
    closed,     \* the connections that are closed
    handler,    \* per connection: the goroutine in ChainUpdateProcess
    forks,      \* Forks.hashes
    thread,     \* ConsensusProcessForksThread
    failures    \* requests that failed

vars == <<full, chain, selfForged, peer, closed, handler, forks, thread, failures>>
peers == <<peer, closed>>

Idle == [pc |-> "idle"]
NewFork(c) == [conns |-> {c}, errors |-> 0, initialized |-> FALSE, current |-> 0, blocks |-> <<>>]

Init ==
    /\ full \in BOOLEAN
    /\ chain = FirstTip /\ selfForged = 0
    /\ peer = [c \in Conns |-> FirstPeerTip]
    /\ closed = {}
    /\ handler = [c \in Conns |-> Idle]
    /\ forks = << >>
    /\ thread = Idle
    /\ failures = 0

-----------------------------------------------------------------------------
(* Peers *)

\* A peer moves to a heavier chain (and broadcasts it).
PeerAdopts(c) ==
    /\ c \notin closed
    /\ \E t \in Tips : /\ TotalDifficulty[t] > TotalDifficulty[peer[c]]
                       /\ peer' = [peer EXCEPT ![c] = t]
    /\ UNCHANGED <<full, chain, selfForged, closed, handler, forks, thread, failures>>

\* A connection closes.
Close(c) ==
    /\ c \notin closed /\ Cardinality(closed) < MaxClosed
    /\ closed' = closed \cup {c}
    /\ UNCHANGED <<full, chain, selfForged, peer, handler, forks, thread, failures>>

-----------------------------------------------------------------------------
(* ChainUpdateProcess *)

Handle(c, h) == handler' = [handler EXCEPT ![c] = h]

\* The own chain is read.  The announcement of the same chain is dropped, a listed fork
\* gets another connection, a heavier chain becomes a fork; to the owner of a lighter one
\* the node's own chain is announced.
ChainUpdateProcess(c, t) ==
    LET heavier == TotalDifficulty[t] > TotalDifficulty[chain]
    IN  Handle(c, IF t = chain THEN Idle
                  ELSE IF t \in DOMAIN forks THEN [pc |-> "join", hash |-> t]
                  ELSE IF heavier THEN [pc |-> "add", hash |-> t] ELSE Idle)

\* A peer's chain arrives: its broadcast, or the answer to "get-chain", which is asked when
\* a connection is new and by the polls.  What it says may be old when it is acted on.
ContinuouslyDownloadChain(c) ==
    /\ c \notin closed /\ handler[c] = Idle
    /\ ChainUpdateProcess(c, peer[c])
    /\ UNCHANGED <<full, chain, selfForged, peers, forks, thread, failures>>

\* Mutant: the new fork replaces a listed one.
AddForkOver(c) ==
    /\ handler[c].pc = "add"
    /\ forks' = (handler[c].hash :> NewFork(c)) @@ forks
    /\ Handle(c, Idle)
    /\ UNCHANGED <<full, chain, selfForged, peers, thread, failures>>

\* LoadOrStore: if another goroutine listed the fork meanwhile, nothing changes.
AddFork(c) ==
    /\ handler[c].pc = "add"
    /\ forks' = [h \in DOMAIN forks \cup {handler[c].hash} |-> IF h \in DOMAIN forks THEN forks[h] ELSE NewFork(c)]
    /\ Handle(c, Idle)
    /\ UNCHANGED <<full, chain, selfForged, peers, thread, failures>>

\* The thread holds the lock of a fork while it downloads.
Locked(h) == thread.pc \in {"hash", "block", "remaining"} /\ thread.hash = h

AddConn(c) ==
    /\ handler[c].pc = "join"
    /\ ~Locked(handler[c].hash)
    /\ forks' = [forks EXCEPT ![handler[c].hash].conns = @ \cup {c}]
    /\ Handle(c, Idle)
    /\ UNCHANGED <<full, chain, selfForged, peers, thread, failures>>

-----------------------------------------------------------------------------
(* ConsensusProcessForksThread *)

Fork == forks[thread.hash]
Goto(pc) == thread' = [pc |-> pc, hash |-> thread.hash]

GetBestFork ==
    /\ thread = Idle
    /\ \E h \in DOMAIN forks :
          /\ \A o \in DOMAIN forks : TotalDifficulty[o] <= TotalDifficulty[h]
          /\ thread' = [pc |-> "fork", hash |-> h]
    /\ UNCHANGED <<full, chain, selfForged, peers, handler, forks, failures>>

\* A node that is not full takes the fork at its word.
SimulateBlock ==
    /\ ~full /\ thread.pc = "fork"
    /\ chain' = thread.hash /\ selfForged' = 0
    /\ Goto("remove")
    /\ UNCHANGED <<full, peers, handler, forks, failures>>

\* downloadFork: the own chain is read once, and the fork is dropped if it is no better.
DownloadFork ==
    /\ full /\ thread.pc = "fork"
    /\ thread' = CASE TotalDifficulty[thread.hash] <= TotalDifficulty[chain] -> [pc |-> "remove", hash |-> thread.hash]
                 []   TotalDifficulty[thread.hash] > TotalDifficulty[chain] /\ Fork.initialized
                          -> [pc |-> "remaining", hash |-> thread.hash, left |-> FORK_MAX_DOWNLOAD]
                 []   OTHER -> [pc |-> "hash", hash |-> thread.hash, height |-> ChainHeight(chain), self |-> selfForged,
                                start |-> Min({ChainHeight(thread.hash), ChainHeight(chain)})]
    /\ UNCHANGED <<full, chain, selfForged, peers, handler, forks, failures>>

\* The fork starts too far below the tip of the own chain.
TooDeep == thread.height - thread.start > FORK_MAX_UNCLE_ALLOWED + thread.self

Open == Fork.conns \ closed

\* fork.errors is incremented, for a failed request (there are at most MaxFailures of
\* them) or for an answer that does not fit.
Failed(failed) ==
    /\ failed => failures < MaxFailures
    /\ failures' = IF failed THEN failures + 1 ELSE failures
    /\ forks' = [forks EXCEPT ![thread.hash].errors = @ + 1]

GivesUp == Fork.errors > MaxErrors \/ Open = {}

\* Mutant: the search ends one block above the last shared one.
SearchEndsAbove ==
    /\ thread.pc = "hash"
    /\ \/ thread.start = 0
       \/ \E c \in Open : OpenLoadBlockHash(peer[c], thread.start - 1) \cap OpenLoadBlockHash(chain, thread.start - 1) # {}
    /\ forks' = [forks EXCEPT ![thread.hash].initialized = TRUE,
                              ![thread.hash].current = thread.start + Len(Fork.blocks) + 1]
    /\ thread' = [pc |-> "remaining", hash |-> thread.hash, left |-> FORK_MAX_DOWNLOAD]
    /\ UNCHANGED <<full, chain, selfForged, peers, handler, failures>>

\* The last shared block is found, or there is none: the download goes on after the
\* blocks found on the way.
SearchEnds ==
    /\ thread.pc = "hash"
    /\ \/ thread.start = 0
       \/ /\ ~TooDeep /\ ~GivesUp
          /\ \E c \in Open : OpenLoadBlockHash(peer[c], thread.start - 1) \cap OpenLoadBlockHash(chain, thread.start - 1) # {}
    /\ forks' = [forks EXCEPT ![thread.hash].initialized = TRUE,
                              ![thread.hash].current = thread.start + Len(Fork.blocks)]
    /\ thread' = [pc |-> "remaining", hash |-> thread.hash, left |-> FORK_MAX_DOWNLOAD]
    /\ UNCHANGED <<full, chain, selfForged, peers, handler, failures>>

SearchGivesUp ==
    /\ thread.pc = "hash"
    /\ thread.start # 0 /\ (TooDeep \/ GivesUp)
    /\ Goto("remove")
    /\ UNCHANGED <<full, chain, selfForged, peers, handler, forks, failures>>

\* A peer's block hash at the height differs from the own one: its block is asked for.
DownloadBlockHash ==
    /\ thread.pc = "hash"
    /\ thread.start # 0 /\ ~TooDeep /\ ~GivesUp
    /\ \E c \in Open : \E b \in OpenLoadBlockHash(peer[c], thread.start - 1) :
          /\ b \notin OpenLoadBlockHash(chain, thread.start - 1)
          /\ thread' = [pc |-> "block", hash |-> thread.hash, height |-> thread.height, self |-> thread.self,
                        start |-> thread.start, conn |-> c, expected |-> b]
    /\ UNCHANGED <<full, chain, selfForged, peers, handler, forks, failures>>

\* The request fails, or the peer's chain is shorter by now.
BlockHashFails ==
    /\ thread.pc = "hash"
    /\ thread.start # 0 /\ ~TooDeep /\ ~GivesUp
    /\ \E c \in Open : Failed(OpenLoadBlockHash(peer[c], thread.start - 1) # {})
    /\ UNCHANGED <<full, chain, selfForged, peers, handler, thread>>

\* Back to the loop, at the height start.
Search(start) ==
    thread' = [pc |-> "hash", hash |-> thread.hash, height |-> thread.height, self |-> thread.self, start |-> start]

DownloadUncle ==
    /\ thread.pc = "block"
    /\ thread.conn \notin closed
    /\ OpenLoadBlockHash(peer[thread.conn], thread.start - 1) = {thread.expected}
    /\ forks' = [forks EXCEPT ![thread.hash].blocks = <<thread.expected>> \o @]
    /\ Search(thread.start - 1)
    /\ UNCHANGED <<full, chain, selfForged, peers, handler, failures>>

\* The request fails, or the peer's chain has changed since it sent the hash.
UncleFails ==
    /\ thread.pc = "block"
    /\ Failed(thread.conn \notin closed /\ OpenLoadBlockHash(peer[thread.conn], thread.start - 1) = {thread.expected})
    /\ Search(thread.start)
    /\ UNCHANGED <<full, chain, selfForged, peers, handler>>

\* downloadRemainingBlocks: at most FORK_MAX_DOWNLOAD requests.
RemainingWanted == thread.pc = "remaining" /\ thread.left > 0 /\ Fork.current # ChainHeight(thread.hash)

\* Mutant: a block is asked for once more.
DownloadRemainingBlockStuck ==
    /\ RemainingWanted /\ ~GivesUp
    /\ \E c \in Open : \E b \in OpenLoadBlockHash(peer[c], Fork.current) :
          forks' = [forks EXCEPT ![thread.hash].blocks = Append(@, b)]
    /\ thread' = [thread EXCEPT !.left = @ - 1]
    /\ UNCHANGED <<full, chain, selfForged, peers, handler, failures>>

\* Any of the peers that announced the fork, with whatever chain it has by now.
DownloadRemainingBlock ==
    /\ RemainingWanted /\ ~GivesUp
    /\ \E c \in Open : \E b \in OpenLoadBlockHash(peer[c], Fork.current) :
          forks' = [forks EXCEPT ![thread.hash].blocks = Append(@, b), ![thread.hash].current = @ + 1]
    /\ thread' = [thread EXCEPT !.left = @ - 1]
    /\ UNCHANGED <<full, chain, selfForged, peers, handler, failures>>

RemainingFails ==
    /\ RemainingWanted /\ ~GivesUp
    /\ \E c \in Open : Failed(OpenLoadBlockHash(peer[c], Fork.current) # {})
    /\ thread' = [thread EXCEPT !.left = @ - 1]
    /\ UNCHANGED <<full, chain, selfForged, peers, handler>>

RemainingEnds ==
    /\ thread.pc = "remaining"
    /\ ~RemainingWanted \/ GivesUp
    /\ thread' = [pc |-> IF Fork.blocks = <<>> \/ (RemainingWanted /\ GivesUp) THEN "remove" ELSE "blocks",
                  hash |-> thread.hash]
    /\ UNCHANGED <<full, chain, selfForged, peers, handler, forks, failures>>

\* The blocks that continue one another from the own block before the first of them.
Linked(blocks, t) ==
    LET first == Prev[blocks[1]]
        linked == {n \in 1..Len(blocks) : \A i \in 2..n : Prev[blocks[i]] = blocks[i - 1]}
    IN  IF first \in Chain[t] \cup {Genesis} THEN {blocks[n] : n \in linked} ELSE {}

\* Blockchain.AddBlocks: the blocks that are in the chain are skipped, and the longest
\* chain the others make is kept if it is heavier (Blockchain.tla).
AddBlocks(t, blocks) ==
    LET known == Max({0} \cup {i \in 1..Len(blocks) : blocks[i] \in Chain[t]})
        new == SubSeq(blocks, known + 1, Len(blocks))
        ends == IF new = <<>> THEN {} ELSE Linked(new, t)
    IN  IF ends = {} THEN t
        ELSE LET best == CHOOSE b \in ends : \A o \in ends : ChainHeight(o) <= ChainHeight(b)
             IN  IF TotalDifficulty[best] > TotalDifficulty[t] THEN best ELSE t

\* A fork of which more is to come stays listed; the others, and the refused ones, go.
ProcessBlocks ==
    /\ thread.pc = "blocks"
    /\ chain' = AddBlocks(chain, Fork.blocks)
    /\ LET kept == chain' # chain /\ Fork.current < ChainHeight(thread.hash)
       IN  /\ forks' = IF kept THEN [forks EXCEPT ![thread.hash].blocks = <<>>, ![thread.hash].errors = 0]
                       ELSE forks
           /\ IF kept THEN thread' = Idle ELSE Goto("remove")
    /\ selfForged' = IF chain' # chain THEN 0 ELSE selfForged
    /\ UNCHANGED <<full, peers, handler, failures>>

\* A goroutine that waits to add its connection adds it to a fork nobody sees.
RemoveFork ==
    /\ thread.pc = "remove"
    /\ forks' = [h \in DOMAIN forks \ {thread.hash} |-> forks[h]]
    /\ handler' = [c \in Conns |-> IF handler[c].pc = "join" /\ handler[c].hash = thread.hash
                                   THEN Idle ELSE handler[c]]
    /\ thread' = Idle
    /\ UNCHANGED <<full, chain, selfForged, peers, failures>>

\* The node's own forger adds a block.
Forge ==
    /\ full
    /\ \E b \in Forged : Prev[b] = chain /\ chain' = b
    /\ selfForged' = selfForged + 1
    /\ UNCHANGED <<full, peers, handler, forks, thread, failures>>

-----------------------------------------------------------------------------

ThreadStep ==
    \/ GetBestFork \/ SimulateBlock \/ DownloadFork
    \/ SearchEnds \/ SearchGivesUp \/ DownloadBlockHash \/ BlockHashFails
    \/ DownloadUncle \/ UncleFails
    \/ DownloadRemainingBlock \/ RemainingFails \/ RemainingEnds
    \/ ProcessBlocks \/ RemoveFork

\* The announcements of a connection are taken in turn.
HandlerStep(c) == ContinuouslyDownloadChain(c) \/ AddFork(c) \/ AddConn(c)

Next ==
    \/ \E c \in Conns : PeerAdopts(c) \/ Close(c) \/ HandlerStep(c)
    \/ ThreadStep
    \/ Forge

\* The goroutines run and the polls go on.  A fork's lock, which the thread takes again
\* and again, is a Go mutex: a goroutine that waits for it gets it in the end.
Fairness == WF_vars(ThreadStep) /\ \A c \in Conns : SF_vars(HandlerStep(c))

Spec == Init /\ [][Next]_vars /\ Fairness

-----------------------------------------------------------------------------
(* Properties *)

ForkType == [conns : SUBSET Conns, errors : 0..(MaxErrors + 1), initialized : BOOLEAN,
             current : Nat, blocks : Seq(Blocks)]

\* The listed forks are chains somebody has, with no more errors than are counted before
\* the download is given up (Fork), and the thread works on a listed fork (execute).
TypeOK ==
    /\ full \in BOOLEAN /\ chain \in Hashes /\ selfForged \in Nat
    /\ peer \in [Conns -> Tips] /\ closed \subseteq Conns
    /\ DOMAIN forks \subseteq Tips
    /\ \A h \in DOMAIN forks : forks[h] \in ForkType
    /\ thread # Idle => thread.hash \in DOMAIN forks
    /\ \A c \in Conns : handler[c].pc = "join" => handler[c].hash \in DOMAIN forks

\* The blocks of a fork have consecutive heights whoever sent them and whatever chains the
\* senders had by then, they end below the height the download goes on with, and that does
\* not pass the fork's end: AddBlocks is never offered a gap (downloadFork,
\* downloadRemainingBlocks).
ForkBlocksAreConsecutive ==
    \A h \in DOMAIN forks :
        LET f == forks[h]
            searching == thread.pc \in {"hash", "block"} /\ thread.hash = h
            first == IF searching THEN thread.start ELSE f.current - Len(f.blocks)
        IN  /\ f.current <= ChainHeight(h)
            /\ f.initialized \/ searching =>
                  \A i \in 1..Len(f.blocks) : BlockHeight(f.blocks[i]) = first + i - 1

\* No announcement, and no other goroutine, takes back what the download of a listed fork
\* has reached: its connections and its place in the fork (addFork's LoadOrStore, AddConn).
ProgressIsKept ==
    [][\A h \in DOMAIN forks \cap DOMAIN forks' :
          /\ forks[h].conns \subseteq forks'[h].conns
          /\ forks[h].current <= forks'[h].current
          /\ forks[h].initialized => forks'[h].initialized]_vars

\* The height of the last block that two chains share, counted in blocks.
Shared(t, u) == Cardinality(Chain[t] \cap Chain[u])

\* What the fork thread can adopt when the own chain is t: the fork does not start too deep
\* (TooDeep), and the first blocks it downloads are heavier than the own chain already.
Adoptable(t, u) ==
    LET common == Shared(t, u)
        batch == Min({ChainHeight(u), Min({ChainHeight(u), ChainHeight(t)}) + FORK_MAX_DOWNLOAD})
        first == CHOOSE b \in Chain[u] : ChainHeight(b) = batch
    IN  /\ ChainHeight(t) - Max({common, 1}) <= FORK_MAX_UNCLE_ALLOWED + selfForged
        /\ TotalDifficulty[first] > TotalDifficulty[t]

\* In the end the node's chain is as heavy as that of each peer it is connected to, unless
\* that chain is one the fork thread refuses: whatever was lost, raced or failed on the way,
\* the next poll finds the fork again (execute, ChainUpdateProcess, continuouslyDownloadChain).
Converges ==
    \A c \in Conns :
        <>[](\/ c \in closed
             \/ TotalDifficulty[peer[c]] <= TotalDifficulty[chain]
             \/ full /\ ~Adoptable(chain, peer[c]))

\* The registry of forks holds downloads that can go on (Forks, Fork, downloadFork).
ForksAreSound == TypeOK /\ ForkBlocksAreConsecutive
=============================================================================
