-------------------------- MODULE ConsensusProofs --------------------------
(***************************************************************************)
(* Proofs about the registry of forks: whatever the peers announce, adopt  *)
(* and send, and whatever fails or closes meanwhile, the blocks of every   *)
(* fork are consecutive and end where the download goes on, the thread     *)
(* works on a listed fork, and nobody takes back what a download has       *)
(* reached.                                                                *)
(*                                                                         *)
(* The invariant says, fork by fork, how far its download is: not begun,   *)
(* searching downwards from a height (its blocks start there), or begun    *)
(* (its blocks end at the current height).                                 *)
(***************************************************************************)
EXTENDS Consensus, TLAPS, FiniteSetTheorems, SequenceTheorems, NaturalsInduction, WellFoundedInduction

\* The records of the thread at each of its places.
OnFork == [pc : {"fork", "remove", "blocks"}, hash : Tips]
OnRemaining == [pc : {"remaining"}, hash : Tips, left : Nat]
OnHash == [pc : {"hash"}, hash : Tips, height : Nat, self : Nat, start : Nat]
OnBlock == [pc : {"block"}, hash : Tips, height : Nat, self : Nat, start : Nat, conn : Conns, expected : Blocks]
ThreadType == {Idle} \cup OnFork \cup OnRemaining \cup OnHash \cup OnBlock

HandlerType == {Idle} \cup [pc : {"join", "add"}, hash : Tips]

\* The types, with those of the goroutines.
Types ==
    /\ full \in BOOLEAN /\ chain \in Hashes /\ selfForged \in Nat
    /\ peer \in [Conns -> Tips] /\ closed \subseteq Conns
    /\ DOMAIN forks \subseteq Tips /\ forks \in [DOMAIN forks -> ForkType]
    /\ thread \in ThreadType /\ handler \in [Conns -> HandlerType]

\* The blocks have consecutive heights from the given one on.
Heights(blocks, first) == \A i \in 1..Len(blocks) : BlockHeight(blocks[i]) = first + i - 1

Searching(th, h) == th.pc \in {"hash", "block"} /\ th.hash = h

\* How far the download of a fork is.
Progress(h, f, th) ==
    /\ f.current <= ChainHeight(h)
    /\ Searching(th, h) => /\ ~f.initialized /\ f.current = 0
                           /\ th.start + Len(f.blocks) <= ChainHeight(h) /\ Heights(f.blocks, th.start)
    /\ ~Searching(th, h) /\ f.initialized => Heights(f.blocks, f.current - Len(f.blocks))
    /\ ~Searching(th, h) /\ ~f.initialized =>
          f.current = 0 /\ (f.blocks = <<>> \/ (th.pc = "remove" /\ th.hash = h))

\* What the thread knows of the fork it works on.
OnListed(th, fs) ==
    /\ th # Idle => th.hash \in DOMAIN fs
    /\ th.pc = "block" => fs[th.hash].errors <= MaxErrors /\ th.start > 0
    /\ th.pc \in {"remaining", "blocks"} => fs[th.hash].initialized

\* A goroutine that joins a fork joins a listed one.
Joined == \A c \in Conns : handler[c].pc = "join" => handler[c].hash \in DOMAIN forks

Downloads == \A h \in DOMAIN forks : Progress(h, forks[h], thread)

ForksInvariant == Types /\ OnListed(thread, forks) /\ Joined /\ Downloads

-----------------------------------------------------------------------------
(* Chains, and the records of the thread *)

\* A chain is finite: it has a height, and no chain is higher than there are blocks.
LEMMA HeightType ==
  /\ Cardinality(Blocks) \in Nat
  /\ \A t \in Hashes : ChainHeight(t) \in Nat /\ ChainHeight(t) <= Cardinality(Blocks)
<1>1. IsFiniteSet(Blocks) /\ Chain \in [Hashes -> SUBSET Blocks]
  BY TreeAssumption
<1>2. ASSUME NEW t \in Hashes
      PROVE  ChainHeight(t) \in Nat /\ ChainHeight(t) <= Cardinality(Blocks)
  <2>1. Chain[t] \in SUBSET Blocks
    BY <1>1
  <2>2. IsFiniteSet(Chain[t]) /\ Cardinality(Chain[t]) <= Cardinality(Blocks)
    BY <1>1, <2>1, FS_Subset
  <2>. QED
    BY <2>2, FS_CardinalityType DEF ChainHeight
<1>. QED
  BY <1>1, <1>2, FS_CardinalityType

\* A chain somebody has is a hash.
LEMMA TipsAreHashes == Tips \subseteq Blocks /\ Tips \subseteq Hashes
BY TreeAssumption DEF Hashes

\* A block that is loaded stands at the height it was asked for.
LEMMA LoadedBlock ==
  ASSUME NEW t \in Hashes, NEW n, NEW b \in OpenLoadBlockHash(t, n)
  PROVE  b \in Blocks /\ BlockHeight(b) = n
<1>1. b \in Chain[t] /\ BlockHeight(b) = n
  BY DEF OpenLoadBlockHash
<1>2. Chain[t] \in SUBSET Blocks
  BY TreeAssumption
<1>. QED
  BY <1>1, <1>2

\* The thread's record is known from its place.
LEMMA ThreadAt ==
  ASSUME NEW th \in ThreadType
  PROVE  /\ th.pc \in {"fork", "remove", "blocks"} => th \in OnFork
         /\ th.pc = "remaining" => th \in OnRemaining
         /\ th.pc = "hash" => th \in OnHash
         /\ th.pc = "block" => th \in OnBlock
         /\ th.pc = "idle" <=> th = Idle
         /\ th.pc \in {"idle", "fork", "remove", "blocks", "remaining", "hash", "block"}
         /\ th # Idle => th.hash \in Tips
<1>1. Idle.pc = "idle"
  BY DEF Idle
<1>2. th \in OnFork => th.pc \in {"fork", "remove", "blocks"} /\ th.hash \in Tips
  BY DEF OnFork
<1>3. th \in OnRemaining => th.pc = "remaining" /\ th.hash \in Tips
  BY DEF OnRemaining
<1>4. th \in OnHash => th.pc = "hash" /\ th.hash \in Tips
  BY DEF OnHash
<1>5. th \in OnBlock => th.pc = "block" /\ th.hash \in Tips
  BY DEF OnBlock
<1>. QED
  BY <1>1, <1>2, <1>3, <1>4, <1>5 DEF ThreadType

\* The fields of a fork.
LEMMA ForkFields ==
  ASSUME NEW f \in ForkType
  PROVE  /\ f.conns \in SUBSET Conns /\ f.errors \in 0..(MaxErrors + 1) /\ f.initialized \in BOOLEAN
         /\ f.current \in Nat /\ f.blocks \in Seq(Blocks)
BY DEF ForkType

\* What is said of a fork depends on its download alone ...
LEMMA SameDownload ==
  ASSUME NEW h, NEW f, NEW g, NEW th, Progress(h, f, th),
         g.current = f.current, g.initialized = f.initialized, g.blocks = f.blocks
  PROVE  Progress(h, g, th)
BY DEF Progress

\* ... and not on a thread that works on another one.
LEMMA OtherFork ==
  ASSUME NEW h, NEW f, NEW th, NEW new, Progress(h, f, th),
         th.pc \in {"hash", "block", "remove"} => th.hash # h,
         new.pc \in {"hash", "block", "remove"} => new.hash # h
  PROVE  Progress(h, f, new)
BY DEF Progress, Searching

-----------------------------------------------------------------------------
(* Steps of the thread *)

\* A step of the thread changes the fork it works on, and nothing else of the registry.
LEMMA ForkMoved ==
  ASSUME ForksInvariant, NEW h \in DOMAIN forks, thread.hash = h \/ thread = Idle, NEW g \in ForkType,
         forks' = [forks EXCEPT ![h] = g], thread' \in ThreadType,
         thread' = Idle \/ thread'.hash = h,
         Progress(h, g, thread'),
         thread'.pc = "block" => g.errors <= MaxErrors /\ thread'.start > 0,
         thread'.pc \in {"remaining", "blocks"} => g.initialized,
         full' = full, chain' \in Hashes, selfForged' \in Nat, peer' = peer, closed' = closed,
         handler' = handler
  PROVE  ForksInvariant'
<1>0. Types /\ OnListed(thread, forks) /\ Joined /\ Downloads
  BY DEF ForksInvariant
<1>1. /\ DOMAIN forks' = DOMAIN forks /\ forks'[h] = g
      /\ \A o \in DOMAIN forks : o # h => forks'[o] = forks[o]
      /\ forks' \in [DOMAIN forks' -> ForkType]
  BY <1>0 DEF Types
<1>2. Types'
  BY <1>0, <1>1 DEF Types
<1>3. OnListed(thread', forks')
  BY <1>1, ThreadAt DEF OnListed
<1>4. Joined'
  BY <1>0, <1>1 DEF Joined
<1>5. Downloads'
  <2>1. ASSUME NEW o \in DOMAIN forks, o # h
        PROVE  Progress(o, forks[o], thread')
    <3>1. Progress(o, forks[o], thread)
      BY <1>0 DEF Downloads
    <3>2. thread.pc \in {"hash", "block", "remove"} => thread.hash # o
      BY <2>1 DEF Idle
    <3>3. thread'.pc \in {"hash", "block", "remove"} => thread'.hash # o
      BY <2>1 DEF Idle
    <3>. QED
      BY <3>1, <3>2, <3>3, OtherFork
  <2>. QED
    BY <1>1, <2>1 DEF Downloads
<1>. QED
  BY <1>2, <1>3, <1>4, <1>5 DEF ForksInvariant

\* The fork that the thread works on.
LEMMA WorkingOn ==
  ASSUME ForksInvariant, thread # Idle
  PROVE  /\ thread.hash \in DOMAIN forks /\ thread.hash \in Tips /\ Fork = forks[thread.hash]
         /\ Fork \in ForkType /\ Progress(thread.hash, Fork, thread)
         /\ ChainHeight(thread.hash) \in Nat
<1>1. thread.hash \in DOMAIN forks /\ DOMAIN forks \subseteq Tips /\ forks \in [DOMAIN forks -> ForkType]
  BY DEF ForksInvariant, OnListed, Types
<1>2. Fork = forks[thread.hash]
  BY DEF Fork
<1>3. Progress(thread.hash, forks[thread.hash], thread)
  BY <1>1 DEF ForksInvariant, Downloads
<1>. QED
  BY <1>1, <1>2, <1>3, TipsAreHashes, HeightType

\* A step of the thread that leaves the registry alone.
LEMMA ThreadMoved ==
  ASSUME ForksInvariant, NEW h \in DOMAIN forks, thread.hash = h \/ thread = Idle,
         forks' = forks, thread' \in ThreadType, thread' = Idle \/ thread'.hash = h,
         Progress(h, forks[h], thread'),
         thread'.pc = "block" => forks[h].errors <= MaxErrors /\ thread'.start > 0,
         thread'.pc \in {"remaining", "blocks"} => forks[h].initialized,
         full' = full, chain' \in Hashes, selfForged' \in Nat, peer' = peer, closed' = closed,
         handler' = handler
  PROVE  ForksInvariant'
<1>1. forks \in [DOMAIN forks -> ForkType]
  BY DEF ForksInvariant, Types
<1>2. forks[h] \in ForkType /\ forks' = [forks EXCEPT ![h] = forks[h]]
  BY <1>1
<1>. QED
  BY <1>2, ForkMoved

\* The thread takes a fork.
LEMMA GetBestForkInvariant ==
  ASSUME ForksInvariant, GetBestFork
  PROVE  ForksInvariant'
<1>0. Types /\ Downloads
  BY DEF ForksInvariant
<1>1. PICK h \in DOMAIN forks : thread' = [pc |-> "fork", hash |-> h]
  BY DEF GetBestFork
<1>2. /\ thread = Idle /\ full' = full /\ chain' = chain /\ selfForged' = selfForged /\ peer' = peer
      /\ closed' = closed /\ handler' = handler /\ forks' = forks
  BY DEF GetBestFork, peers
<1>3. thread' \in ThreadType /\ thread'.hash = h /\ thread'.pc = "fork"
  BY <1>0, <1>1 DEF Types, ThreadType, OnFork
<1>4. Progress(h, forks[h], thread')
  <2>1. Progress(h, forks[h], thread) /\ thread.pc = "idle"
    BY <1>0, <1>2 DEF Downloads, Idle
  <2>. QED
    BY <1>3, <2>1, OtherFork
<1>5. chain' \in Hashes /\ selfForged' \in Nat
  BY <1>0, <1>2 DEF Types
<1>. QED
  BY <1>2, <1>3, <1>4, <1>5, ThreadMoved

\* A node that is not full takes the fork's last block for its own.
LEMMA SimulateInvariant ==
  ASSUME ForksInvariant, SimulateBlock
  PROVE  ForksInvariant'
<1>0. Types
  BY DEF ForksInvariant
<1>1. /\ thread.pc = "fork" /\ chain' = thread.hash /\ selfForged' = 0
      /\ thread' = [pc |-> "remove", hash |-> thread.hash]
      /\ full' = full /\ peer' = peer /\ closed' = closed /\ handler' = handler /\ forks' = forks
  BY DEF SimulateBlock, Goto, peers
<1>2. thread # Idle
  BY <1>1 DEF Idle
<1>3. /\ thread.hash \in DOMAIN forks /\ thread.hash \in Tips
      /\ Progress(thread.hash, forks[thread.hash], thread)
  BY <1>2, WorkingOn
<1>4. thread' \in ThreadType /\ thread'.hash = thread.hash /\ thread'.pc = "remove"
  BY <1>1, <1>3 DEF ThreadType, OnFork
<1>5. Progress(thread.hash, forks[thread.hash], thread')
  BY <1>1, <1>3, <1>4 DEF Progress, Searching
<1>6. chain' \in Hashes /\ selfForged' \in Nat
  BY <1>1, <1>3, TipsAreHashes
<1>. QED
  BY <1>1, <1>3, <1>4, <1>5, <1>6, ThreadMoved

\* The smaller of two heights.
LEMMA SmallerHeight ==
  ASSUME NEW a \in Nat, NEW b \in Nat
  PROVE  Min({a, b}) \in Nat /\ Min({a, b}) <= a /\ Min({a, b}) <= b
<1>1. \E x \in {a, b} : \A y \in {a, b} : x <= y
  OBVIOUS
<1>2. Min({a, b}) \in {a, b} /\ \A y \in {a, b} : Min({a, b}) <= y
  BY <1>1 DEF Min
<1>. QED
  BY <1>2

\* downloadFork compares the fork with the own chain.
LEMMA DownloadForkInvariant ==
  ASSUME ForksInvariant, DownloadFork
  PROVE  ForksInvariant'
<1>0. Types
  BY DEF ForksInvariant
<1>1. PICK h : h = thread.hash
  OBVIOUS
<1>2. /\ thread.pc = "fork" /\ full' = full /\ chain' = chain /\ selfForged' = selfForged
      /\ peer' = peer /\ closed' = closed /\ handler' = handler /\ forks' = forks
  BY DEF DownloadFork, peers
<1>3. thread # Idle
  BY <1>2 DEF Idle
<1>4. /\ h \in DOMAIN forks /\ h \in Tips /\ Fork = forks[h] /\ forks[h] \in ForkType
      /\ Progress(h, forks[h], thread) /\ ChainHeight(h) \in Nat
  BY <1>1, <1>3, WorkingOn
<1>5. \/ thread' = [pc |-> "remove", hash |-> h]
      \/ thread' = [pc |-> "remaining", hash |-> h, left |-> FORK_MAX_DOWNLOAD] /\ forks[h].initialized
      \/ /\ thread' = [pc |-> "hash", hash |-> h, height |-> ChainHeight(chain), self |-> selfForged,
                       start |-> Min({ChainHeight(h), ChainHeight(chain)})]
         /\ ~(TotalDifficulty[h] > TotalDifficulty[chain] /\ forks[h].initialized)
         /\ ~(TotalDifficulty[h] <= TotalDifficulty[chain])
  BY <1>1, <1>4 DEF DownloadFork
<1>6. chain' \in Hashes /\ selfForged' \in Nat /\ ChainHeight(chain) \in Nat
  BY <1>0, <1>2, HeightType DEF Types
<1>7. CASE thread' = [pc |-> "remove", hash |-> h]
  <2>1. thread' \in ThreadType /\ thread'.hash = h /\ thread'.pc = "remove"
    BY <1>4, <1>7 DEF ThreadType, OnFork
  <2>2. Progress(h, forks[h], thread')
    BY <1>2, <1>4, <2>1 DEF Progress, Searching
  <2>. QED
    BY <1>1, <1>2, <1>4, <1>6, <2>1, <2>2, ThreadMoved
<1>8. CASE thread' = [pc |-> "remaining", hash |-> h, left |-> FORK_MAX_DOWNLOAD] /\ forks[h].initialized
  <2>1. thread' \in ThreadType /\ thread'.hash = h /\ thread'.pc = "remaining"
    BY <1>4, <1>8, LimitsAssumption DEF ThreadType, OnRemaining
  <2>2. Progress(h, forks[h], thread')
    BY <1>2, <1>4, <2>1 DEF Progress, Searching
  <2>. QED
    BY <1>1, <1>2, <1>4, <1>6, <1>8, <2>1, <2>2, ThreadMoved
<1>9. CASE /\ thread' = [pc |-> "hash", hash |-> h, height |-> ChainHeight(chain), self |-> selfForged,
                         start |-> Min({ChainHeight(h), ChainHeight(chain)})]
           /\ ~(TotalDifficulty[h] > TotalDifficulty[chain] /\ forks[h].initialized)
           /\ ~(TotalDifficulty[h] <= TotalDifficulty[chain])
  <2>1. PICK m \in Nat : m = Min({ChainHeight(h), ChainHeight(chain)}) /\ m <= ChainHeight(h)
    BY <1>4, <1>6, SmallerHeight
  <2>2. thread' \in OnHash /\ thread'.hash = h /\ thread'.pc = "hash" /\ thread'.start = m
    BY <1>0, <1>4, <1>6, <1>9, <2>1 DEF OnHash, Types
  <2>3. thread' \in ThreadType
    BY <2>2 DEF ThreadType
  <2>4. ~forks[h].initialized
    <3>1. TotalDifficulty[h] \in Int /\ TotalDifficulty[chain] \in Int
      BY <1>0, <1>4, TipsAreHashes, TreeAssumption DEF Types
    <3>. QED
      BY <1>9, <3>1
  <2>5. forks[h].current = 0 /\ forks[h].blocks = <<>>
    BY <1>2, <1>4, <2>4 DEF Progress, Searching
  <2>6. Progress(h, forks[h], thread')
    <3>1. Len(forks[h].blocks) = 0
      BY <2>5
    <3>2. Heights(forks[h].blocks, m)
      BY <3>1 DEF Heights
    <3>3. m + Len(forks[h].blocks) <= ChainHeight(h) /\ 0 <= ChainHeight(h)
      BY <1>4, <2>1, <3>1
    <3>. QED
      BY <2>2, <2>4, <2>5, <3>2, <3>3 DEF Progress, Searching
  <2>. QED
    BY <1>1, <1>2, <1>4, <1>6, <2>2, <2>3, <2>6, ThreadMoved
<1>. QED
  BY <1>5, <1>7, <1>8, <1>9

\* What the thread knows while it searches.
LEMMA SearchState ==
  ASSUME ForksInvariant, thread.pc \in {"hash", "block"}
  PROVE  /\ thread.hash \in DOMAIN forks /\ thread.hash \in Tips /\ Fork = forks[thread.hash]
         /\ Fork \in ForkType /\ Progress(thread.hash, Fork, thread)
         /\ thread.start \in Nat /\ thread.height \in Nat /\ thread.self \in Nat
         /\ ~Fork.initialized /\ Fork.current = 0 /\ Fork.blocks \in Seq(Blocks)
         /\ ChainHeight(thread.hash) \in Nat /\ thread.start + Len(Fork.blocks) <= ChainHeight(thread.hash)
         /\ Heights(Fork.blocks, thread.start)
<1>1. thread # Idle
  BY DEF Idle
<1>2. /\ thread.hash \in DOMAIN forks /\ thread.hash \in Tips /\ Fork = forks[thread.hash]
      /\ Fork \in ForkType /\ Progress(thread.hash, Fork, thread) /\ ChainHeight(thread.hash) \in Nat
  BY <1>1, WorkingOn
<1>3. thread.start \in Nat /\ thread.height \in Nat /\ thread.self \in Nat
  <2>1. thread \in ThreadType
    BY DEF ForksInvariant, Types
  <2>2. thread \in OnHash \/ thread \in OnBlock
    BY <2>1, ThreadAt
  <2>. QED
    BY <2>2 DEF OnHash, OnBlock
<1>4. Searching(thread, thread.hash)
  BY DEF Searching
<1>. QED
  BY <1>2, <1>3, <1>4, ForkFields DEF Progress

\* The search is over: the download goes on after the blocks found on the way.
LEMMA SearchEndsInvariant ==
  ASSUME ForksInvariant, SearchEnds
  PROVE  ForksInvariant'
<1>0. Types
  BY DEF ForksInvariant
<1>1. PICK h, f, n : h = thread.hash /\ f = forks[h] /\ n = thread.start + Len(f.blocks)
  OBVIOUS
<1>2. thread.pc = "hash" /\ full' = full /\ chain' = chain /\ selfForged' = selfForged
      /\ peer' = peer /\ closed' = closed /\ handler' = handler
  BY DEF SearchEnds, peers
<1>3. /\ h \in DOMAIN forks /\ h \in Tips /\ Fork = f /\ f \in ForkType
      /\ thread.start \in Nat /\ f.blocks \in Seq(Blocks)
      /\ ChainHeight(h) \in Nat /\ n <= ChainHeight(h) /\ Heights(f.blocks, thread.start)
  BY <1>1, <1>2, SearchState
<1>4. PICK g : g = [f EXCEPT !.initialized = TRUE, !.current = n]
  OBVIOUS
<1>5. n \in Nat /\ n - Len(f.blocks) = thread.start
  BY <1>1, <1>3, LenProperties
<1>6. /\ g \in ForkType /\ g.initialized /\ g.current = n /\ g.blocks = f.blocks
  BY <1>3, <1>4, <1>5 DEF ForkType
<1>7. forks' = [forks EXCEPT ![h] = g]
  <2>1. forks' = [forks EXCEPT ![h].initialized = TRUE, ![h].current = n]
    BY <1>1, <1>3 DEF SearchEnds
  <2>. QED
    BY <1>0, <1>1, <1>3, <1>4, <2>1 DEF Types
<1>8. thread' = [pc |-> "remaining", hash |-> h, left |-> FORK_MAX_DOWNLOAD]
  BY <1>1 DEF SearchEnds
<1>9. thread' \in ThreadType /\ thread'.hash = h /\ thread'.pc = "remaining"
  BY <1>3, <1>8, LimitsAssumption DEF ThreadType, OnRemaining
<1>10. Progress(h, g, thread')
  BY <1>3, <1>5, <1>6, <1>9 DEF Progress, Searching
<1>11. chain' \in Hashes /\ selfForged' \in Nat
  BY <1>0, <1>2 DEF Types
<1>. QED
  BY <1>1, <1>2, <1>3, <1>6, <1>7, <1>9, <1>10, <1>11, ForkMoved

\* The search is given up.
LEMMA SearchGivesUpInvariant ==
  ASSUME ForksInvariant, SearchGivesUp
  PROVE  ForksInvariant'
<1>0. Types
  BY DEF ForksInvariant
<1>1. PICK h : h = thread.hash
  OBVIOUS
<1>2. /\ thread.pc = "hash" /\ thread' = [pc |-> "remove", hash |-> h]
      /\ full' = full /\ chain' = chain /\ selfForged' = selfForged
      /\ peer' = peer /\ closed' = closed /\ handler' = handler /\ forks' = forks
  BY <1>1 DEF SearchGivesUp, Goto, peers
<1>3. /\ h \in DOMAIN forks /\ h \in Tips /\ Fork = forks[h] /\ ChainHeight(h) \in Nat
      /\ ~forks[h].initialized /\ forks[h].current = 0
  BY <1>1, <1>2, SearchState
<1>4. thread' \in ThreadType /\ thread'.hash = h /\ thread'.pc = "remove"
  BY <1>2, <1>3 DEF ThreadType, OnFork
<1>5. Progress(h, forks[h], thread')
  BY <1>3, <1>4 DEF Progress, Searching
<1>6. chain' \in Hashes /\ selfForged' \in Nat
  BY <1>0, <1>2 DEF Types
<1>. QED
  BY <1>1, <1>2, <1>3, <1>4, <1>5, <1>6, ThreadMoved

\* A peer's block at the height differs from the own one.
LEMMA DownloadBlockHashInvariant ==
  ASSUME ForksInvariant, DownloadBlockHash
  PROVE  ForksInvariant'
<1>0. Types
  BY DEF ForksInvariant
<1>1. PICK h, f : h = thread.hash /\ f = forks[h]
  OBVIOUS
<1>2. /\ thread.pc = "hash" /\ thread.start # 0 /\ ~GivesUp
      /\ full' = full /\ chain' = chain /\ selfForged' = selfForged
      /\ peer' = peer /\ closed' = closed /\ handler' = handler /\ forks' = forks
  BY DEF DownloadBlockHash, peers
<1>3. /\ h \in DOMAIN forks /\ h \in Tips /\ Fork = f /\ f \in ForkType /\ Progress(h, f, thread)
      /\ thread.start \in Nat /\ thread.height \in Nat /\ thread.self \in Nat
  BY <1>1, <1>2, SearchState
<1>4. PICK c \in Open, b \in Blocks :
         thread' = [pc |-> "block", hash |-> h, height |-> thread.height, self |-> thread.self,
                    start |-> thread.start, conn |-> c, expected |-> b]
  <2>1. PICK c \in Open : \E b \in OpenLoadBlockHash(peer[c], thread.start - 1) :
           thread' = [pc |-> "block", hash |-> h, height |-> thread.height, self |-> thread.self,
                      start |-> thread.start, conn |-> c, expected |-> b]
    BY <1>1 DEF DownloadBlockHash
  <2>2. PICK b \in OpenLoadBlockHash(peer[c], thread.start - 1) :
           thread' = [pc |-> "block", hash |-> h, height |-> thread.height, self |-> thread.self,
                      start |-> thread.start, conn |-> c, expected |-> b]
    BY <2>1
  <2>3. c \in Conns
    BY <1>3, ForkFields DEF Open
  <2>4. peer[c] \in Hashes
    BY <1>0, <2>3, TipsAreHashes DEF Types
  <2>5. b \in Blocks
    BY <2>4, LoadedBlock
  <2>. QED
    BY <2>2, <2>5
<1>5. c \in Conns
  BY <1>3, <1>4, ForkFields DEF Open
<1>6. thread' \in OnBlock /\ thread'.hash = h /\ thread'.pc = "block" /\ thread'.start = thread.start
  BY <1>3, <1>4, <1>5 DEF OnBlock
<1>7. thread' \in ThreadType
  BY <1>6 DEF ThreadType
<1>8. Progress(h, f, thread')
  BY <1>1, <1>2, <1>3, <1>6 DEF Progress, Searching
<1>9. f.errors <= MaxErrors /\ thread'.start > 0
  <2>1. ~(f.errors > MaxErrors)
    BY <1>2, <1>3 DEF GivesUp
  <2>. QED
    BY <1>2, <1>3, <1>6, <2>1, ForkFields, LimitsAssumption
<1>10. chain' \in Hashes /\ selfForged' \in Nat
  BY <1>0, <1>2 DEF Types
<1>. QED
  BY <1>1, <1>2, <1>3, <1>6, <1>7, <1>8, <1>9, <1>10, ThreadMoved

\* A failure counts an error of the fork, and leaves its download as it is.
LEMMA OneMoreError ==
  ASSUME ForksInvariant, thread # Idle, Fork.errors <= MaxErrors,
         forks' = [forks EXCEPT ![thread.hash].errors = @ + 1]
  PROVE  \E g \in ForkType : /\ forks' = [forks EXCEPT ![thread.hash] = g]
                             /\ g.initialized = Fork.initialized /\ g.current = Fork.current
                             /\ g.blocks = Fork.blocks
<1>0. Types
  BY DEF ForksInvariant
<1>1. PICK h, f : h = thread.hash /\ f = forks[h]
  OBVIOUS
<1>2. h \in DOMAIN forks /\ Fork = f /\ f \in ForkType
  BY <1>1, WorkingOn
<1>3. PICK g : g = [f EXCEPT !.errors = @ + 1]
  OBVIOUS
<1>4. f.errors + 1 \in 0..(MaxErrors + 1)
  BY <1>2, ForkFields, LimitsAssumption
<1>5. /\ g \in ForkType /\ g.initialized = f.initialized /\ g.current = f.current /\ g.blocks = f.blocks
  BY <1>2, <1>3, <1>4 DEF ForkType
<1>6. forks' = [forks EXCEPT ![h] = g]
  BY <1>0, <1>1, <1>2, <1>3 DEF Types
<1>. QED
  BY <1>1, <1>2, <1>5, <1>6

\* The hash at the height is not had.
LEMMA BlockHashFailsInvariant ==
  ASSUME ForksInvariant, BlockHashFails
  PROVE  ForksInvariant'
<1>0. Types
  BY DEF ForksInvariant
<1>1. PICK h, f : h = thread.hash /\ f = forks[h]
  OBVIOUS
<1>2. /\ thread.pc = "hash" /\ ~GivesUp /\ thread # Idle
      /\ full' = full /\ chain' = chain /\ selfForged' = selfForged
      /\ peer' = peer /\ closed' = closed /\ handler' = handler /\ thread' = thread
      /\ forks' = [forks EXCEPT ![thread.hash].errors = @ + 1]
  BY DEF BlockHashFails, Failed, peers, Idle
<1>3. /\ h \in DOMAIN forks /\ Fork = f /\ f \in ForkType /\ Progress(h, f, thread)
  BY <1>1, <1>2, SearchState
<1>4. Fork.errors <= MaxErrors
  BY <1>2, <1>3, ForkFields, LimitsAssumption DEF GivesUp
<1>5. PICK g \in ForkType : /\ forks' = [forks EXCEPT ![h] = g] /\ g.initialized = f.initialized
                            /\ g.current = f.current /\ g.blocks = f.blocks
  BY <1>1, <1>2, <1>3, <1>4, OneMoreError
<1>6. Progress(h, g, thread')
  BY <1>2, <1>3, <1>5, SameDownload
<1>7. chain' \in Hashes /\ selfForged' \in Nat /\ thread' \in ThreadType
  BY <1>0, <1>2 DEF Types
<1>. QED
  BY <1>1, <1>2, <1>3, <1>5, <1>6, <1>7, ForkMoved

\* A block before the others.
LEMMA BlockBefore ==
  ASSUME NEW blocks \in Seq(Blocks), NEW b \in Blocks, NEW n \in Nat, Heights(blocks, n + 1), BlockHeight(b) = n
  PROVE  /\ <<b>> \o blocks \in Seq(Blocks) /\ Len(<<b>> \o blocks) = Len(blocks) + 1
         /\ Heights(<<b>> \o blocks, n)
<1>1. /\ <<b>> \o blocks \in Seq(Blocks) /\ Len(<<b>> \o blocks) = Len(blocks) + 1 /\ Len(blocks) \in Nat
      /\ (<<b>> \o blocks)[1] = b
      /\ \A i \in 2..(Len(blocks) + 1) : (<<b>> \o blocks)[i] = blocks[i - 1]
  OBVIOUS
<1>2. PICK s : s = <<b>> \o blocks
  OBVIOUS
<1>3. ASSUME NEW i \in 1..(Len(blocks) + 1)
      PROVE  BlockHeight(s[i]) = n + i - 1
  <2>1. CASE i = 1
    BY <1>1, <1>2, <2>1
  <2>2. CASE i # 1
    <3>1. i - 1 \in 1..Len(blocks) /\ s[i] = blocks[i - 1]
      BY <1>1, <1>2, <2>2
    <3>2. BlockHeight(blocks[i - 1]) = (n + 1) + (i - 1) - 1
      BY <3>1 DEF Heights
    <3>. QED
      BY <3>1, <3>2
  <2>. QED
    BY <2>1, <2>2
<1>. QED
  BY <1>1, <1>2, <1>3 DEF Heights

\* A block after the others.
LEMMA BlockAfter ==
  ASSUME NEW blocks \in Seq(Blocks), NEW b \in Blocks, NEW n \in Int, Heights(blocks, n),
         BlockHeight(b) = n + Len(blocks)
  PROVE  /\ Append(blocks, b) \in Seq(Blocks) /\ Len(Append(blocks, b)) = Len(blocks) + 1
         /\ Heights(Append(blocks, b), n)
<1>1. /\ Append(blocks, b) \in Seq(Blocks) /\ Len(Append(blocks, b)) = Len(blocks) + 1 /\ Len(blocks) \in Nat
      /\ Append(blocks, b)[Len(blocks) + 1] = b
      /\ \A i \in 1..Len(blocks) : Append(blocks, b)[i] = blocks[i]
  OBVIOUS
<1>2. PICK s : s = Append(blocks, b)
  OBVIOUS
<1>3. ASSUME NEW i \in 1..(Len(blocks) + 1)
      PROVE  BlockHeight(s[i]) = n + i - 1
  <2>1. CASE i = Len(blocks) + 1
    BY <1>1, <1>2, <2>1
  <2>2. CASE i # Len(blocks) + 1
    <3>1. i \in 1..Len(blocks) /\ s[i] = blocks[i]
      BY <1>1, <1>2, <2>2
    <3>. QED
      BY <3>1 DEF Heights
  <2>. QED
    BY <2>1, <2>2
<1>. QED
  BY <1>1, <1>2, <1>3 DEF Heights

\* What the thread knows while it asks for a block.
LEMMA BlockState ==
  ASSUME ForksInvariant, thread.pc = "block"
  PROVE  /\ thread.conn \in Conns /\ thread.expected \in Blocks /\ Fork.errors <= MaxErrors
         /\ thread.start > 0
<1>1. thread \in ThreadType
  BY DEF ForksInvariant, Types
<1>2. thread \in OnBlock
  BY <1>1, ThreadAt
<1>3. thread.conn \in Conns /\ thread.expected \in Blocks
  BY <1>2 DEF OnBlock
<1>4. forks[thread.hash].errors <= MaxErrors /\ thread.start > 0
  BY DEF ForksInvariant, OnListed
<1>. QED
  BY <1>3, <1>4 DEF Fork

\* The thread searches on.
LEMMA SearchRecord ==
  ASSUME NEW h \in Tips, NEW a \in Nat, NEW s \in Nat, NEW n \in Nat, NEW th,
         th = [pc |-> "hash", hash |-> h, height |-> a, self |-> s, start |-> n]
  PROVE  th \in ThreadType /\ th.pc = "hash" /\ th.hash = h /\ th.start = n
<1>1. th \in OnHash /\ th.pc = "hash" /\ th.hash = h /\ th.start = n
  BY DEF OnHash
<1>. QED
  BY <1>1 DEF ThreadType

\* The block before the ones found is added, and the search goes on below it.
LEMMA DownloadUncleInvariant ==
  ASSUME ForksInvariant, DownloadUncle
  PROVE  ForksInvariant'
<1>0. Types
  BY DEF ForksInvariant
<1>1. PICK h, f, b, n : h = thread.hash /\ f = forks[h] /\ b = thread.expected /\ n = thread.start - 1
  OBVIOUS
<1>2. /\ thread.pc = "block" /\ OpenLoadBlockHash(peer[thread.conn], n) = {b}
      /\ full' = full /\ chain' = chain /\ selfForged' = selfForged
      /\ peer' = peer /\ closed' = closed /\ handler' = handler
      /\ forks' = [forks EXCEPT ![h].blocks = <<b>> \o @]
      /\ thread' = [pc |-> "hash", hash |-> h, height |-> thread.height, self |-> thread.self, start |-> n]
  BY <1>1 DEF DownloadUncle, Search, peers
<1>3. /\ h \in DOMAIN forks /\ h \in Tips /\ Fork = f /\ f \in ForkType
      /\ thread.start \in Nat /\ thread.height \in Nat /\ thread.self \in Nat
      /\ ~f.initialized /\ f.current = 0 /\ f.blocks \in Seq(Blocks)
      /\ ChainHeight(h) \in Nat /\ thread.start + Len(f.blocks) <= ChainHeight(h)
      /\ Heights(f.blocks, thread.start)
  BY <1>1, <1>2, SearchState
<1>4. thread.conn \in Conns /\ thread.start > 0
  BY <1>2, BlockState
<1>5. n \in Nat /\ n + 1 = thread.start
  BY <1>1, <1>3, <1>4
<1>6. b \in Blocks /\ BlockHeight(b) = n
  <2>1. peer[thread.conn] \in Hashes
    BY <1>0, <1>4, TipsAreHashes DEF Types
  <2>2. b \in OpenLoadBlockHash(peer[thread.conn], n)
    BY <1>2
  <2>. QED
    BY <2>1, <2>2, LoadedBlock
<1>7. PICK s : s = <<b>> \o f.blocks
  OBVIOUS
<1>8. s \in Seq(Blocks) /\ Len(s) = Len(f.blocks) + 1 /\ Heights(s, n)
  <2>1. Heights(f.blocks, n + 1)
    BY <1>3, <1>5
  <2>. QED
    BY <1>3, <1>5, <1>6, <1>7, <2>1, BlockBefore
<1>9. PICK g : g = [f EXCEPT !.blocks = s]
  OBVIOUS
<1>10. g \in ForkType /\ g.initialized = f.initialized /\ g.current = f.current /\ g.blocks = s
  BY <1>3, <1>8, <1>9 DEF ForkType
<1>11. forks' = [forks EXCEPT ![h] = g]
  <2>1. forks' = [forks EXCEPT ![h].blocks = s]
    BY <1>1, <1>2, <1>7
  <2>. QED
    BY <1>0, <1>1, <1>3, <1>9, <2>1 DEF Types
<1>12. thread' \in ThreadType /\ thread'.pc = "hash" /\ thread'.hash = h /\ thread'.start = n
  BY <1>2, <1>3, <1>5, SearchRecord
<1>13. Progress(h, g, thread')
  <2>1. n + Len(s) <= ChainHeight(h) /\ 0 <= ChainHeight(h)
    BY <1>3, <1>5, <1>8, LenProperties
  <2>. QED
    BY <1>3, <1>8, <1>10, <1>12, <2>1 DEF Progress, Searching
<1>14. chain' \in Hashes /\ selfForged' \in Nat
  BY <1>0, <1>2 DEF Types
<1>. QED
  BY <1>1, <1>2, <1>3, <1>10, <1>11, <1>12, <1>13, <1>14, ForkMoved

\* The block is not had: the height is tried again.
LEMMA UncleFailsInvariant ==
  ASSUME ForksInvariant, UncleFails
  PROVE  ForksInvariant'
<1>0. Types
  BY DEF ForksInvariant
<1>1. PICK h, f : h = thread.hash /\ f = forks[h]
  OBVIOUS
<1>2. /\ thread.pc = "block" /\ thread # Idle
      /\ full' = full /\ chain' = chain /\ selfForged' = selfForged
      /\ peer' = peer /\ closed' = closed /\ handler' = handler
      /\ forks' = [forks EXCEPT ![thread.hash].errors = @ + 1]
      /\ thread' = [pc |-> "hash", hash |-> h, height |-> thread.height, self |-> thread.self,
                    start |-> thread.start]
  BY <1>1 DEF UncleFails, Failed, Search, peers, Idle
<1>3. /\ h \in DOMAIN forks /\ h \in Tips /\ Fork = f /\ f \in ForkType /\ Progress(h, f, thread)
      /\ thread.start \in Nat /\ thread.height \in Nat /\ thread.self \in Nat
  BY <1>1, <1>2, SearchState
<1>4. Fork.errors <= MaxErrors
  BY <1>2, BlockState
<1>5. PICK g \in ForkType : /\ forks' = [forks EXCEPT ![h] = g] /\ g.initialized = f.initialized
                            /\ g.current = f.current /\ g.blocks = f.blocks
  BY <1>1, <1>2, <1>3, <1>4, OneMoreError
<1>6. thread' \in ThreadType /\ thread'.pc = "hash" /\ thread'.hash = h /\ thread'.start = thread.start
  BY <1>2, <1>3, SearchRecord
<1>7. Progress(h, f, thread')
  BY <1>1, <1>2, <1>3, <1>6 DEF Progress, Searching
<1>8. Progress(h, g, thread')
  BY <1>5, <1>7, SameDownload
<1>9. chain' \in Hashes /\ selfForged' \in Nat
  BY <1>0, <1>2 DEF Types
<1>. QED
  BY <1>1, <1>2, <1>3, <1>5, <1>6, <1>8, <1>9, ForkMoved

\* What the thread knows while it downloads the rest of a fork.
LEMMA RemainingState ==
  ASSUME ForksInvariant, thread.pc = "remaining"
  PROVE  /\ thread # Idle /\ thread \in OnRemaining
         /\ thread.hash \in DOMAIN forks /\ thread.hash \in Tips /\ Fork = forks[thread.hash]
         /\ Fork \in ForkType /\ Progress(thread.hash, Fork, thread) /\ Fork.initialized
         /\ ChainHeight(thread.hash) \in Nat /\ Fork.current <= ChainHeight(thread.hash)
         /\ Fork.current \in Nat /\ Fork.blocks \in Seq(Blocks)
         /\ Heights(Fork.blocks, Fork.current - Len(Fork.blocks))
<1>1. thread # Idle
  BY DEF Idle
<1>2. /\ thread.hash \in DOMAIN forks /\ thread.hash \in Tips /\ Fork = forks[thread.hash]
      /\ Fork \in ForkType /\ Progress(thread.hash, Fork, thread) /\ ChainHeight(thread.hash) \in Nat
  BY <1>1, WorkingOn
<1>3. thread \in OnRemaining
  <2>1. thread \in ThreadType
    BY DEF ForksInvariant, Types
  <2>. QED
    BY <2>1, ThreadAt
<1>4. Fork.initialized
  <2>1. forks[thread.hash].initialized
    BY DEF ForksInvariant, OnListed
  <2>. QED
    BY <1>2, <2>1
<1>5. ~Searching(thread, thread.hash)
  BY DEF Searching
<1>6. Heights(Fork.blocks, Fork.current - Len(Fork.blocks)) /\ Fork.current <= ChainHeight(thread.hash)
  BY <1>2, <1>4, <1>5 DEF Progress
<1>. QED
  BY <1>1, <1>2, <1>3, <1>4, <1>6, ForkFields

\* The thread goes on with one request less.
LEMMA OneRequestLess ==
  ASSUME NEW th \in OnRemaining, th.left > 0, NEW new, new = [th EXCEPT !.left = @ - 1]
  PROVE  new \in ThreadType /\ new.pc = "remaining" /\ new.hash = th.hash
<1>1. th.left \in Nat
  BY DEF OnRemaining
<1>2. th.left - 1 \in Nat
  BY <1>1
<1>3. new \in OnRemaining /\ new.hash = th.hash
  BY <1>2 DEF OnRemaining
<1>4. new.pc = "remaining"
  BY <1>3 DEF OnRemaining
<1>. QED
  BY <1>3, <1>4 DEF ThreadType

\* The block at the current height is added.
LEMMA DownloadRemainingInvariant ==
  ASSUME ForksInvariant, DownloadRemainingBlock
  PROVE  ForksInvariant'
<1>0. Types
  BY DEF ForksInvariant
<1>1. PICK h, f : h = thread.hash /\ f = forks[h]
  OBVIOUS
<1>2. /\ thread.pc = "remaining" /\ thread.left > 0 /\ Fork.current # ChainHeight(h)
      /\ full' = full /\ chain' = chain /\ selfForged' = selfForged
      /\ peer' = peer /\ closed' = closed /\ handler' = handler
      /\ thread' = [thread EXCEPT !.left = @ - 1]
  BY <1>1 DEF DownloadRemainingBlock, RemainingWanted, peers
<1>3. /\ thread \in OnRemaining /\ h \in DOMAIN forks /\ h \in Tips /\ Fork = f /\ f \in ForkType
      /\ f.initialized /\ ChainHeight(h) \in Nat /\ f.current <= ChainHeight(h) /\ f.current \in Nat
      /\ f.blocks \in Seq(Blocks) /\ Heights(f.blocks, f.current - Len(f.blocks))
  BY <1>1, <1>2, RemainingState
<1>4. PICK b \in Blocks : /\ BlockHeight(b) = f.current
                          /\ forks' = [forks EXCEPT ![h].blocks = Append(@, b), ![h].current = @ + 1]
  <2>0. PICK c \in Open : \E b \in OpenLoadBlockHash(peer[c], Fork.current) :
           forks' = [forks EXCEPT ![thread.hash].blocks = Append(@, b), ![thread.hash].current = @ + 1]
    BY DEF DownloadRemainingBlock
  <2>1. PICK b \in OpenLoadBlockHash(peer[c], f.current) :
           forks' = [forks EXCEPT ![h].blocks = Append(@, b), ![h].current = @ + 1]
    <3>1. PICK b \in OpenLoadBlockHash(peer[c], Fork.current) :
             forks' = [forks EXCEPT ![thread.hash].blocks = Append(@, b), ![thread.hash].current = @ + 1]
      BY <2>0
    <3>2. b \in OpenLoadBlockHash(peer[c], f.current)
      BY <1>3, <3>1
    <3>3. forks' = [forks EXCEPT ![h].blocks = Append(@, b), ![h].current = @ + 1]
      BY <1>1, <3>1
    <3>. QED
      BY <3>2, <3>3
  <2>2. c \in Conns
    BY <1>3, <2>1, ForkFields DEF Open
  <2>3. peer[c] \in Hashes
    BY <1>0, <2>2, TipsAreHashes DEF Types
  <2>4. b \in Blocks /\ BlockHeight(b) = f.current
    BY <2>1, <2>3, LoadedBlock
  <2>. QED
    BY <2>1, <2>4
<1>5. PICK s, n, k : s = Append(f.blocks, b) /\ n = f.current + 1 /\ k = f.current - Len(f.blocks)
  OBVIOUS
<1>6. k \in Int /\ k + Len(f.blocks) = f.current /\ n - (Len(f.blocks) + 1) = k /\ n \in Nat
      /\ n <= ChainHeight(h)
  <2>1. Len(f.blocks) \in Nat /\ f.current # ChainHeight(h)
    BY <1>2, <1>3, LenProperties
  <2>2. n <= ChainHeight(h) /\ n \in Nat
    BY <1>3, <1>5, <2>1
  <2>3. ASSUME NEW a \in Nat, NEW l \in Nat
        PROVE  a - l \in Int /\ (a - l) + l = a /\ (a + 1) - (l + 1) = a - l
    OBVIOUS
  <2>. QED
    BY <1>3, <1>5, <2>1, <2>2, <2>3
<1>7. s \in Seq(Blocks) /\ Len(s) = Len(f.blocks) + 1 /\ Heights(s, k)
  BY <1>3, <1>4, <1>5, <1>6, BlockAfter
<1>8. PICK g : g = [f EXCEPT !.blocks = s, !.current = n]
  OBVIOUS
<1>9. g \in ForkType /\ g.initialized = f.initialized /\ g.current = n /\ g.blocks = s
  BY <1>3, <1>6, <1>7, <1>8 DEF ForkType
<1>10. forks' = [forks EXCEPT ![h] = g]
  <2>1. forks' = [forks EXCEPT ![h] = [f EXCEPT !.blocks = Append(f.blocks, b), !.current = f.current + 1]]
    BY <1>0, <1>1, <1>3, <1>4 DEF Types, ForkType
  <2>. QED
    BY <1>5, <1>8, <2>1
<1>11. thread' \in ThreadType /\ thread'.pc = "remaining" /\ thread'.hash = h
  BY <1>1, <1>2, <1>3, OneRequestLess
<1>12. Progress(h, g, thread')
  <2>1. Heights(g.blocks, g.current - Len(g.blocks))
    BY <1>6, <1>7, <1>9
  <2>. QED
    BY <1>3, <1>6, <1>9, <1>11, <2>1 DEF Progress, Searching
<1>13. chain' \in Hashes /\ selfForged' \in Nat
  BY <1>0, <1>2 DEF Types
<1>. QED
  BY <1>1, <1>2, <1>3, <1>9, <1>10, <1>11, <1>12, <1>13, ForkMoved

\* The block is not had.
LEMMA RemainingFailsInvariant ==
  ASSUME ForksInvariant, RemainingFails
  PROVE  ForksInvariant'
<1>0. Types
  BY DEF ForksInvariant
<1>1. PICK h, f : h = thread.hash /\ f = forks[h]
  OBVIOUS
<1>2. /\ thread.pc = "remaining" /\ thread.left > 0 /\ ~GivesUp
      /\ full' = full /\ chain' = chain /\ selfForged' = selfForged
      /\ peer' = peer /\ closed' = closed /\ handler' = handler
      /\ forks' = [forks EXCEPT ![thread.hash].errors = @ + 1]
      /\ thread' = [thread EXCEPT !.left = @ - 1]
  BY DEF RemainingFails, RemainingWanted, Failed, peers
<1>3. /\ thread # Idle /\ thread \in OnRemaining /\ h \in DOMAIN forks /\ h \in Tips /\ Fork = f /\ f \in ForkType
      /\ f.initialized /\ Progress(h, f, thread)
  BY <1>1, <1>2, RemainingState
<1>4. Fork.errors <= MaxErrors
  BY <1>2, <1>3, ForkFields, LimitsAssumption DEF GivesUp
<1>5. PICK g \in ForkType : /\ forks' = [forks EXCEPT ![h] = g] /\ g.initialized = f.initialized
                            /\ g.current = f.current /\ g.blocks = f.blocks
  BY <1>1, <1>2, <1>3, <1>4, OneMoreError
<1>6. thread' \in ThreadType /\ thread'.pc = "remaining" /\ thread'.hash = h
  BY <1>1, <1>2, <1>3, OneRequestLess
<1>7. Progress(h, f, thread')
  <2>1. thread.pc \notin {"hash", "block", "remove"} /\ thread'.pc \notin {"hash", "block", "remove"}
    BY <1>2, <1>6
  <2>. QED
    BY <1>3, <2>1, OtherFork
<1>8. Progress(h, g, thread')
  BY <1>5, <1>7, SameDownload
<1>9. chain' \in Hashes /\ selfForged' \in Nat
  BY <1>0, <1>2 DEF Types
<1>. QED
  BY <1>1, <1>2, <1>3, <1>5, <1>6, <1>8, <1>9, ForkMoved

\* The batch is over, or given up.
LEMMA RemainingEndsInvariant ==
  ASSUME ForksInvariant, RemainingEnds
  PROVE  ForksInvariant'
<1>0. Types
  BY DEF ForksInvariant
<1>1. PICK h : h = thread.hash
  OBVIOUS
<1>2. /\ thread.pc = "remaining"
      /\ \E p \in {"remove", "blocks"} : thread' = [pc |-> p, hash |-> h]
      /\ full' = full /\ chain' = chain /\ selfForged' = selfForged
      /\ peer' = peer /\ closed' = closed /\ handler' = handler /\ forks' = forks
  BY <1>1 DEF RemainingEnds, peers
<1>3. /\ h \in DOMAIN forks /\ h \in Tips /\ Fork = forks[h] /\ forks[h].initialized
      /\ Progress(h, forks[h], thread)
  BY <1>1, <1>2, RemainingState
<1>4. PICK p \in {"remove", "blocks"} : thread' = [pc |-> p, hash |-> h]
  BY <1>2
<1>5. thread' \in ThreadType /\ thread'.hash = h /\ thread'.pc = p
  BY <1>3, <1>4 DEF ThreadType, OnFork
<1>6. Progress(h, forks[h], thread')
  BY <1>2, <1>3, <1>5 DEF Progress, Searching
<1>7. chain' \in Hashes /\ selfForged' \in Nat
  BY <1>0, <1>2 DEF Types
<1>. QED
  BY <1>1, <1>2, <1>3, <1>4, <1>5, <1>6, <1>7, ThreadMoved

-----------------------------------------------------------------------------
(* The blocks are added, and the fork is removed *)

\* A set of natural numbers has a smallest member, and a bounded one a largest.
LEMMA SmallestNumber ==
  ASSUME NEW S \in SUBSET Nat, S # {}
  PROVE  \E x \in S : \A y \in S : x <= y
<1>1. PICK x \in S : \A y \in S : ~(<<y, x>> \in OpToRel(<, Nat))
  BY NatLessThanWellFounded, WFMin
<1>2. \A y \in S : ~(y < x)
  BY <1>1 DEF OpToRel
<1>. QED
  BY <1>2

LEMMA LargestNumber ==
  ASSUME NEW n \in Nat, NEW S \in SUBSET (0..n), S # {}
  PROVE  \E x \in S : \A y \in S : y <= x
<1>1. PICK R : R = {n - x : x \in S}
  OBVIOUS
<1>2. R \in SUBSET Nat /\ R # {}
  <2>1. \A x \in 0..n : n - x \in Nat
    OBVIOUS
  <2>2. \A x \in S : n - x \in Nat
    BY <2>1
  <2>. QED
    BY <1>1, <2>2
<1>3. PICK r \in R : \A y \in R : r <= y
  BY <1>2, SmallestNumber
<1>4. PICK x \in S : r = n - x
  BY <1>1, <1>3
<1>5. ASSUME NEW y \in S
      PROVE  y <= x
  <2>1. n - y \in R
    BY <1>1
  <2>2. r <= n - y
    BY <1>3, <2>1
  <2>. QED
    BY <1>4, <2>2
<1>. QED
  BY <1>5

\* The last block of a batch that is in the own chain.
LEMMA LastKnown ==
  ASSUME NEW n \in Nat, NEW S \in SUBSET (1..n)
  PROVE  Max({0} \cup S) \in 0..n
<1>1. PICK x \in {0} \cup S : \A y \in {0} \cup S : y <= x
  <2>1. {0} \cup S \in SUBSET (0..n) /\ {0} \cup S # {}
    OBVIOUS
  <2>. QED
    BY <2>1, LargestNumber
<1>2. \A y \in {0} \cup S : x >= y
  BY <1>1
<1>3. Max({0} \cup S) \in {0} \cup S
  BY <1>2 DEF Max
<1>4. {0} \cup S \subseteq 0..n
  OBVIOUS
<1>. QED
  BY <1>3, <1>4

\* Blocks that continue one another are blocks of the batch.
LEMMA LinkedBlocks ==
  ASSUME NEW blocks \in Seq(Blocks), NEW t
  PROVE  Linked(blocks, t) \subseteq Blocks
<1>1. \A n \in 1..Len(blocks) : blocks[n] \in Blocks
  OBVIOUS
<1>. QED
  BY <1>1 DEF Linked

\* The own chain, or one that ends in a block of the batch.
LEMMA AddBlocksType ==
  ASSUME NEW t \in Hashes, NEW blocks \in Seq(Blocks)
  PROVE  AddBlocks(t, blocks) \in Hashes
<1>. DEFINE S == {i \in 1..Len(blocks) : blocks[i] \in Chain[t]}
            known == Max({0} \cup S)
            new == SubSeq(blocks, known + 1, Len(blocks))
            ends == IF new = <<>> THEN {} ELSE Linked(new, t)
            best == CHOOSE b \in ends : \A o \in ends : ChainHeight(o) <= ChainHeight(b)
<1>1. known \in 0..Len(blocks) /\ Len(blocks) \in Nat
  BY LastKnown, LenProperties
<1>2. new \in Seq(Blocks)
  <2>. HIDE DEF known
  <2>1. known + 1 \in Int /\ Len(blocks) \in Int /\ \A j \in (known + 1)..Len(blocks) : blocks[j] \in Blocks
    BY <1>1
  <2>. QED
    BY <1>1, <2>1, SubSeqProperties
<1>3. ends \subseteq Blocks
  <2>. HIDE DEF new
  <2>. QED
    BY <1>2, LinkedBlocks
<1>4. ends # {} => best \in ends
  <2>. HIDE DEF ends
  <2>. SUFFICES ASSUME ends # {} PROVE best \in ends
    OBVIOUS
  <2>1. PICK H : H = {ChainHeight(b) : b \in ends}
    OBVIOUS
  <2>2. \A b \in ends : ChainHeight(b) \in 0..Cardinality(Blocks)
    BY <1>3, HeightType DEF Hashes
  <2>3. H \in SUBSET (0..Cardinality(Blocks)) /\ H # {}
    BY <2>1, <2>2
  <2>4. PICK x \in H : \A y \in H : y <= x
    BY <2>3, HeightType, LargestNumber
  <2>5. PICK b \in ends : x = ChainHeight(b)
    BY <2>1, <2>4
  <2>6. \A o \in ends : ChainHeight(o) <= ChainHeight(b)
    BY <2>1, <2>4, <2>5
  <2>. QED
    BY <2>6
<1>5. AddBlocks(t, blocks) = IF ends = {} THEN t
                             ELSE IF TotalDifficulty[best] > TotalDifficulty[t] THEN best ELSE t
  BY DEF AddBlocks
<1>. HIDE DEF best, ends
<1>. QED
  BY <1>3, <1>4, <1>5 DEF Hashes

\* The blocks of a fork are given to the chain.
LEMMA ProcessBlocksInvariant ==
  ASSUME ForksInvariant, ProcessBlocks
  PROVE  ForksInvariant'
<1>0. Types
  BY DEF ForksInvariant
<1>1. PICK h, f : h = thread.hash /\ f = forks[h]
  OBVIOUS
<1>2. /\ thread.pc = "blocks" /\ thread # Idle /\ chain' = AddBlocks(chain, Fork.blocks)
      /\ full' = full /\ selfForged' \in {0, selfForged}
      /\ peer' = peer /\ closed' = closed /\ handler' = handler
  BY DEF ProcessBlocks, peers, Idle
<1>3. \/ /\ forks' = [forks EXCEPT ![h].blocks = <<>>, ![h].errors = 0]
         /\ thread' = Idle
      \/ forks' = forks /\ thread' = [pc |-> "remove", hash |-> h]
  BY <1>1 DEF ProcessBlocks, Goto
<1>4. /\ h \in DOMAIN forks /\ h \in Tips /\ Fork = f /\ f \in ForkType /\ Progress(h, f, thread)
      /\ ChainHeight(h) \in Nat
  BY <1>1, <1>2, WorkingOn
<1>5. f.initialized /\ f.blocks \in Seq(Blocks) /\ f.current <= ChainHeight(h)
  BY <1>1, <1>2, <1>4, ForkFields DEF ForksInvariant, OnListed, Progress
<1>6. chain' \in Hashes /\ selfForged' \in Nat
  BY <1>0, <1>2, <1>4, <1>5, AddBlocksType DEF Types
<1>7. CASE forks' = [forks EXCEPT ![h].blocks = <<>>, ![h].errors = 0] /\ thread' = Idle
  <2>1. PICK g : g = [f EXCEPT !.blocks = <<>>, !.errors = 0]
    OBVIOUS
  <2>2. <<>> \in Seq(Blocks) /\ 0 \in 0..(MaxErrors + 1)
    BY LimitsAssumption
  <2>3. g \in ForkType /\ g.initialized = f.initialized /\ g.current = f.current /\ g.blocks = <<>>
    BY <1>4, <2>1, <2>2 DEF ForkType
  <2>4. forks' = [forks EXCEPT ![h] = g]
    BY <1>0, <1>1, <1>4, <1>7, <2>1 DEF Types
  <2>5. thread' \in ThreadType /\ thread'.pc = "idle"
    BY <1>7 DEF ThreadType, Idle
  <2>6. Progress(h, g, thread')
    <3>1. Len(g.blocks) = 0
      BY <2>3
    <3>2. Heights(g.blocks, g.current - Len(g.blocks))
      BY <3>1 DEF Heights
    <3>. QED
      BY <1>5, <2>3, <2>5, <3>2 DEF Progress, Searching
  <2>. QED
    BY <1>1, <1>2, <1>4, <1>6, <1>7, <2>3, <2>4, <2>5, <2>6, ForkMoved
<1>8. CASE forks' = forks /\ thread' = [pc |-> "remove", hash |-> h]
  <2>1. thread' \in ThreadType /\ thread'.hash = h /\ thread'.pc = "remove"
    BY <1>4, <1>8 DEF ThreadType, OnFork
  <2>2. Progress(h, f, thread')
    BY <1>2, <1>4, <1>5, <2>1 DEF Progress, Searching
  <2>. QED
    BY <1>1, <1>2, <1>4, <1>6, <1>8, <2>1, <2>2, ThreadMoved
<1>. QED
  BY <1>3, <1>7, <1>8

\* A fork leaves the registry.
LEMMA RemoveForkInvariant ==
  ASSUME ForksInvariant, RemoveFork
  PROVE  ForksInvariant'
<1>0. Types /\ OnListed(thread, forks) /\ Joined /\ Downloads
  BY DEF ForksInvariant
<1>1. PICK h : h = thread.hash
  OBVIOUS
<1>2. /\ thread.pc = "remove" /\ forks' = [o \in DOMAIN forks \ {h} |-> forks[o]]
      /\ handler' = [c \in Conns |-> IF handler[c].pc = "join" /\ handler[c].hash = h THEN Idle ELSE handler[c]]
      /\ thread' = Idle /\ full' = full /\ chain' = chain /\ selfForged' = selfForged
      /\ peer' = peer /\ closed' = closed
  BY <1>1 DEF RemoveFork, peers
<1>3. /\ DOMAIN forks' = DOMAIN forks \ {h}
      /\ \A o \in DOMAIN forks' : o \in DOMAIN forks /\ o # h /\ forks'[o] = forks[o]
  BY <1>2
<1>4. Types'
  <2>1. forks' \in [DOMAIN forks' -> ForkType] /\ DOMAIN forks' \subseteq Tips
    BY <1>0, <1>2, <1>3 DEF Types
  <2>2. handler' \in [Conns -> HandlerType]
    BY <1>0, <1>2 DEF Types, HandlerType
  <2>3. thread' \in ThreadType
    BY <1>2 DEF ThreadType
  <2>. QED
    BY <1>0, <1>2, <2>1, <2>2, <2>3 DEF Types
<1>5. OnListed(thread', forks')
  BY <1>2 DEF OnListed, Idle
<1>6. Joined'
  <2>1. ASSUME NEW c \in Conns, handler'[c].pc = "join"
        PROVE  handler'[c].hash \in DOMAIN forks'
    <3>1. handler'[c] = handler[c] /\ handler[c].hash # h
      BY <1>2, <2>1 DEF Idle
    <3>. QED
      BY <1>0, <1>3, <2>1, <3>1 DEF Joined
  <2>. QED
    BY <2>1 DEF Joined
<1>7. Downloads'
  <2>1. ASSUME NEW o \in DOMAIN forks'
        PROVE  Progress(o, forks'[o], thread')
    <3>1. Progress(o, forks[o], thread) /\ forks'[o] = forks[o] /\ o # h
      BY <1>0, <1>3 DEF Downloads
    <3>2. thread'.pc = "idle"
      BY <1>2 DEF Idle
    <3>. QED
      BY <1>1, <3>1, <3>2, OtherFork
  <2>. QED
    BY <2>1 DEF Downloads
<1>. QED
  BY <1>4, <1>5, <1>6, <1>7 DEF ForksInvariant

-----------------------------------------------------------------------------
(* The announcements, the peers and the forger *)

\* A step that leaves the registry and the thread alone.
LEMMA RegistryAlone ==
  ASSUME ForksInvariant, forks' = forks, thread' = thread, full' = full, chain' \in Hashes, selfForged' \in Nat,
         peer' \in [Conns -> Tips], closed' \subseteq Conns, handler' \in [Conns -> HandlerType],
         \A c \in Conns : handler'[c].pc = "join" => handler'[c].hash \in DOMAIN forks
  PROVE  ForksInvariant'
<1>0. Types /\ OnListed(thread, forks) /\ Joined /\ Downloads
  BY DEF ForksInvariant
<1>1. Types'
  BY <1>0 DEF Types
<1>2. Joined'
  BY DEF Joined
<1>3. Downloads'
  BY <1>0 DEF Downloads
<1>. QED
  BY <1>0, <1>1, <1>2, <1>3 DEF ForksInvariant

LEMMA PeerAdoptsInvariant ==
  ASSUME ForksInvariant, NEW c \in Conns, PeerAdopts(c)
  PROVE  ForksInvariant'
<1>0. Types /\ Joined
  BY DEF ForksInvariant
<1>1. peer' \in [Conns -> Tips]
  BY <1>0 DEF PeerAdopts, Types
<1>. QED
  BY <1>0, <1>1, RegistryAlone DEF PeerAdopts, Types, Joined

LEMMA CloseInvariant ==
  ASSUME ForksInvariant, NEW c \in Conns, Close(c)
  PROVE  ForksInvariant'
<1>0. Types /\ Joined
  BY DEF ForksInvariant
<1>. QED
  BY <1>0, RegistryAlone DEF Close, Types, Joined

LEMMA ForgeInvariant ==
  ASSUME ForksInvariant, Forge
  PROVE  ForksInvariant'
<1>0. Types /\ Joined
  BY DEF ForksInvariant
<1>1. chain' \in Hashes /\ selfForged' \in Nat
  BY <1>0, TreeAssumption DEF Forge, Types, Hashes
<1>. QED
  BY <1>0, <1>1, RegistryAlone DEF Forge, Types, Joined, peers

\* An announcement is compared with the own chain and with the registry.
LEMMA AnnouncementInvariant ==
  ASSUME ForksInvariant, NEW c \in Conns, ContinuouslyDownloadChain(c)
  PROVE  ForksInvariant'
<1>0. Types /\ Joined
  BY DEF ForksInvariant
<1>1. /\ forks' = forks /\ thread' = thread /\ full' = full /\ chain' = chain /\ selfForged' = selfForged
      /\ peer' = peer /\ closed' = closed
  BY DEF ContinuouslyDownloadChain, peers
<1>2. PICK t \in Tips : t = peer[c]
  BY <1>0 DEF Types
<1>3. PICK x : /\ handler' = [handler EXCEPT ![c] = x]
               /\ \/ x = Idle
                  \/ x = [pc |-> "join", hash |-> t] /\ t \in DOMAIN forks
                  \/ x = [pc |-> "add", hash |-> t]
  BY <1>2 DEF ContinuouslyDownloadChain, ChainUpdateProcess, Handle
<1>4. x \in HandlerType /\ (x.pc = "join" => x.hash \in DOMAIN forks)
  BY <1>2, <1>3 DEF HandlerType, Idle
<1>5. handler' \in [Conns -> HandlerType]
  BY <1>0, <1>3, <1>4 DEF Types
<1>6. \A d \in Conns : handler'[d].pc = "join" => handler'[d].hash \in DOMAIN forks
  BY <1>0, <1>3, <1>4 DEF Joined, Types
<1>. QED
  BY <1>0, <1>1, <1>5, <1>6, RegistryAlone DEF Types

\* A goroutine lists a fork, unless it is listed by now.
LEMMA AddForkInvariant ==
  ASSUME ForksInvariant, NEW c \in Conns, AddFork(c)
  PROVE  ForksInvariant'
<1>0. Types /\ OnListed(thread, forks) /\ Joined /\ Downloads
  BY DEF ForksInvariant
<1>1. /\ handler[c].pc = "add" /\ handler' = [handler EXCEPT ![c] = Idle]
      /\ thread' = thread /\ full' = full /\ chain' = chain /\ selfForged' = selfForged
      /\ peer' = peer /\ closed' = closed
  BY DEF AddFork, Handle, peers
<1>2. PICK h \in Tips : h = handler[c].hash
  BY <1>0, <1>1 DEF Types, HandlerType, Idle
<1>3. PICK g : g = NewFork(c)
  OBVIOUS
<1>4. /\ DOMAIN forks' = DOMAIN forks \cup {h}
      /\ \A o \in DOMAIN forks : forks'[o] = forks[o]
      /\ h \notin DOMAIN forks => forks'[h] = g
      /\ forks' = [o \in DOMAIN forks \cup {h} |-> IF o \in DOMAIN forks THEN forks[o] ELSE g]
  BY <1>2, <1>3 DEF AddFork
<1>5. /\ g \in ForkType /\ g.current = 0 /\ g.blocks = <<>> /\ ~g.initialized
  BY <1>3, LimitsAssumption DEF NewFork, ForkType
<1>6. handler' \in [Conns -> HandlerType] /\ \A d \in Conns : d # c => handler'[d] = handler[d]
  BY <1>0, <1>1 DEF Types, HandlerType
<1>7. Types'
  <2>1. DOMAIN forks' \subseteq Tips /\ forks' \in [DOMAIN forks' -> ForkType]
    BY <1>0, <1>4, <1>5 DEF Types
  <2>. QED
    BY <1>0, <1>1, <1>6, <2>1 DEF Types
<1>8. OnListed(thread', forks')
  <2>1. thread \in ThreadType
    BY <1>0 DEF Types
  <2>2. thread.pc \in {"block", "remaining", "blocks"} => thread # Idle
    BY <2>1, ThreadAt
  <2>. QED
    BY <1>0, <1>1, <1>4, <2>2 DEF OnListed
<1>9. Joined'
  BY <1>0, <1>1, <1>4, <1>6 DEF Joined, Idle, Types
<1>10. Downloads'
  <2>1. ASSUME h \notin DOMAIN forks
        PROVE  Progress(h, g, thread)
    <3>1. thread \in ThreadType
      BY <1>0 DEF Types
    <3>2. ~Searching(thread, h)
      BY <1>0, <2>1, <3>1, ThreadAt DEF OnListed, Searching
    <3>3. 0 <= ChainHeight(h)
      BY <1>2, TipsAreHashes, HeightType
    <3>. QED
      BY <1>5, <3>2, <3>3 DEF Progress
  <2>. QED
    BY <1>0, <1>1, <1>4, <2>1 DEF Downloads
<1>. QED
  BY <1>7, <1>8, <1>9, <1>10 DEF ForksInvariant

\* A goroutine adds its connection to a listed fork.
LEMMA AddConnInvariant ==
  ASSUME ForksInvariant, NEW c \in Conns, AddConn(c)
  PROVE  ForksInvariant'
<1>0. Types /\ OnListed(thread, forks) /\ Joined /\ Downloads
  BY DEF ForksInvariant
<1>1. PICK h, f : h = handler[c].hash /\ f = forks[h]
  OBVIOUS
<1>2. /\ handler[c].pc = "join" /\ handler' = [handler EXCEPT ![c] = Idle]
      /\ forks' = [forks EXCEPT ![h].conns = @ \cup {c}]
      /\ thread' = thread /\ full' = full /\ chain' = chain /\ selfForged' = selfForged
      /\ peer' = peer /\ closed' = closed
  BY <1>1 DEF AddConn, Handle, peers
<1>3. h \in DOMAIN forks /\ f \in ForkType
  BY <1>0, <1>1, <1>2 DEF Joined, Types
<1>4. PICK g : g = [f EXCEPT !.conns = @ \cup {c}]
  OBVIOUS
<1>5. /\ g \in ForkType /\ g.initialized = f.initialized /\ g.current = f.current /\ g.blocks = f.blocks
      /\ g.errors = f.errors
  BY <1>3, <1>4 DEF ForkType
<1>6. /\ DOMAIN forks' = DOMAIN forks /\ forks'[h] = g
      /\ \A o \in DOMAIN forks : o # h => forks'[o] = forks[o]
      /\ forks' \in [DOMAIN forks' -> ForkType]
  BY <1>0, <1>1, <1>2, <1>3, <1>4, <1>5 DEF Types
<1>7. handler' \in [Conns -> HandlerType] /\ \A d \in Conns : d # c => handler'[d] = handler[d]
  BY <1>0, <1>2 DEF Types, HandlerType
<1>8. Types'
  BY <1>0, <1>2, <1>6, <1>7 DEF Types
<1>9. OnListed(thread', forks')
  <2>1. thread \in ThreadType
    BY <1>0 DEF Types
  <2>2. thread.pc \in {"block", "remaining", "blocks"} => thread # Idle
    BY <2>1, ThreadAt
  <2>. QED
    BY <1>0, <1>1, <1>2, <1>5, <1>6, <2>2 DEF OnListed
<1>10. Joined'
  BY <1>0, <1>2, <1>6, <1>7 DEF Joined, Idle, Types
<1>11. Downloads'
  <2>1. ASSUME NEW o \in DOMAIN forks
        PROVE  Progress(o, forks'[o], thread)
    <3>1. Progress(o, forks[o], thread)
      BY <1>0 DEF Downloads
    <3>2. /\ forks'[o].current = forks[o].current /\ forks'[o].initialized = forks[o].initialized
          /\ forks'[o].blocks = forks[o].blocks
      BY <1>1, <1>5, <1>6
    <3>. QED
      BY <3>1, <3>2, SameDownload
  <2>. QED
    BY <1>2, <1>6, <2>1 DEF Downloads
<1>. QED
  BY <1>8, <1>9, <1>10, <1>11 DEF ForksInvariant

-----------------------------------------------------------------------------
(* Every step *)

LEMMA InitInvariant == Init => ForksInvariant
<1>. SUFFICES ASSUME Init PROVE ForksInvariant
  OBVIOUS
<1>1. /\ full \in BOOLEAN /\ chain = FirstTip /\ selfForged = 0 /\ peer = [c \in Conns |-> FirstPeerTip]
      /\ closed = {} /\ handler = [c \in Conns |-> Idle] /\ forks = << >> /\ thread = Idle
  BY DEF Init
<1>2. DOMAIN forks = {} /\ forks \in [DOMAIN forks -> ForkType]
  BY <1>1
<1>3. Types
  BY <1>1, <1>2, TreeAssumption DEF Types, ThreadType, HandlerType
<1>4. OnListed(thread, forks)
  BY <1>1 DEF OnListed, Idle
<1>5. Joined
  BY <1>1 DEF Joined, Idle
<1>6. Downloads
  BY <1>2 DEF Downloads
<1>. QED
  BY <1>3, <1>4, <1>5, <1>6 DEF ForksInvariant

LEMMA StepInvariant == ForksInvariant /\ [Next]_vars => ForksInvariant'
<1>. SUFFICES ASSUME ForksInvariant, [Next]_vars PROVE ForksInvariant'
  OBVIOUS
<1>1. ASSUME NEW c \in Conns, PeerAdopts(c) \/ Close(c) \/ HandlerStep(c)
      PROVE  ForksInvariant'
  BY <1>1, PeerAdoptsInvariant, CloseInvariant, AnnouncementInvariant, AddForkInvariant, AddConnInvariant
     DEF HandlerStep
<1>2. CASE ThreadStep
  BY <1>2, GetBestForkInvariant, SimulateInvariant, DownloadForkInvariant, SearchEndsInvariant,
     SearchGivesUpInvariant, DownloadBlockHashInvariant, BlockHashFailsInvariant, DownloadUncleInvariant,
     UncleFailsInvariant, DownloadRemainingInvariant, RemainingFailsInvariant, RemainingEndsInvariant,
     ProcessBlocksInvariant, RemoveForkInvariant
     DEF ThreadStep
<1>3. CASE UNCHANGED vars
  <2>0. Types /\ Joined
    BY DEF ForksInvariant
  <2>. QED
    BY <1>3, <2>0, RegistryAlone DEF vars, Types, Joined
<1>. QED
  BY <1>1, <1>2, <1>3, ForgeInvariant DEF Next

\* The invariant says what the runs check.
LEMMA InvariantIsSound == ForksInvariant => ForksAreSound
<1>. SUFFICES ASSUME ForksInvariant PROVE ForksAreSound
  OBVIOUS
<1>0. Types /\ OnListed(thread, forks) /\ Joined /\ Downloads
  BY DEF ForksInvariant
<1>1. TypeOK
  BY <1>0 DEF TypeOK, Types, OnListed, Joined
<1>2. ForkBlocksAreConsecutive
  <2>1. ASSUME NEW h \in DOMAIN forks
        PROVE  LET f == forks[h]
                   searching == thread.pc \in {"hash", "block"} /\ thread.hash = h
                   first == IF searching THEN thread.start ELSE f.current - Len(f.blocks)
               IN  /\ f.current <= ChainHeight(h)
                   /\ f.initialized \/ searching =>
                         \A i \in 1..Len(f.blocks) : BlockHeight(f.blocks[i]) = first + i - 1
    <3>1. Progress(h, forks[h], thread)
      BY <1>0 DEF Downloads
    <3>2. CASE Searching(thread, h)
      BY <3>1, <3>2 DEF Progress, Searching, Heights
    <3>3. CASE ~Searching(thread, h)
      BY <3>1, <3>3 DEF Progress, Searching, Heights
    <3>. QED
      BY <3>2, <3>3
  <2>. QED
    BY <2>1 DEF ForkBlocksAreConsecutive
<1>. QED
  BY <1>1, <1>2 DEF ForksAreSound

\* Whatever the peers announce, adopt and send and whatever fails, the registry lists chains
\* that somebody has, the thread works on a listed fork whose errors are counted, and the
\* blocks downloaded for a fork are consecutive and end where the download goes on: for any
\* tree of blocks, any number of peers and any limits (downloadFork, downloadRemainingBlocks).
THEOREM ForksCorrect == Spec => []ForksAreSound
<1>1. Init => ForksInvariant
  BY InitInvariant
<1>2. ForksInvariant /\ [Next]_vars => ForksInvariant'
  BY StepInvariant
<1>3. ForksInvariant => ForksAreSound
  BY InvariantIsSound
<1>. QED
  BY <1>1, <1>2, <1>3, PTL DEF Spec

-----------------------------------------------------------------------------
(* What a download has reached *)

\* What ProgressIsKept asks of a step.
Kept ==
    \A h \in DOMAIN forks \cap DOMAIN forks' :
        /\ forks[h].conns \subseteq forks'[h].conns
        /\ forks[h].current <= forks'[h].current
        /\ forks[h].initialized => forks'[h].initialized

\* A step that leaves the listed forks alone, or removes some.
LEMMA KeptAlone ==
  ASSUME ForksInvariant, \A o \in DOMAIN forks \cap DOMAIN forks' : forks'[o] = forks[o]
  PROVE  Kept
<1>1. \A o \in DOMAIN forks : forks[o].current \in Nat
  BY ForkFields DEF ForksInvariant, Types
<1>. QED
  BY <1>1 DEF Kept

\* A step that changes one fork.
LEMMA KeptOne ==
  ASSUME ForksInvariant, NEW h \in DOMAIN forks, NEW g, forks' = [forks EXCEPT ![h] = g],
         forks[h].conns \subseteq g.conns, forks[h].current <= g.current,
         forks[h].initialized => g.initialized
  PROVE  Kept
<1>1. \A o \in DOMAIN forks : forks[o].current \in Nat
  BY ForkFields DEF ForksInvariant, Types
<1>2. /\ DOMAIN forks' = DOMAIN forks /\ forks'[h] = g
      /\ \A o \in DOMAIN forks : o # h => forks'[o] = forks[o]
  OBVIOUS
<1>. QED
  BY <1>1, <1>2 DEF Kept

\* A failure keeps what was reached.
LEMMA FailureKeeps ==
  ASSUME ForksInvariant, thread # Idle, forks' = [forks EXCEPT ![thread.hash].errors = @ + 1]
  PROVE  Kept
<1>1. PICK h, f : h = thread.hash /\ f = forks[h]
  OBVIOUS
<1>2. h \in DOMAIN forks /\ f \in ForkType
  BY <1>1, WorkingOn
<1>3. PICK g : g = [f EXCEPT !.errors = @ + 1]
  OBVIOUS
<1>4. g.conns = f.conns /\ f.current <= g.current /\ g.initialized = f.initialized
  BY <1>2, <1>3 DEF ForkType
<1>5. forks' = [forks EXCEPT ![h] = g]
  BY <1>1, <1>2, <1>3
<1>. QED
  BY <1>1, <1>2, <1>4, <1>5, KeptOne

LEMMA SearchEndsKeeps ==
  ASSUME ForksInvariant, SearchEnds
  PROVE  Kept
<1>1. PICK h, f, n : h = thread.hash /\ f = forks[h] /\ n = thread.start + Len(f.blocks)
  OBVIOUS
<1>2. thread.pc = "hash"
  BY DEF SearchEnds
<1>3. h \in DOMAIN forks /\ Fork = f /\ f \in ForkType /\ f.current = 0 /\ thread.start \in Nat
      /\ f.blocks \in Seq(Blocks)
  BY <1>1, <1>2, SearchState
<1>4. PICK g : g = [f EXCEPT !.initialized = TRUE, !.current = n]
  OBVIOUS
<1>5. g.conns = f.conns /\ g.current = n /\ g.initialized
  BY <1>3, <1>4 DEF ForkType
<1>6. f.current <= n
  BY <1>1, <1>3, LenProperties
<1>7. forks' = [forks EXCEPT ![h] = g]
  BY <1>1, <1>3, <1>4 DEF SearchEnds
<1>. QED
  BY <1>1, <1>3, <1>5, <1>6, <1>7, KeptOne

LEMMA DownloadUncleKeeps ==
  ASSUME ForksInvariant, DownloadUncle
  PROVE  Kept
<1>1. PICK h, f, s : h = thread.hash /\ f = forks[h] /\ s = <<thread.expected>> \o f.blocks
  OBVIOUS
<1>2. h \in DOMAIN forks /\ f \in ForkType
  BY <1>1, SearchState DEF DownloadUncle
<1>3. PICK g : g = [f EXCEPT !.blocks = s]
  OBVIOUS
<1>4. g.conns = f.conns /\ f.current <= g.current /\ g.initialized = f.initialized
  BY <1>2, <1>3 DEF ForkType
<1>5. forks' = [forks EXCEPT ![h] = g]
  BY <1>1, <1>2, <1>3 DEF DownloadUncle
<1>. QED
  BY <1>1, <1>2, <1>4, <1>5, KeptOne

LEMMA DownloadRemainingKeeps ==
  ASSUME ForksInvariant, DownloadRemainingBlock
  PROVE  Kept
<1>1. PICK h, f : h = thread.hash /\ f = forks[h]
  OBVIOUS
<1>2. h \in DOMAIN forks /\ f \in ForkType /\ f.current \in Nat
  BY <1>1, RemainingState DEF DownloadRemainingBlock, RemainingWanted
<1>3. PICK b : forks' = [forks EXCEPT ![h].blocks = Append(@, b), ![h].current = @ + 1]
  BY <1>1 DEF DownloadRemainingBlock
<1>4. PICK g, s, n : /\ g = [f EXCEPT !.blocks = s, !.current = n]
                     /\ s = Append(f.blocks, b) /\ n = f.current + 1
  OBVIOUS
<1>5. g.conns = f.conns /\ g.current = n /\ g.initialized = f.initialized /\ f.current <= n
  BY <1>2, <1>4 DEF ForkType
<1>6. forks' = [forks EXCEPT ![h] = g]
  <2>1. forks' = [forks EXCEPT ![h] = [f EXCEPT !.blocks = Append(f.blocks, b), !.current = f.current + 1]]
    BY <1>1, <1>2, <1>3 DEF ForkType
  <2>. QED
    BY <1>4, <2>1
<1>. QED
  BY <1>1, <1>2, <1>5, <1>6, KeptOne

LEMMA ProcessBlocksKeeps ==
  ASSUME ForksInvariant, ProcessBlocks
  PROVE  Kept
<1>1. PICK h, f : h = thread.hash /\ f = forks[h]
  OBVIOUS
<1>2. thread # Idle
  BY DEF ProcessBlocks, Idle
<1>3. h \in DOMAIN forks /\ f \in ForkType
  BY <1>1, <1>2, WorkingOn
<1>4. forks' = forks \/ forks' = [forks EXCEPT ![h].blocks = <<>>, ![h].errors = 0]
  BY <1>1 DEF ProcessBlocks
<1>5. CASE forks' = [forks EXCEPT ![h].blocks = <<>>, ![h].errors = 0]
  <2>1. PICK g : g = [f EXCEPT !.blocks = <<>>, !.errors = 0]
    OBVIOUS
  <2>2. g.conns = f.conns /\ f.current <= g.current /\ g.initialized = f.initialized
    BY <1>3, <2>1 DEF ForkType
  <2>3. forks' = [forks EXCEPT ![h] = g]
    BY <1>1, <1>3, <1>5, <2>1
  <2>. QED
    BY <1>1, <1>3, <2>2, <2>3, KeptOne
<1>. QED
  BY <1>4, <1>5, KeptAlone

LEMMA AddConnKeeps ==
  ASSUME ForksInvariant, NEW c \in Conns, AddConn(c)
  PROVE  Kept
<1>1. PICK h, f : h = handler[c].hash /\ f = forks[h]
  OBVIOUS
<1>2. h \in DOMAIN forks /\ f \in ForkType
  BY <1>1 DEF AddConn, ForksInvariant, Joined, Types
<1>3. PICK g : g = [f EXCEPT !.conns = @ \cup {c}]
  OBVIOUS
<1>4. f.conns \subseteq g.conns /\ f.current <= g.current /\ g.initialized = f.initialized
  BY <1>2, <1>3 DEF ForkType
<1>5. forks' = [forks EXCEPT ![h] = g]
  BY <1>1, <1>2, <1>3 DEF AddConn
<1>. QED
  BY <1>1, <1>2, <1>4, <1>5, KeptOne

LEMMA StepKeeps == ForksInvariant /\ [Next]_vars => Kept
<1>. SUFFICES ASSUME ForksInvariant, [Next]_vars PROVE Kept
  OBVIOUS
<1>1. ASSUME forks' = forks PROVE Kept
  BY <1>1, KeptAlone
<1>2. ASSUME NEW c \in Conns, PeerAdopts(c) \/ Close(c) \/ ContinuouslyDownloadChain(c) PROVE Kept
  BY <1>1, <1>2 DEF PeerAdopts, Close, ContinuouslyDownloadChain
<1>3. ASSUME NEW c \in Conns, AddFork(c) PROVE Kept
  <2>1. \A o \in DOMAIN forks \cap DOMAIN forks' : forks'[o] = forks[o]
    BY <1>3 DEF AddFork
  <2>. QED
    BY <2>1, KeptAlone
<1>4. CASE GetBestFork \/ SimulateBlock \/ DownloadFork \/ SearchGivesUp \/ DownloadBlockHash \/ RemainingEnds \/ Forge
  BY <1>1, <1>4 DEF GetBestFork, SimulateBlock, DownloadFork, SearchGivesUp, DownloadBlockHash, RemainingEnds, Forge
<1>5. CASE BlockHashFails \/ UncleFails \/ RemainingFails
  <2>1. thread # Idle /\ forks' = [forks EXCEPT ![thread.hash].errors = @ + 1]
    BY <1>5 DEF BlockHashFails, UncleFails, RemainingFails, RemainingWanted, Failed, Idle
  <2>. QED
    BY <2>1, FailureKeeps
<1>6. CASE RemoveFork
  <2>1. \A o \in DOMAIN forks \cap DOMAIN forks' : forks'[o] = forks[o]
    BY <1>6 DEF RemoveFork
  <2>. QED
    BY <2>1, KeptAlone
<1>7. CASE UNCHANGED vars
  BY <1>1, <1>7 DEF vars
<1>8. CASE ThreadStep
  BY <1>4, <1>5, <1>6, <1>8, SearchEndsKeeps, DownloadUncleKeeps, DownloadRemainingKeeps, ProcessBlocksKeeps
     DEF ThreadStep
<1>. QED
  BY <1>2, <1>3, <1>4, <1>7, <1>8, AddConnKeeps DEF Next, HandlerStep

\* No announcement and no other goroutine takes back what the download of a listed fork has
\* reached: its connections, its place in the fork, that its start is found (addFork's
\* LoadOrStore, AddConn, downloadRemainingBlocks).
THEOREM DownloadsAreKept == Spec => ProgressIsKept
<1>1. Init => ForksInvariant
  BY InitInvariant
<1>2. ForksInvariant /\ [Next]_vars => ForksInvariant'
  BY StepInvariant
<1>3. ForksInvariant /\ [Next]_vars =>
         [\A h \in DOMAIN forks \cap DOMAIN forks' :
             /\ forks[h].conns \subseteq forks'[h].conns
             /\ forks[h].current <= forks'[h].current
             /\ forks[h].initialized => forks'[h].initialized]_vars
  BY StepKeeps DEF Kept
<1>. QED
  BY <1>1, <1>2, <1>3, PTL DEF Spec, ProgressIsKept
=============================================================================
