----------------------------- MODULE KnownNodes -----------------------------
(***************************************************************************)
(* The nodes a node knows of.  The code keeps one object per node, found   *)
(* through a map by url and through a list, and a max heap of urls by      *)
(* score.  Whoever dials or is connected to a node keeps a pointer to its  *)
(* object, also after the node was removed and another object took its     *)
(* place.  A state is                                                      *)
(*   obj    the objects, [url, seed, score]; None is unused memory         *)
(*   map    url -> object                                                  *)
(*   list   the objects of knownList                                       *)
(*   count  knownCount                                                     *)
(*   heap   url -> score, or None when it is not in the heap (Heap.tla is  *)
(*          about the heap itself)                                         *)
(* Each operation is one step.  Objects are allocated in the order that    *)
(* CHOOSE takes them, and never freed.                                     *)
(***************************************************************************)
EXTENDS Integers, FiniteSets

CONSTANTS
    Urls, Seeds, Banned,
    Objects,        \* memory for objects
    KnownLimit,     \* NETWORK_KNOWN_NODES_LIMIT
    MinScore,       \* KNOWN_KNODE_SCORE_MINIMUM
    MaxScore,       \* 100
    MaxServerScore, \* 300
    MaxSteps,       \* bound: operations explored
    None

\* What a node is, in memory.
Node == [url : Urls, seed : BOOLEAN, score : Int]

ASSUME KnownNodesAssumption ==
    /\ Seeds \subseteq Urls /\ Banned \subseteq Urls /\ IsFiniteSet(Seeds)
    /\ \E at \in [Seeds -> Objects] : \A u, v \in Seeds : at[u] = at[v] => u = v
    /\ MinScore \in Int /\ MaxScore \in Int /\ MaxServerScore \in Int
    /\ MinScore < 0 /\ 0 < MaxScore /\ MaxScore <= MaxServerScore
    /\ None \notin Objects /\ None \notin Int /\ None \notin Node
    /\ MaxSteps \in Nat

NewNode(url, seed) == [url |-> url, seed |-> seed, score |-> 0]

\* The top of the heap, as a pointer: a url that is not known any more gives nil, and when
\* even the best has the lowest score any node will do.
GetRandomKnownNode(k) == IF k.list = {} THEN {None} ELSE k.list
GetBestNotConnectedKnownNode(k) ==
    LET in == {u \in Urls : k.heap[u] # None}
        tops == {u \in in : \A v \in in : k.heap[v] <= k.heap[u]}
    IN  IF in = {} THEN {None}
        ELSE IF \E u \in tops : k.heap[u] = MinScore THEN GetRandomKnownNode(k)
        ELSE {k.map[u] : u \in tops}

\* A score that would pass its maximum stays there and is no update.
IncreaseKnownNodeScore(k, o, isServer) ==
    LET score == k.obj[o].score + 1
        cap == IF isServer THEN MaxServerScore ELSE MaxScore
    IN  IF score > cap THEN [k EXCEPT !.obj[o].score = cap]
        ELSE [k EXCEPT !.obj[o].score = score, !.heap[k.obj[o].url] = score]

\* Mutant: a stale pointer counts as removed, too.
RemoveKnownNodeAnyway(k, o) ==
    LET url == k.obj[o].url
    IN  IF k.map[url] = None THEN k
        ELSE [k EXCEPT !.map[url] = None, !.heap[url] = None, !.list = @ \ {o}, !.count = @ - 1]

\* The map and the heap are cleared by url, the list by pointer.
RemoveKnownNode(k, o) ==
    LET url == k.obj[o].url
        listed == o \in k.list
    IN  IF k.map[url] = None THEN k
        ELSE [k EXCEPT !.map[url] = None, !.heap[url] = None, !.list = @ \ {o},
                       !.count = IF listed THEN @ - 1 ELSE @]

\* The score of a removed object, which only a stale pointer reaches, is not followed further
\* down than one below the minimum.
DecreaseKnownNodeScore(k, o, delta) ==
    LET url == k.obj[o].url
        score == k.obj[o].score + delta
        low == score < MinScore
        removed == low /\ ~k.obj[o].seed
        new == IF low THEN MinScore ELSE score
        scored == [k EXCEPT !.obj[o].score = IF removed THEN MinScore - 1 ELSE new]
    IN  IF removed THEN [RemoveKnownNode(scored, o) EXCEPT !.heap[url] = None]
        ELSE [scored EXCEPT !.heap[url] = new]

MarkKnownNodeConnected(k, o) == [k EXCEPT !.heap[k.obj[o].url] = None]
MarkKnownNodeDisconnected(k, o) == [k EXCEPT !.heap[k.obj[o].url] = k.obj[o].score]

\* A new node, unless there are too many, it is banned or already known.
CanAddKnownNode(k, url) == k.count <= KnownLimit /\ url \notin Banned /\ k.map[url] = None
AddKnownNode(k, url, connected) ==
    LET o == CHOOSE o \in Objects : k.obj[o] = None
    IN  [k EXCEPT !.obj[o] = NewNode(url, FALSE), !.map[url] = o, !.list = @ \cup {o},
                  !.count = @ + 1, !.heap[url] = IF connected THEN @ ELSE 0]

\* The start: the seeds that are not banned then.  at gives their objects.
Reset(at, banned) ==
    LET good == Seeds \ banned
    IN  [obj |-> [o \in Objects |-> IF \E u \in good : at[u] = o
                                    THEN NewNode(CHOOSE u \in good : at[u] = o, TRUE) ELSE None],
         map |-> [u \in Urls |-> IF u \in good THEN at[u] ELSE None],
         list |-> {at[u] : u \in good},
         count |-> Cardinality(good),
         heap |-> [u \in Urls |-> IF u \in good THEN 0 ELSE None]]

-----------------------------------------------------------------------------
\* What the dialers, the tickers of the connections, the closers and the downloads of node
\* lists can do next.  Any of them may still hold the pointer of an object that was removed.
Steps(k) ==
    LET known == {o \in Objects : k.obj[o] # None}
    IN  (UNION {{IncreaseKnownNodeScore(k, o, TRUE), IncreaseKnownNodeScore(k, o, FALSE),
                 DecreaseKnownNodeScore(k, o, -1), MarkKnownNodeConnected(k, o),
                 MarkKnownNodeDisconnected(k, o)} : o \in known})
        \cup (UNION {{AddKnownNode(k, u, TRUE), AddKnownNode(k, u, FALSE)} :
                     u \in {v \in Urls : CanAddKnownNode(k, v) /\ known # Objects}})

\* The states after at most n steps from the start, where each seed has an object of its own.
Placement == CHOOSE at \in [Seeds -> Objects] : \A u, v \in Seeds : at[u] = at[v] => u = v
After(S) == S \cup (UNION {Steps(k) : k \in S})
Reached[n \in Nat] == IF n = 0 THEN {Reset(Placement, {})} ELSE After(Reached[n - 1])
Explored == Reached[MaxSteps]

\* A node that is found by its url is in the list, under that url and with a legal score; no seed
\* is lost; as many are counted as are in the list, and the dialers pick from there.
NodesAreKept(k) ==
    /\ \A u \in Urls : k.map[u] # None =>
          /\ k.map[u] \in k.list /\ k.obj[k.map[u]].url = u
          /\ k.obj[k.map[u]].score \in MinScore..MaxServerScore
    /\ \A u \in Seeds : k.map[u] # None
    /\ k.count = Cardinality(k.list)
    /\ GetBestNotConnectedKnownNode(k) \subseteq k.list \cup {None}
=============================================================================
