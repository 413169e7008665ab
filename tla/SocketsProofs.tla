--------------------------- MODULE SocketsProofs ---------------------------
(***************************************************************************)
(* Proofs about Sockets, for every number of dialers, connections, urls    *)
(* and keys: addresses, counters, answers and subscriptions agree, however *)
(* openers, closers and messages interleave.  The opener of a connection   *)
(* and its closer run side by side: Row says which pairs of places they    *)
(* can be at, and when the connection is in the list.  What one connection *)
(* adds to the counters is then known from its row (Listed and late).      *)
(* And about KnownNodes: every state its operations reach keeps the nodes. *)
(***************************************************************************)
EXTENDS Sockets, FiniteSetTheorems, FunctionTheorems, NaturalsInduction, WellFoundedInduction, TLAPS

Stages == {"free", "new", "refused", "joined", "sent", "await", "answered", "failed", "over",
           "checked", "initialized", "count", "load", "up"}
Closings == {"no", "mark", "own", "status", "listed", "ready", "store", "done"}

Connection ==
    [stage : Stages, closing : Closings, closed : BOOLEAN, status : {"created", "initialized", "closed"},
     answer : {"none", "waiting", "taken"}, kind : {"client", "server"}, addr : Addresses \cup {None},
     cn : Gens, by : Dialers \cup {None}, list : SUBSET Keys, asked : SUBSET Keys]

\* The types of all variables
Types ==
    /\ conn \in [Conns -> Connection]
    /\ dial \in [Dialers -> Dialled \cup {None}]
    /\ addresses \in [Addresses -> Conns \cup {None}]
    /\ all \in SUBSET Conns
    /\ counts \in [clients : Int, servers : Int, total : Int]
    /\ ready \in [cn : Gens, closed : SUBSET Gens, flag : BOOLEAN]
    /\ subs \in [Keys -> SUBSET Conns]

\* The opener has validated the handshake, the opener has entered the connection in the list.
Validated(r) == r.stage \in {"initialized", "count", "load", "up"}
Entered(r) == r.stage \in {"count", "load", "up"}
Unborn(r) == r.stage \in {"free", "new", "refused"}

\* Where opener and closer of one connection can be; in says whether it is in the list.
Row(r, in) ==
    /\ Unborn(r) => r.closing = "no" /\ r.asked = {} /\ r.list = {}
    /\ r.stage = "free" => r.addr = None /\ r.by = None
    /\ r.stage # "free" => r.addr \in Addresses
    /\ r.closed <=> r.closing # "no"
    /\ Validated(r) <=> r.status # "created"
    /\ r.closing \in {"no", "mark", "own", "status"} => r.status # "closed"
    /\ r.closing \in {"listed", "ready", "store"} => r.status = "closed"
    /\ in => Entered(r)
    /\ Entered(r) /\ r.closing \in {"no", "mark", "own", "status", "listed"} => in
    /\ IsFiniteSet(r.list) /\ Cardinality(r.list) <= MaxSubscriptions + 1

Rows == \A c \in Conns : Row(conn[c], c \in all)

\* A connection owns its address until its closer has freed it.
Owning(r) == ~Unborn(r) /\ r.closing \in {"no", "mark", "own"}
Owned ==
    \A c \in Conns : /\ Owning(conn[c]) => addresses[conn[c].addr] = c
                     /\ \A a \in Addresses : addresses[a] = c => conn[c].addr = a

\* A dialer is with one connection at a time.
OneAtATime ==
    /\ \A d \in Dialers : dial[d] # None => \A c \in Conns : conn[c].by = d => conn[c].stage \in Ended
    /\ \A c, x \in Conns : conn[c].by = conn[x].by /\ conn[c].by # None /\ c # x =>
          conn[c].stage \in Ended \/ conn[x].stage \in Ended

Subscribed == \A c \in Conns : \A k \in Keys : c \in subs[k] => k \in conn[c].list

\* What the counters count: the listed without those that were discounted before.
Late(r, in) == r.status = "closed" /\ r.closing \in {"ready", "store", "done"} /\ (r.stage = "initialized" \/ in)
In(kind) == {c \in Conns : c \in all /\ conn[c].kind = kind}
Out(kind) == {c \in Conns : Late(conn[c], c \in all) /\ conn[c].kind = kind}
Counters ==
    /\ counts.clients = Cardinality(In("client")) - Cardinality(Out("client"))
    /\ counts.servers = Cardinality(In("server")) - Cardinality(Out("server"))
    /\ counts.total = counts.clients + counts.servers

SocketsInvariant == Types /\ Rows /\ Owned /\ OneAtATime /\ Subscribed /\ Counters

-----------------------------------------------------------------------------
\* A step of the opener, the closer or a message of one connection that leaves its identity,
\* its list and the common state alone keeps the invariant, when its row stays right, it
\* does not become an owner or late, and its opener does not start again.
LEMMA Moved ==
  ASSUME SocketsInvariant, NEW c \in Conns,
         conn' \in [Conns -> Connection], \A x \in Conns : x # c => conn'[x] = conn[x],
         conn'[c].addr = conn[c].addr, conn'[c].kind = conn[c].kind, conn'[c].by = conn[c].by,
         conn'[c].list = conn[c].list,
         conn[c].stage \in Ended => conn'[c].stage \in Ended,
         Owning(conn'[c]) => Owning(conn[c]),
         Row(conn'[c], c \in all),
         Late(conn'[c], c \in all) <=> Late(conn[c], c \in all),
         ready' \in [cn : Gens, closed : SUBSET Gens, flag : BOOLEAN],
         UNCHANGED <<dial, addresses, all, counts, subs>>
  PROVE  SocketsInvariant'
<1>0. Types /\ Rows /\ Owned /\ OneAtATime /\ Subscribed /\ Counters
  BY DEF SocketsInvariant
<1>1. Types'
  BY <1>0 DEF Types
<1>2. Rows'
  BY <1>0 DEF Rows
<1>3. Owned'
  BY <1>0 DEF Owned
<1>4. OneAtATime'
  BY <1>0 DEF OneAtATime
<1>5. Subscribed'
  BY <1>0 DEF Subscribed
<1>6. \A kind : In(kind)' = In(kind) /\ Out(kind)' = Out(kind)
  BY <1>0 DEF In, Out
<1>7. Counters'
  BY <1>0, <1>6 DEF Counters
<1>. QED
  BY <1>1, <1>2, <1>3, <1>4, <1>5, <1>7 DEF SocketsInvariant

\* The opener goes on before the handshake is validated, or after it entered the connection
\* in the list; the closer stays where it is.
Waits == {"joined", "sent", "await", "answered", "failed"}
Onward(from, to) ==
    \/ to = from
    \/ from \in Waits /\ to \in Waits \cup {"over", "checked"}
    \/ from \in {"count", "load"} /\ to \in {"load", "up"}

\* A step of the opener alone keeps the invariant.
LEMMA OpenerMoved ==
  ASSUME SocketsInvariant, NEW c \in Conns,
         conn' \in [Conns -> Connection], \A x \in Conns : x # c => conn'[x] = conn[x],
         Onward(conn[c].stage, conn'[c].stage),
         conn'[c].closing = conn[c].closing, conn'[c].closed = conn[c].closed, conn'[c].status = conn[c].status,
         conn'[c].addr = conn[c].addr, conn'[c].kind = conn[c].kind, conn'[c].by = conn[c].by,
         conn'[c].list = conn[c].list,
         conn'[c].asked = conn[c].asked \/ ~Unborn(conn[c]),
         ready' \in [cn : Gens, closed : SUBSET Gens, flag : BOOLEAN],
         UNCHANGED <<dial, addresses, all, counts, subs>>
  PROVE  SocketsInvariant'
<1>0. Row(conn[c], c \in all)
  BY DEF SocketsInvariant, Rows
<1>1. Row(conn'[c], c \in all)
  BY <1>0 DEF Row, Unborn, Validated, Entered, Onward, Waits
<1>2. /\ Owning(conn'[c]) => Owning(conn[c])
      /\ Late(conn'[c], c \in all) <=> Late(conn[c], c \in all)
      /\ conn[c].stage \in Ended => conn'[c].stage \in Ended
  BY <1>0 DEF Owning, Late, Unborn, Ended, Onward, Waits
<1>. QED
  BY <1>1, <1>2, Moved

\* What these proofs know of the connection they are about
LEMMA Typed ==
  ASSUME SocketsInvariant, NEW c \in Conns
  PROVE  /\ conn \in [Conns -> Connection] /\ conn[c] \in Connection /\ Row(conn[c], c \in all)
         /\ ready \in [cn : Gens, closed : SUBSET Gens, flag : BOOLEAN]
BY DEF SocketsInvariant, Types, Rows

\* The handshake: request, answer, timeout and validation
LEMMA HandshakeInvariant ==
  ASSUME SocketsInvariant, NEW c \in Conns,
         SendHandshake(c) \/ AwaitAnswer(c) \/ TakeAnswer(c) \/ GiveAnswer(c) \/ TimeOut(c) \/ Validate(c) \/ Failed(c)
  PROVE  SocketsInvariant'
<1>0. conn \in [Conns -> Connection] /\ conn[c] \in Connection /\ ready \in [cn : Gens, closed : SUBSET Gens, flag : BOOLEAN]
  BY Typed
<1>. DEFINE r == conn[c]
            Kept == /\ conn' \in [Conns -> Connection] /\ \A x \in Conns : x # c => conn'[x] = conn[x]
                    /\ Onward(r.stage, conn'[c].stage)
                    /\ conn'[c].closing = r.closing /\ conn'[c].closed = r.closed /\ conn'[c].status = r.status
                    /\ conn'[c].addr = r.addr /\ conn'[c].kind = r.kind /\ conn'[c].by = r.by
                    /\ conn'[c].list = r.list /\ conn'[c].asked = r.asked
                    /\ UNCHANGED <<dial, addresses, all, counts, ready, subs>>
<1>1. ASSUME SendHandshake(c) PROVE Kept
  BY <1>0, <1>1 DEF SendHandshake, Goto, net, Connection, Stages, Onward, Waits
<1>2. ASSUME AwaitAnswer(c) PROVE Kept
  BY <1>0, <1>2 DEF AwaitAnswer, Goto, net, Connection, Stages, Onward, Waits
<1>3. ASSUME TakeAnswer(c) PROVE Kept
  BY <1>0, <1>3 DEF TakeAnswer, Goto, net, Connection, Stages, Onward, Waits
<1>4. ASSUME GiveAnswer(c) PROVE Kept
  BY <1>0, <1>4 DEF GiveAnswer, Goto, net, Connection, Stages, Onward, Waits
<1>5. ASSUME TimeOut(c) PROVE Kept
  BY <1>0, <1>5 DEF TimeOut, Goto, net, Connection, Stages, Onward, Waits
<1>6. ASSUME Validate(c) PROVE Kept
  BY <1>0, <1>6 DEF Validate, Goto, net, Connection, Stages, Onward, Waits
<1>7. ASSUME Failed(c) PROVE Kept
  BY <1>0, <1>7 DEF Failed, Goto, net, Connection, Stages, Onward, Waits
<1>8. Kept
  BY <1>1, <1>2, <1>3, <1>4, <1>5, <1>6, <1>7
<1>. QED
  BY <1>0, <1>8, OpenerMoved

\* The opener and the ready channel, and a message that asks for a subscription
LEMMA ReadyInvariant ==
  ASSUME SocketsInvariant, NEW c \in Conns, LoadReady(c) \/ CloseReady(c) \/ \E k \in Keys : AskSubscription(c, k)
  PROVE  SocketsInvariant'
<1>0. conn \in [Conns -> Connection] /\ conn[c] \in Connection /\ ready \in [cn : Gens, closed : SUBSET Gens, flag : BOOLEAN]
  BY Typed
<1>. DEFINE r == conn[c]
            Kept == /\ conn' \in [Conns -> Connection] /\ \A x \in Conns : x # c => conn'[x] = conn[x]
                    /\ Onward(r.stage, conn'[c].stage)
                    /\ conn'[c].closing = r.closing /\ conn'[c].closed = r.closed /\ conn'[c].status = r.status
                    /\ conn'[c].addr = r.addr /\ conn'[c].kind = r.kind /\ conn'[c].by = r.by
                    /\ conn'[c].list = r.list /\ (conn'[c].asked = r.asked \/ ~Unborn(r))
                    /\ ready' \in [cn : Gens, closed : SUBSET Gens, flag : BOOLEAN]
                    /\ UNCHANGED <<dial, addresses, all, counts, subs>>
<1>1. ASSUME LoadReady(c) PROVE Kept
  BY <1>0, <1>1 DEF LoadReady, net, Connection, Stages, Onward, Waits
<1>2. ASSUME CloseReady(c) PROVE Kept
  <2>1. 0 \in Gens
    BY SocketsAssumption, FS_CardinalityType DEF Gens
  <2>2. ready' \in [cn : Gens, closed : SUBSET Gens, flag : BOOLEAN]
    BY <1>0, <1>2 DEF CloseReady, Connection
  <2>. QED
    BY <1>0, <1>2, <2>1, <2>2 DEF CloseReady, Connection, Stages, Onward, Waits
<1>3. ASSUME NEW k \in Keys, AskSubscription(c, k) PROVE Kept
  BY <1>0, <1>3 DEF AskSubscription, net, Connection, Stages, Onward, Waits, Unborn
<1>4. Kept
  BY <1>1, <1>2, <1>3
<1>. QED
  BY <1>0, <1>4, OpenerMoved

\* The status of a validated connection
LEMMA SetInitializedInvariant ==
  ASSUME SocketsInvariant, NEW c \in Conns, SetInitialized(c)
  PROVE  SocketsInvariant'
<1>0. conn \in [Conns -> Connection] /\ conn[c] \in Connection /\ Row(conn[c], c \in all) /\ ready \in [cn : Gens, closed : SUBSET Gens, flag : BOOLEAN]
  BY Typed
<1>. DEFINE r == conn[c]
<1>1. /\ conn' \in [Conns -> Connection] /\ \A x \in Conns : x # c => conn'[x] = conn[x]
      /\ r.stage = "checked" /\ conn'[c].stage = "initialized" /\ conn'[c].status = "initialized"
      /\ conn'[c].closing = r.closing /\ conn'[c].closed = r.closed
      /\ conn'[c].addr = r.addr /\ conn'[c].kind = r.kind /\ conn'[c].by = r.by
      /\ conn'[c].list = r.list /\ conn'[c].asked = r.asked
      /\ UNCHANGED <<dial, addresses, all, counts, ready, subs>>
  BY <1>0 DEF SetInitialized, net, Connection, Stages
<1>2. Row(conn'[c], c \in all)
  BY <1>0, <1>1 DEF Row, Unborn, Validated, Entered
<1>3. /\ Owning(conn'[c]) => Owning(conn[c])
      /\ Late(conn'[c], c \in all) <=> Late(conn[c], c \in all)
      /\ conn[c].stage \in Ended => conn'[c].stage \in Ended
  BY <1>0, <1>1 DEF Owning, Late, Unborn, Validated, Ended, Row
<1>. QED
  BY <1>0, <1>1, <1>2, <1>3, Moved

\* A new ready channel: more channels exist than can be in anybody's hand.
LEMMA FreshChannel ==
  ASSUME Types
  PROVE  \E g \in Gens : g # ready.cn /\ g \notin {conn[x].cn : x \in {y \in Conns : conn[y].stage = "load"}}
<1>. DEFINE loading == {y \in Conns : conn[y].stage = "load"}
            held == {conn[x].cn : x \in loading}
            f == [x \in loading |-> conn[x].cn]
            n == Cardinality(Conns)
<1>1. IsFiniteSet(loading) /\ Cardinality(loading) <= n /\ n \in Nat
  BY SocketsAssumption, FS_Subset, FS_CardinalityType
<1>2. f \in Surjection(loading, held)
  BY Fun_IsSurj DEF Surjection
<1>3. IsFiniteSet(held) /\ Cardinality(held) <= Cardinality(loading)
  BY <1>1, <1>2, FS_Surjection
<1>4. IsFiniteSet(Gens) /\ Cardinality(Gens) = n + 2
  <2>1. 0 \in Int /\ n + 1 \in Int /\ n + 1 >= 0
    BY <1>1
  <2>. QED
    BY <1>1, <2>1, FS_Interval DEF Gens
<1>. HIDE DEF held, loading, n
<1>5. Cardinality(held) \in Nat /\ Cardinality(loading) \in Nat
  BY <1>1, <1>3, FS_CardinalityType
<1>6. IsFiniteSet(held \cup {ready.cn}) /\ Cardinality(held \cup {ready.cn}) <= n + 1
  BY <1>1, <1>3, <1>5, FS_AddElement
<1>7. ASSUME Gens \subseteq held \cup {ready.cn} PROVE FALSE
  <2>1. Cardinality(Gens) <= Cardinality(held \cup {ready.cn})
    BY <1>6, <1>7, FS_Subset
  <2>2. Cardinality(held \cup {ready.cn}) \in Nat
    BY <1>6, FS_CardinalityType
  <2>. QED
    BY <1>1, <1>4, <1>6, <2>1, <2>2
<1>. QED
  BY <1>7 DEF held, loading

\* The closer of a connection, apart from what it takes out of the maps and lists
LEMMA CloserInvariant ==
  ASSUME SocketsInvariant, NEW c \in Conns,
         Close(c) \/ FailedCloses(c) \/ CloseStatus(c) \/ UnsetReady(c) \/ StoreReady(c)
  PROVE  SocketsInvariant'
<1>0. conn \in [Conns -> Connection] /\ conn[c] \in Connection /\ Row(conn[c], c \in all) /\ ready \in [cn : Gens, closed : SUBSET Gens, flag : BOOLEAN]
  BY Typed
<1>. DEFINE r == conn[c]
            Kept == /\ conn' \in [Conns -> Connection] /\ \A x \in Conns : x # c => conn'[x] = conn[x]
                    /\ conn'[c].stage = r.stage
                    /\ conn'[c].addr = r.addr /\ conn'[c].kind = r.kind /\ conn'[c].by = r.by
                    /\ conn'[c].list = r.list /\ conn'[c].asked = r.asked
                    /\ ready' \in [cn : Gens, closed : SUBSET Gens, flag : BOOLEAN]
                    /\ UNCHANGED <<dial, addresses, all, counts, subs>>
            Fits == /\ Row(conn'[c], c \in all)
                    /\ Owning(conn'[c]) => Owning(r)
                    /\ Late(conn'[c], c \in all) <=> Late(r, c \in all)
<1>1. ASSUME Close(c) \/ FailedCloses(c) PROVE Kept /\ Fits
  <2>1. Kept
    <3>1. CASE Close(c)
      BY <1>0, <3>1 DEF Close, net, Connection, Closings
    <3>2. CASE FailedCloses(c)
      BY <1>0, <3>2 DEF FailedCloses, net, Connection, Closings
    <3>. QED
      BY <1>1, <3>1, <3>2
  <2>2. /\ ~Unborn(r) /\ r.closed = FALSE /\ conn'[c].closed = TRUE /\ conn'[c].closing \in {"mark", "own"}
        /\ conn'[c].status = r.status
    BY <1>0, <1>1 DEF Close, FailedCloses, Unborn, Connection
  <2>. QED
    BY <1>0, <2>1, <2>2 DEF Row, Unborn, Validated, Entered, Owning, Late
<1>2. ASSUME CloseStatus(c) PROVE Kept /\ Fits
  <2>1. Kept
    BY <1>0, <1>2 DEF CloseStatus, net, Connection, Closings
  <2>2. /\ r.closing = "status" /\ conn'[c].closed = r.closed
        /\ \/ r.status # "initialized" /\ conn'[c].status = r.status /\ conn'[c].closing = "done"
           \/ r.status = "initialized" /\ conn'[c].status = "closed" /\ conn'[c].closing = "listed"
    BY <1>0, <1>2 DEF CloseStatus, Connection
  <2>. QED
    BY <1>0, <2>1, <2>2 DEF Row, Unborn, Validated, Entered, Owning, Late
<1>3. ASSUME UnsetReady(c) \/ StoreReady(c) PROVE Kept /\ Fits
  <2>1. ready' \in [cn : Gens, closed : SUBSET Gens, flag : BOOLEAN]
    <3>1. CASE UnsetReady(c)
      BY <1>0, <3>1 DEF UnsetReady
    <3>2. CASE StoreReady(c)
      <4>1. PICK g \in Gens, held \in SUBSET Gens : ready' = [ready EXCEPT !.cn = g, !.closed = @ \cap held]
        <5>. DEFINE held == {conn[x].cn : x \in {y \in Conns : conn[y].stage = "load"}}
                    g == CHOOSE g \in Gens : g # ready.cn /\ g \notin held
        <5>1. g \in Gens /\ held \in SUBSET Gens
          BY <1>0, FreshChannel DEF SocketsInvariant, Connection
        <5>2. ready' = [ready EXCEPT !.cn = g, !.closed = @ \cap held]
          BY <3>2 DEF StoreReady
        <5>. HIDE DEF g, held
        <5>. QED
          BY <5>1, <5>2
      <4>. QED
        BY <1>0, <4>1
    <3>. QED
      BY <1>3, <3>1, <3>2
  <2>2. Kept
    BY <1>0, <1>3, <2>1 DEF UnsetReady, StoreReady, Connection, Closings
  <2>3. /\ r.closing \in {"ready", "store"} /\ conn'[c].closing \in {"store", "done"}
        /\ conn'[c].closed = r.closed /\ conn'[c].status = r.status
    BY <1>0, <1>3 DEF UnsetReady, StoreReady, Connection
  <2>. QED
    BY <1>0, <2>2, <2>3 DEF Row, Unborn, Validated, Entered, Owning, Late
<1>4. Kept /\ Fits
  BY <1>1, <1>2, <1>3
<1>. QED
  BY <1>0, <1>4, Moved

-----------------------------------------------------------------------------
\* A dialer picks a node when none of its connections is being opened.
LEMMA DialInvariant ==
  ASSUME SocketsInvariant, NEW d \in Dialers, PickNode(d) \/ DialFails(d)
  PROVE  SocketsInvariant'
<1>0. Types /\ Rows /\ Owned /\ OneAtATime /\ Subscribed /\ Counters
  BY DEF SocketsInvariant
<1>1. UNCHANGED <<conn, lost, addresses, all, counts, ready, subs>>
  BY DEF PickNode, DialFails, net
<1>2. /\ dial' \in [Dialers -> Dialled \cup {None}] /\ \A x \in Dialers : x # d => dial'[x] = dial[x]
      /\ dial'[d] # None => \A c \in Conns : conn[c].by = d => conn[c].stage \in Ended
  BY <1>0 DEF PickNode, DialFails, Types
<1>3. Types' /\ Rows' /\ Owned' /\ Subscribed'
  BY <1>0, <1>1, <1>2 DEF Types, Rows, Owned, Subscribed
<1>4. OneAtATime'
  BY <1>0, <1>1, <1>2 DEF OneAtATime
<1>5. Counters'
  BY <1>0, <1>1 DEF Counters, In, Out
<1>. QED
  BY <1>3, <1>4, <1>5 DEF SocketsInvariant

\* A new connection is in no map and not counted.
LEMMA Born ==
  ASSUME SocketsInvariant, NEW c \in Conns, conn[c].stage = "free",
         NEW b \in Dialers \cup {None}, NEW a \in Addresses,
         conn' \in [Conns -> Connection], \A x \in Conns : x # c => conn'[x] = conn[x],
         conn'[c].stage = "new", conn'[c].addr = a, conn'[c].by = b, conn'[c].closing = "no",
         conn'[c].closed = FALSE, conn'[c].status = "created", conn'[c].list = {}, conn'[c].asked = {},
         \A x \in Conns : b # None /\ conn[x].by = b => conn[x].stage \in Ended,
         dial' \in [Dialers -> Dialled \cup {None}],
         \A d \in Dialers : dial'[d] # None => dial[d] # None /\ d # b,
         UNCHANGED net
  PROVE  SocketsInvariant'
<1>0. Types /\ Rows /\ Owned /\ OneAtATime /\ Subscribed /\ Counters
  BY DEF SocketsInvariant
<1>1. UNCHANGED <<addresses, all, counts, ready, subs>>
  BY DEF net
<1>2. /\ conn[c].addr = None /\ c \notin all /\ ~Late(conn[c], c \in all) /\ ~Late(conn'[c], c \in all)
      /\ conn[c].list = {}
  BY <1>0 DEF Rows, Row, Entered, Late, Unborn, Validated
<1>3. Types'
  BY <1>0, <1>1 DEF Types
<1>4. Rows'
  <2>1. Row(conn'[c], c \in all)
    <3>1. IsFiniteSet({}) /\ Cardinality({}) <= MaxSubscriptions + 1
      BY FS_EmptySet, SocketsAssumption
    <3>2. IsFiniteSet(conn'[c].list) /\ Cardinality(conn'[c].list) <= MaxSubscriptions + 1
      BY <3>1
    <3>. QED
      BY <1>2, <3>2 DEF Row, Unborn, Validated, Entered
  <2>. QED
    BY <1>0, <1>1, <2>1 DEF Rows
<1>5. Owned'
  <2>1. \A x \in Addresses : addresses[x] # c
    BY <1>0, <1>2, SocketsAssumption DEF Owned, Addresses
  <2>2. ~Owning(conn'[c])
    BY DEF Owning, Unborn
  <2>. QED
    BY <1>0, <1>1, <2>1, <2>2 DEF Owned
<1>6. OneAtATime'
  BY <1>0 DEF OneAtATime
<1>7. Subscribed'
  BY <1>0, <1>1, <1>2 DEF Subscribed
<1>8. \A k : In(k)' = In(k) /\ Out(k)' = Out(k)
  BY <1>1, <1>2 DEF In, Out
<1>9. Counters'
  BY <1>0, <1>1, <1>8 DEF Counters
<1>. QED
  BY <1>3, <1>4, <1>5, <1>6, <1>7, <1>9 DEF SocketsInvariant

\* Outgoing and incoming connections
LEMMA NewConnectionInvariant ==
  ASSUME SocketsInvariant,
         (\E d \in Dialers : NewWebsocketClient(d)) \/ (\E c \in Conns : HandleUpgradeConnection(c))
  PROVE  SocketsInvariant'
<1>0. Types /\ OneAtATime
  BY DEF SocketsInvariant
<1>1. 0 \in Gens
  BY SocketsAssumption, FS_CardinalityType DEF Gens
<1>2. ASSUME NEW d \in Dialers, NewWebsocketClient(d) PROVE SocketsInvariant'
  <2>1. PICK c \in Conns : conn[c].stage = "free" /\ Set(c, [Free EXCEPT !.stage = "new", !.addr = dial[d], !.by = d])
    BY <1>2 DEF NewWebsocketClient
  <2>2. PICK url \in Addresses : url = dial[d]
    BY <1>0, <1>2 DEF NewWebsocketClient, Types, Addresses
  <2>3. [Free EXCEPT !.stage = "new", !.addr = url, !.by = d] \in Connection
    BY <1>1 DEF Free, Connection, Stages, Closings
  <2>4. /\ conn' \in [Conns -> Connection] /\ \A x \in Conns : x # c => conn'[x] = conn[x]
        /\ conn'[c].stage = "new" /\ conn'[c].addr = url /\ conn'[c].by = d /\ conn'[c].closing = "no"
        /\ conn'[c].closed = FALSE /\ conn'[c].status = "created" /\ conn'[c].list = {} /\ conn'[c].asked = {}
    BY <1>0, <2>1, <2>2, <2>3 DEF Types, Free, Set
  <2>5. d # None /\ \A x \in Conns : conn[x].by = d => conn[x].stage \in Ended
    BY <1>0, <1>2, SocketsAssumption DEF NewWebsocketClient, OneAtATime
  <2>6. /\ dial' \in [Dialers -> Dialled \cup {None}] /\ UNCHANGED net
        /\ \A x \in Dialers : dial'[x] # None => dial[x] # None /\ x # d
    BY <1>0, <1>2 DEF NewWebsocketClient, Types
  <2>7. \A x \in Conns : d # None /\ conn[x].by = d => conn[x].stage \in Ended
    BY <2>5
  <2>8. d \in Dialers \cup {None} /\ conn[c].stage = "free"
    BY <2>1
  <2>. QED
    BY <2>4, <2>6, <2>7, <2>8, Born
<1>3. ASSUME NEW c \in Conns, HandleUpgradeConnection(c) PROVE SocketsInvariant'
  <2>1. conn[c].stage = "free" /\ Set(c, [Free EXCEPT !.stage = "new", !.addr = c, !.kind = "server"]) /\ UNCHANGED <<dial, net>>
    BY <1>3 DEF HandleUpgradeConnection
  <2>2. [Free EXCEPT !.stage = "new", !.addr = c, !.kind = "server"] \in Connection
    BY <1>1 DEF Free, Connection, Stages, Closings, Addresses
  <2>3. /\ conn' \in [Conns -> Connection] /\ \A x \in Conns : x # c => conn'[x] = conn[x]
        /\ conn'[c].stage = "new" /\ conn'[c].addr = c /\ conn'[c].by = None /\ conn'[c].closing = "no"
        /\ conn'[c].closed = FALSE /\ conn'[c].status = "created" /\ conn'[c].list = {} /\ conn'[c].asked = {}
    BY <1>0, <2>1, <2>2 DEF Types, Free, Set
  <2>4. /\ dial' \in [Dialers -> Dialled \cup {None}] /\ c \in Addresses
        /\ \A x \in Dialers : dial'[x] # None => dial[x] # None /\ x # None
    BY <1>0, <2>1, SocketsAssumption DEF Types, Addresses
  <2>5. /\ None \in Dialers \cup {None} /\ UNCHANGED net
        /\ \A x \in Conns : None # None /\ conn[x].by = None => conn[x].stage \in Ended
    BY <2>1
  <2>. QED
    BY <2>1, <2>3, <2>4, <2>5, Born
<1>. QED
  BY <1>2, <1>3

\* An address is taken by one connection, and freed by its closer only.
LEMMA AddressInvariant ==
  ASSUME SocketsInvariant, NEW c \in Conns, JustConnected(c) \/ ClosedConnection(c)
  PROVE  SocketsInvariant'
<1>0. Types /\ Rows /\ Owned /\ OneAtATime /\ Subscribed /\ Counters /\ Row(conn[c], c \in all)
  BY DEF SocketsInvariant, Rows
<1>. DEFINE r == conn[c]
<1>1. /\ conn' \in [Conns -> Connection] /\ \A x \in Conns : x # c => conn'[x] = conn[x]
      /\ conn'[c].addr = r.addr /\ conn'[c].kind = r.kind /\ conn'[c].by = r.by /\ conn'[c].status = r.status
      /\ conn'[c].list = r.list /\ conn'[c].asked = r.asked /\ conn'[c].closed = r.closed
      /\ UNCHANGED <<dial, all, counts, ready, subs>>
      /\ \/ r.stage = "new" /\ conn'[c].stage \in {"joined", "refused"} /\ conn'[c].closing = r.closing
         \/ r.closing \in {"mark", "own"} /\ conn'[c].stage = r.stage /\ conn'[c].closing = "status"
  BY <1>0 DEF JustConnected, ClosedConnection, Goto, Types, Connection, Stages, Closings
<1>2. r.addr \in Addresses
  BY <1>0, <1>1 DEF Row, Unborn
<1>3. Types'
  BY <1>0, <1>1, <1>2 DEF Types, JustConnected, ClosedConnection
<1>4. Rows'
  <2>1. Row(conn'[c], c \in all)
    BY <1>0, <1>1 DEF Row, Unborn, Validated, Entered
  <2>. QED
    BY <1>0, <1>1, <2>1 DEF Rows
<1>5. Owned'
  <2>1. CASE JustConnected(c)
    <3>1. CASE addresses[r.addr] = None
      <4>1. addresses' = [addresses EXCEPT ![r.addr] = c] /\ c # None
        BY <2>1, <3>1, SocketsAssumption DEF JustConnected
      <4>2. \A x \in Conns : Owning(conn[x]) => conn[x].addr # r.addr /\ conn[x].addr \in Addresses
        BY <1>0, <3>1, SocketsAssumption DEF Owned, Rows, Row, Owning, Unborn
      <4>3. addresses'[r.addr] = c /\ \A x \in Addresses : x # r.addr => addresses'[x] = addresses[x]
        BY <1>0, <1>2, <4>1 DEF Types
      <4>. QED
        BY <1>0, <1>1, <1>2, <4>2, <4>3 DEF Owned
    <3>2. CASE addresses[r.addr] # None
      <4>1. conn'[c].stage = "refused" /\ UNCHANGED addresses
        BY <1>0, <2>1, <3>2 DEF JustConnected, Goto, Types, Connection
      <4>. QED
        BY <1>0, <1>1, <4>1 DEF Owned, Owning, Unborn
    <3>. QED
      BY <3>1, <3>2
  <2>2. CASE ClosedConnection(c)
    <3>1. addresses' = [addresses EXCEPT ![r.addr] = None] /\ r.closing \in {"mark", "own"} /\ conn'[c].closing = "status"
      BY <1>0, <2>2 DEF ClosedConnection, Types, Connection
    <3>2. addresses[r.addr] = c
      BY <1>0, <3>1 DEF Owned, Owning, Row
    <3>3. ~Owning(conn'[c])
      BY <3>1 DEF Owning
    <3>4. \A x \in Conns : x # c /\ Owning(conn[x]) => conn[x].addr # r.addr
      BY <1>0, <3>2 DEF Owned
    <3>5. \A x \in Conns : x # c /\ Owning(conn[x]) => conn[x].addr \in Addresses
      BY <1>0 DEF Rows, Row, Owning, Unborn
    <3>. QED
      BY <1>0, <1>1, <1>2, <3>1, <3>3, <3>4, <3>5, SocketsAssumption DEF Owned, Types
  <2>. QED
    BY <2>1, <2>2
<1>6. OneAtATime'
  BY <1>0, <1>1 DEF OneAtATime, Ended
<1>7. Subscribed'
  BY <1>0, <1>1 DEF Subscribed
<1>8. \A k : In(k)' = In(k) /\ Out(k)' = Out(k)
  <2>1. Late(conn'[c], c \in all) <=> Late(r, c \in all)
    BY <1>0, <1>1 DEF Late, Row, Validated
  <2>. QED
    BY <1>1, <2>1 DEF In, Out
<1>9. Counters'
  BY <1>0, <1>1, <1>8 DEF Counters
<1>. QED
  BY <1>3, <1>4, <1>5, <1>6, <1>7, <1>9 DEF SocketsInvariant

-----------------------------------------------------------------------------
\* Counting: the sets behind the counters are finite.
LEMMA CountedSets ==
  ASSUME NEW kind
  PROVE  IsFiniteSet(In(kind)) /\ IsFiniteSet(Out(kind)) /\ Cardinality(In(kind)) \in Nat /\ Cardinality(Out(kind)) \in Nat
<1>1. In(kind) \in SUBSET Conns /\ Out(kind) \in SUBSET Conns
  BY DEF In, Out
<1>. QED
  BY <1>1, SocketsAssumption, FS_Subset, FS_CardinalityType

\* One element more, or less
LEMMA OneMore ==
  ASSUME NEW S, IsFiniteSet(S), NEW x
  PROVE  /\ Cardinality(S) \in Nat
         /\ IsFiniteSet(S \cup {x}) /\ Cardinality(S \cup {x}) \in {Cardinality(S), Cardinality(S) + 1}
         /\ IsFiniteSet(S \ {x}) /\ Cardinality(S \ {x}) \in {Cardinality(S), Cardinality(S) - 1}
         /\ x \notin S => Cardinality(S \cup {x}) = Cardinality(S) + 1
         /\ x \in S => Cardinality(S \ {x}) = Cardinality(S) - 1
<1>1. /\ IsFiniteSet(S \cup {x})
      /\ Cardinality(S \cup {x}) = IF x \in S THEN Cardinality(S) ELSE Cardinality(S) + 1
  BY FS_AddElement
<1>2. /\ IsFiniteSet(S \ {x})
      /\ Cardinality(S \ {x}) = IF x \in S THEN Cardinality(S) - 1 ELSE Cardinality(S)
  BY FS_RemoveElement
<1>. QED
  BY <1>1, <1>2, FS_CardinalityType

\* The counters when the one connection of a kind is counted, or discounted
LEMMA Recounted ==
  ASSUME Counters, counts \in [clients : Int, servers : Int, total : Int],
         NEW kind \in {"client", "server"}, NEW n \in {1, -1}, counts' = Counted(kind, n),
         \A k \in {"client", "server"} :
            Cardinality(In(k)') - Cardinality(Out(k)')
              = Cardinality(In(k)) - Cardinality(Out(k)) + (IF k = kind THEN n ELSE 0)
  PROVE  Counters' /\ counts' \in [clients : Int, servers : Int, total : Int]
<1>1. \A k \in {"client", "server"} : Cardinality(In(k)) \in Nat /\ Cardinality(Out(k)) \in Nat
  BY CountedSets
<1>2. /\ counts.clients \in Int /\ counts.servers \in Int /\ counts.total \in Int
      /\ counts'.clients = counts.clients + (IF kind = "client" THEN n ELSE 0)
      /\ counts'.servers = counts.servers + (IF kind = "server" THEN n ELSE 0)
      /\ counts'.total = counts.total + n
  BY DEF Counted
<1>3. counts' \in [clients : Int, servers : Int, total : Int]
  BY <1>2 DEF Counted
<1>4. Counters'
  BY <1>1, <1>2 DEF Counters
<1>. QED
  BY <1>3, <1>4

\* The opener enters the connection in the list and counts it: one that was discounted before
\* stays in the list, late.
LEMMA EnterInvariant ==
  ASSUME SocketsInvariant, NEW c \in Conns, ConnectedHandshakeValidated(c)
  PROVE  SocketsInvariant'
<1>0. Types /\ Rows /\ Owned /\ OneAtATime /\ Subscribed /\ Counters /\ Row(conn[c], c \in all)
  BY DEF SocketsInvariant, Rows
<1>. DEFINE r == conn[c]
<1>1. /\ conn' \in [Conns -> Connection] /\ \A x \in Conns : x # c => conn'[x] = conn[x]
      /\ conn'[c].addr = r.addr /\ conn'[c].kind = r.kind /\ conn'[c].by = r.by /\ conn'[c].status = r.status
      /\ conn'[c].list = r.list /\ conn'[c].asked = r.asked /\ conn'[c].closed = r.closed /\ conn'[c].closing = r.closing
      /\ r.stage = "initialized" /\ conn'[c].stage \in {"count", "up"} /\ r.kind \in {"client", "server"}
  BY <1>0 DEF ConnectedHandshakeValidated, Types, Connection, Stages
<1>2. /\ all' = all \cup {c} /\ c \notin all /\ counts' = Counted(r.kind, 1)
      /\ UNCHANGED <<dial, addresses, ready, subs>>
  BY <1>0 DEF ConnectedHandshakeValidated, Row, Entered
<1>3. Rows'
  <2>1. Row(conn'[c], c \in all')
    BY <1>0, <1>1, <1>2 DEF Row, Unborn, Validated, Entered
  <2>. QED
    BY <1>0, <1>1, <1>2, <2>1 DEF Rows
<1>4. Owned'
  BY <1>0, <1>1, <1>2 DEF Owned, Owning, Unborn
<1>5. OneAtATime'
  BY <1>0, <1>1, <1>2 DEF OneAtATime, Ended
<1>6. Subscribed'
  BY <1>0, <1>1, <1>2 DEF Subscribed
<1>7. Late(conn'[c], TRUE) <=> Late(r, FALSE)
  BY <1>1 DEF Late
<1>8. ASSUME NEW k \in {"client", "server"}
      PROVE  Cardinality(In(k)') - Cardinality(Out(k)')
               = Cardinality(In(k)) - Cardinality(Out(k)) + (IF k = r.kind THEN 1 ELSE 0)
  <2>1. Out(k)' = Out(k)
    BY <1>1, <1>2, <1>7 DEF Out, Late
  <2>2. In(k)' = IF k = r.kind THEN In(k) \cup {c} ELSE In(k)
    BY <1>1, <1>2 DEF In
  <2>3. c \notin In(k)
    BY <1>2 DEF In
  <2>. QED
    <3>1. IsFiniteSet(In(k)) /\ Cardinality(In(k)) \in Nat /\ Cardinality(Out(k)) \in Nat
      BY CountedSets
    <3>2. Cardinality(In(k) \cup {c}) = Cardinality(In(k)) + 1
      BY <2>3, <3>1, OneMore
    <3>. QED
      BY <2>1, <2>2, <3>1, <3>2
<1>9. Counters' /\ counts' \in [clients : Int, servers : Int, total : Int]
  BY <1>0, <1>1, <1>2, <1>8, Recounted DEF Types
<1>10. Types'
  BY <1>0, <1>1, <1>2, <1>9 DEF Types
<1>. QED
  BY <1>3, <1>4, <1>5, <1>6, <1>9, <1>10 DEF SocketsInvariant

\* The closer takes the connection out of the list, if it is there, and discounts it.
LEMMA DisconnectedInvariant ==
  ASSUME SocketsInvariant, NEW c \in Conns, Disconnected(c)
  PROVE  SocketsInvariant'
<1>0. Types /\ Rows /\ Owned /\ OneAtATime /\ Subscribed /\ Counters /\ Row(conn[c], c \in all)
  BY DEF SocketsInvariant, Rows
<1>. DEFINE r == conn[c]
<1>1. /\ conn' \in [Conns -> Connection] /\ \A x \in Conns : x # c => conn'[x] = conn[x]
      /\ conn'[c].addr = r.addr /\ conn'[c].kind = r.kind /\ conn'[c].by = r.by /\ conn'[c].status = r.status
      /\ conn'[c].list = r.list /\ conn'[c].asked = r.asked /\ conn'[c].closed = r.closed /\ conn'[c].stage = r.stage
      /\ r.closing = "listed" /\ conn'[c].closing \in {"ready", "done"} /\ r.kind \in {"client", "server"}
  BY <1>0 DEF Disconnected, Types, Connection, Closings
<1>2. /\ all' = all \ {c} /\ counts' = Counted(r.kind, -1) /\ subs' = [k \in Keys |-> subs[k] \ {c}]
      /\ UNCHANGED <<dial, addresses, ready>>
  BY DEF Disconnected, RemoveConnection
<1>3. /\ r.status = "closed" /\ (c \in all <=> r.stage # "initialized")
  BY <1>0, <1>1 DEF Row, Entered, Validated
<1>4. Rows'
  <2>1. Row(conn'[c], c \in all')
    BY <1>0, <1>1, <1>2, <1>3 DEF Row, Unborn, Validated, Entered
  <2>. QED
    BY <1>0, <1>1, <1>2, <2>1 DEF Rows
<1>5. Owned'
  BY <1>0, <1>1, <1>2 DEF Owned, Owning, Unborn
<1>6. OneAtATime'
  BY <1>0, <1>1, <1>2 DEF OneAtATime
<1>7. Subscribed'
  BY <1>0, <1>1, <1>2 DEF Subscribed
<1>8. ASSUME NEW k \in {"client", "server"}
      PROVE  Cardinality(In(k)') - Cardinality(Out(k)')
               = Cardinality(In(k)) - Cardinality(Out(k)) + (IF k = r.kind THEN -1 ELSE 0)
  <2>1. CASE k # r.kind
    <3>1. In(k)' = In(k) /\ Out(k)' = Out(k)
      BY <1>1, <1>2, <2>1 DEF In, Out
    <3>. QED
      BY <2>1, <3>1, CountedSets
  <2>2. CASE k = r.kind /\ c \in all
    <3>1. ~Late(conn'[c], FALSE) /\ ~Late(r, TRUE)
      BY <1>1, <1>3, <2>2 DEF Late
    <3>2. In(k)' = In(k) \ {c} /\ c \in In(k)
      BY <1>1, <1>2, <2>2 DEF In
    <3>3. Out(k)' = Out(k)
      BY <1>1, <1>2, <2>2, <3>1 DEF Out, Late
    <3>. QED
      <4>1. IsFiniteSet(In(k)) /\ Cardinality(In(k)) \in Nat /\ Cardinality(Out(k)) \in Nat
        BY CountedSets
      <4>2. Cardinality(In(k)') = Cardinality(In(k)) - 1
        BY <3>2, <4>1, OneMore
      <4>. QED
        BY <2>2, <3>3, <4>1, <4>2
  <2>3. CASE k = r.kind /\ c \notin all
    <3>1. Late(conn'[c], FALSE) /\ ~Late(r, FALSE)
      BY <1>1, <1>3, <2>3 DEF Late
    <3>2. In(k)' = In(k)
      BY <1>1, <1>2, <2>3 DEF In
    <3>3. Out(k)' = Out(k) \cup {c} /\ c \notin Out(k)
      BY <1>1, <1>2, <2>3, <3>1 DEF Out, Late
    <3>. QED
      <4>1. IsFiniteSet(Out(k)) /\ Cardinality(In(k)) \in Nat /\ Cardinality(Out(k)) \in Nat
        BY CountedSets
      <4>2. Cardinality(Out(k)') = Cardinality(Out(k)) + 1
        BY <3>3, <4>1, OneMore
      <4>. QED
        BY <2>3, <3>2, <4>1, <4>2
  <2>. QED
    BY <2>1, <2>2, <2>3
<1>9. Counters' /\ counts' \in [clients : Int, servers : Int, total : Int]
  BY <1>0, <1>1, <1>2, <1>8, Recounted DEF Types
<1>10. Types'
  BY <1>0, <1>1, <1>2, <1>9 DEF Types
<1>. QED
  BY <1>4, <1>5, <1>6, <1>7, <1>9, <1>10 DEF SocketsInvariant

-----------------------------------------------------------------------------
\* The list of a connection and the maps of the subscriptions change together.
LEMMA SubscriptionInvariant ==
  ASSUME SocketsInvariant, NEW c \in Conns, NEW k \in Keys, AddSubscription(c, k) \/ RemoveSubscription(c, k)
  PROVE  SocketsInvariant'
<1>0. Types /\ Rows /\ Owned /\ OneAtATime /\ Subscribed /\ Counters /\ Row(conn[c], c \in all)
  BY DEF SocketsInvariant, Rows
<1>. DEFINE r == conn[c]
<1>1. /\ conn' \in [Conns -> Connection] /\ \A x \in Conns : x # c => conn'[x] = conn[x]
      /\ conn'[c].addr = r.addr /\ conn'[c].kind = r.kind /\ conn'[c].by = r.by /\ conn'[c].status = r.status
      /\ conn'[c].closed = r.closed /\ conn'[c].stage = r.stage /\ conn'[c].closing = r.closing
      /\ UNCHANGED <<dial, addresses, all, counts, ready>>
  <2>1. CASE AddSubscription(c, k)
    <3>1. PICK list \in SUBSET Keys : conn' = [conn EXCEPT ![c].asked = @ \ {k}, ![c].list = list]
      BY <1>0, <2>1 DEF AddSubscription, Types, Connection
    <3>2. r \in Connection
      BY <1>0 DEF Types
    <3>3. conn' = [conn EXCEPT ![c] = [r EXCEPT !.asked = @ \ {k}, !.list = list]]
      BY <1>0, <3>1 DEF Types
    <3>5. [r EXCEPT !.asked = @ \ {k}, !.list = list] \in Connection
      <4>. HIDE DEF r
      <4>1. r.asked \ {k} \in SUBSET Keys
        BY <3>2 DEF Connection
      <4>. QED
        BY <3>2, <4>1 DEF Connection
    <3>4. UNCHANGED <<dial, addresses, all, counts, ready>>
      BY <2>1 DEF AddSubscription
    <3>. QED
      BY <1>0, <3>2, <3>3, <3>4, <3>5 DEF Types, Connection
  <2>2. CASE RemoveSubscription(c, k)
    BY <1>0, <2>2 DEF RemoveSubscription, Types, Connection
  <2>. QED
    BY <2>1, <2>2
<1>2. \/ conn'[c].list = r.list /\ conn'[c].asked = r.asked \ {k} /\ subs' = subs
      \/ /\ conn'[c].list = r.list \cup {k} /\ conn'[c].asked = r.asked \ {k} /\ subs' = [subs EXCEPT ![k] = @ \cup {c}]
         /\ k \in r.asked /\ ~(Cardinality(r.list) > MaxSubscriptions)
      \/ conn'[c].list = r.list \ {k} /\ conn'[c].asked = r.asked /\ subs' = [subs EXCEPT ![k] = @ \ {c}]
  BY <1>0 DEF AddSubscription, RemoveSubscription, NewSubscription, OldSubscription, Types, Connection
<1>3. IsFiniteSet(conn'[c].list) /\ Cardinality(conn'[c].list) <= MaxSubscriptions + 1
  <2>1. IsFiniteSet(r.list) /\ Cardinality(r.list) \in Nat /\ Cardinality(r.list) <= MaxSubscriptions + 1 /\ MaxSubscriptions \in Nat
    BY <1>0, FS_CardinalityType, SocketsAssumption DEF Row
  <2>2. /\ IsFiniteSet(r.list \cup {k}) /\ Cardinality(r.list \cup {k}) \in {Cardinality(r.list), Cardinality(r.list) + 1}
        /\ IsFiniteSet(r.list \ {k}) /\ Cardinality(r.list \ {k}) \in {Cardinality(r.list), Cardinality(r.list) - 1}
    BY <2>1, OneMore
  <2>3. PICK n \in Nat : n = Cardinality(r.list)
    BY <2>1
  <2>4. CASE conn'[c].list = r.list
    BY <2>1, <2>4
  <2>5. CASE conn'[c].list = r.list \cup {k} /\ ~(n > MaxSubscriptions)
    <3>1. Cardinality(conn'[c].list) \in {n, n + 1} /\ IsFiniteSet(conn'[c].list)
      BY <2>2, <2>3, <2>5
    <3>. QED
      BY <2>1, <2>5, <3>1
  <2>6. CASE conn'[c].list = r.list \ {k}
    <3>1. Cardinality(conn'[c].list) \in {n, n - 1} /\ IsFiniteSet(conn'[c].list)
      BY <2>2, <2>3, <2>6
    <3>2. n <= MaxSubscriptions + 1
      BY <2>1, <2>3
    <3>. QED
      BY <2>1, <3>1, <3>2
  <2>. QED
    BY <1>2, <2>3, <2>4, <2>5, <2>6
<1>4. Rows'
  <2>1. Row(conn'[c], c \in all)
    BY <1>0, <1>1, <1>2, <1>3 DEF Row, Unborn, Validated, Entered
  <2>. QED
    BY <1>0, <1>1, <2>1 DEF Rows
<1>5. Types' /\ OneAtATime'
  BY <1>0, <1>1, <1>2 DEF Types, OneAtATime
<1>6. Owned'
  BY <1>0, <1>1 DEF Owned, Owning, Unborn
<1>7. Subscribed'
  BY <1>0, <1>1, <1>2 DEF Subscribed, Types
<1>8. \A kind : In(kind)' = In(kind) /\ Out(kind)' = Out(kind)
  BY <1>1 DEF In, Out, Late
<1>9. Counters'
  BY <1>0, <1>1, <1>8 DEF Counters
<1>. QED
  BY <1>4, <1>5, <1>6, <1>7, <1>9 DEF SocketsInvariant

-----------------------------------------------------------------------------
\* At the start no connection exists.
LEMMA SocketsInit == Init => SocketsInvariant
<1>. SUFFICES ASSUME Init PROVE SocketsInvariant
  OBVIOUS
<1>1. 0 \in Gens /\ IsFiniteSet({}) /\ Cardinality({}) = 0 /\ 0 <= MaxSubscriptions + 1
  BY SocketsAssumption, FS_CardinalityType, FS_EmptySet DEF Gens
<1>2. Free \in Connection
  BY <1>1 DEF Free, Connection, Stages, Closings
<1>3. Types
  BY <1>1, <1>2 DEF Init, Types
<1>4. Rows
  <2>1. Row(Free, FALSE)
    <3>1. IsFiniteSet(Free.list) /\ Cardinality(Free.list) <= MaxSubscriptions + 1
      BY <1>1 DEF Free
    <3>. QED
      BY <3>1 DEF Row, Free, Unborn, Validated, Entered
  <2>2. ASSUME NEW c \in Conns PROVE conn[c] = Free /\ (c \in all) = FALSE
    BY DEF Init
  <2>. QED
    BY <2>1, <2>2 DEF Rows
<1>5. Owned /\ OneAtATime /\ Subscribed
  <2>1. Owned
    BY SocketsAssumption DEF Init, Owned, Owning, Unborn, Free
  <2>2. OneAtATime /\ Subscribed
    BY DEF Init, OneAtATime, Subscribed, Free
  <2>. QED
    BY <2>1, <2>2
<1>6. Counters
  <2>1. \A kind : In(kind) = {} /\ Out(kind) = {}
    BY DEF Init, In, Out, Late, Free
  <2>2. counts.clients = 0 /\ counts.servers = 0 /\ counts.total = 0
    BY DEF Init
  <2>3. \A kind : Cardinality(In(kind)) = 0 /\ Cardinality(Out(kind)) = 0
    BY <1>1, <2>1
  <2>. QED
    BY <2>2, <2>3 DEF Counters
<1>. QED
  BY <1>3, <1>4, <1>5, <1>6 DEF SocketsInvariant

\* Every step keeps the invariant.
LEMMA SocketsNext == SocketsInvariant /\ [Next]_vars => SocketsInvariant'
<1>. SUFFICES ASSUME SocketsInvariant, [Next]_vars PROVE SocketsInvariant'
  OBVIOUS
<1>1. ASSUME NEW d \in Dialers, PickNode(d) \/ DialFails(d) \/ NewWebsocketClient(d) PROVE SocketsInvariant'
  BY <1>1, DialInvariant, NewConnectionInvariant
<1>2. ASSUME NEW c \in Conns, HandleUpgradeConnection(c) \/ TakeAnswer(c) \/ GiveAnswer(c) \/ Close(c) PROVE SocketsInvariant'
  BY <1>2, NewConnectionInvariant, HandshakeInvariant, CloserInvariant
<1>3. ASSUME NEW c \in Conns, Opening(c) PROVE SocketsInvariant'
  BY <1>3, AddressInvariant, HandshakeInvariant, SetInitializedInvariant, EnterInvariant, ReadyInvariant,
     CloserInvariant DEF Opening
<1>4. ASSUME NEW c \in Conns, Closing(c) PROVE SocketsInvariant'
  BY <1>4, AddressInvariant, CloserInvariant, DisconnectedInvariant DEF Closing
<1>5. ASSUME NEW c \in Conns, NEW k \in Keys, AskSubscription(c, k) \/ AddSubscription(c, k) \/ RemoveSubscription(c, k)
      PROVE  SocketsInvariant'
  BY <1>5, ReadyInvariant, SubscriptionInvariant
<1>6. CASE UNCHANGED vars
  <2>1. UNCHANGED <<conn, dial, addresses, all, counts, ready, subs>>
    BY <1>6 DEF vars
  <2>2. (Types /\ Rows /\ Owned /\ OneAtATime /\ Subscribed)'
    BY <2>1 DEF SocketsInvariant, Types, Rows, Owned, OneAtATime, Subscribed
  <2>3. Counters'
    BY <2>1 DEF SocketsInvariant, Counters, In, Out
  <2>. QED
    BY <2>2, <2>3 DEF SocketsInvariant
<1>. QED
  BY <1>1, <1>2, <1>3, <1>4, <1>5, <1>6 DEF Next

\* What the invariant says of the lists and maps
LEMMA SocketsInvariantImpliesSound == SocketsInvariant => SocketsAreSound
<1>. SUFFICES ASSUME SocketsInvariant PROVE SocketsAreSound
  OBVIOUS
<1>0. Types /\ Rows /\ Owned /\ OneAtATime /\ Subscribed /\ Counters
  BY DEF SocketsInvariant
<1>1. TypeOK
  BY <1>0 DEF Types, OneAtATime, TypeOK
<1>2. AddressesAreOwned
  BY <1>0 DEF Owned, Owning, Unborn, Rows, Row, AddressesAreOwned
<1>3. CountersDescribeList
  <2>1. \A kind : {c \in all : conn[c].kind = kind} = In(kind)
    BY <1>0 DEF In, Types
  <2>2. \A kind : {c \in ListedLate : conn[c].kind = kind} = Out(kind)
    BY DEF Out, Late, ListedLate
  <2>. QED
    BY <1>0, <2>1, <2>2 DEF Counters, CountersDescribeList
<1>4. AnswersAreSafe
  BY <1>0 DEF Types, Connection, AnswersAreSafe
<1>5. SubscribersAreListed
  BY <1>0 DEF Subscribed, Rows, Row, SubscribersAreListed
<1>. QED
  BY <1>1, <1>2, <1>3, <1>4, <1>5 DEF SocketsAreSound

\* However many dialers, openers, closers and messages race: two open connections never share
\* an address, the counters that limit the connections agree with the list up to the
\* connections that were discounted before they were listed, no answer is sent on a closed
\* channel, and who is notified is listed (NewConnection, InitializeConnection,
\* closedConnection, processSubscriptions).
THEOREM SocketsCorrect == Spec => []SocketsAreSound
BY SocketsInit, SocketsNext, SocketsInvariantImpliesSound, PTL DEF Spec

-----------------------------------------------------------------------------
(* The known nodes *)

KnownState ==
    [obj : [Objects -> Node \cup {None}], map : [Urls -> Objects \cup {None}], list : SUBSET Objects,
     count : Nat, heap : [Urls -> Int \cup {None}]]

\* What every operation on the known nodes keeps.  The list may hold objects that no url finds any
\* more (the map is cleared by url, the list by pointer), and a removed object any score below.
MappedIsListed(k) ==
    \A u \in Urls : k.map[u] # None =>
        /\ k.map[u] \in k.list /\ k.obj[k.map[u]].url = u
        /\ k.obj[k.map[u]].score \in MinScore..MaxServerScore
ListedIsAllocated(k) == \A o \in k.list : k.obj[o] # None
SeedsAreMarked(k) == \A o \in Objects : k.obj[o] # None /\ k.obj[o].url \in Seeds => k.obj[o].seed
SeedsAreMapped(k) == \A u \in Seeds : k.map[u] # None
ListIsCounted(k) == IsFiniteSet(k.list) /\ k.count = Cardinality(k.list)
KnownInvariant(k) ==
    /\ k \in KnownState
    /\ MappedIsListed(k) /\ ListedIsAllocated(k) /\ SeedsAreMarked(k) /\ SeedsAreMapped(k)
    /\ ListIsCounted(k)

\* A score of an object changes, and the heap.
LEMMA ScoringKeeps ==
  ASSUME NEW k, KnownInvariant(k), NEW o \in Objects, k.obj[o] # None, NEW x \in Int,
         k.map[k.obj[o].url] = o => x \in MinScore..MaxServerScore,
         NEW h \in [Urls -> Int \cup {None}],
         NEW j, j = [k EXCEPT !.obj[o].score = x, !.heap = h]
  PROVE  KnownInvariant(j)
<1>0. /\ k \in KnownState
      /\ MappedIsListed(k) /\ ListedIsAllocated(k) /\ SeedsAreMarked(k) /\ SeedsAreMapped(k)
      /\ ListIsCounted(k)
  BY DEF KnownInvariant
<1>1. k.obj[o] \in Node /\ k.obj[o].url \in Urls /\ k.obj[o].seed \in BOOLEAN
  BY <1>0 DEF KnownState, Node
<1>2. PICK n : n = [k.obj[o] EXCEPT !.score = x]
  OBVIOUS
<1>3. n \in Node /\ n.url = k.obj[o].url /\ n.seed = k.obj[o].seed /\ n.score = x
  BY <1>1, <1>2 DEF Node
<1>4. PICK ob : ob = [k.obj EXCEPT ![o] = n]
  OBVIOUS
<1>41. j = [k EXCEPT !.obj = ob, !.heap = h]
  BY <1>0, <1>2, <1>4 DEF KnownState
<1>42. ob \in [Objects -> Node \cup {None}]
  BY <1>0, <1>3, <1>4 DEF KnownState
<1>5. /\ j.obj = ob /\ j.map = k.map /\ j.list = k.list /\ j.count = k.count
      /\ j \in KnownState
  BY <1>0, <1>41, <1>42 DEF KnownState
<1>6. /\ j.obj[o] = n
      /\ \A p \in Objects : p # o => j.obj[p] = k.obj[p]
  BY <1>0, <1>4, <1>5 DEF KnownState
<1>7. None \notin Node
  BY KnownNodesAssumption
<1>8. MappedIsListed(j)
  <2>. SUFFICES ASSUME NEW u \in Urls, j.map[u] # None
                PROVE  /\ j.map[u] \in j.list /\ j.obj[j.map[u]].url = u
                       /\ j.obj[j.map[u]].score \in MinScore..MaxServerScore
    BY DEF MappedIsListed
  <2>1. /\ k.map[u] \in k.list /\ k.obj[k.map[u]].url = u /\ k.map[u] \in Objects
        /\ k.obj[k.map[u]].score \in MinScore..MaxServerScore
    BY <1>0, <1>5 DEF MappedIsListed, KnownState
  <2>2. CASE k.map[u] = o
    BY <2>1, <2>2, <1>3, <1>5, <1>6
  <2>3. CASE k.map[u] # o
    BY <2>1, <2>3, <1>5, <1>6
  <2>. QED BY <2>2, <2>3
<1>9. ListedIsAllocated(j) /\ SeedsAreMarked(j) /\ SeedsAreMapped(j) /\ ListIsCounted(j)
  BY <1>0, <1>3, <1>5, <1>6, <1>7 DEF ListedIsAllocated, SeedsAreMarked, SeedsAreMapped, ListIsCounted, KnownState
<1>. QED
  BY <1>5, <1>8, <1>9 DEF KnownInvariant

\* Only the heap changes.
LEMMA HeapKeeps ==
  ASSUME NEW k, KnownInvariant(k), NEW h \in [Urls -> Int \cup {None}],
         NEW j, j = [k EXCEPT !.heap = h]
  PROVE  KnownInvariant(j)
<1>1. k \in KnownState
  BY DEF KnownInvariant
<1>2. /\ j.obj = k.obj /\ j.map = k.map /\ j.list = k.list /\ j.count = k.count
      /\ j \in KnownState
  BY <1>1 DEF KnownState
<1>. QED
  BY <1>2 DEF KnownInvariant, MappedIsListed, ListedIsAllocated, SeedsAreMarked, SeedsAreMapped, ListIsCounted

LEMMA IncreaseKeeps ==
  ASSUME NEW k, KnownInvariant(k), NEW o \in Objects, k.obj[o] # None, NEW s \in BOOLEAN
  PROVE  KnownInvariant(IncreaseKnownNodeScore(k, o, s))
<1>0. k \in KnownState /\ MappedIsListed(k)
  BY DEF KnownInvariant
<1>1. k.obj[o] \in Node /\ k.obj[o].url \in Urls /\ k.obj[o].score \in Int
  BY <1>0 DEF KnownState, Node
<1>2. PICK x : x = k.obj[o].score + 1
  OBVIOUS
<1>3. PICK cap : cap = IF s THEN MaxServerScore ELSE MaxScore
  OBVIOUS
<1>4. /\ x \in Int /\ cap \in Int /\ cap \in MinScore..MaxServerScore
      /\ MinScore \in Int /\ MaxServerScore \in Int
  BY <1>1, <1>2, <1>3, KnownNodesAssumption
<1>5. CASE x > cap
  <2>1. IncreaseKnownNodeScore(k, o, s) = [k EXCEPT !.obj[o].score = cap]
    BY <1>2, <1>3, <1>5 DEF IncreaseKnownNodeScore
  <2>2. [k EXCEPT !.obj[o].score = cap] = [k EXCEPT !.obj[o].score = cap, !.heap = k.heap]
    BY <1>0 DEF KnownState
  <2>3. k.heap \in [Urls -> Int \cup {None}]
    BY <1>0 DEF KnownState
  <2>4. PICK j : j = [k EXCEPT !.obj[o].score = cap, !.heap = k.heap]
    OBVIOUS
  <2>5. KnownInvariant(j)
    BY <2>3, <2>4, <1>4, ScoringKeeps
  <2>. QED BY <2>1, <2>2, <2>4, <2>5
<1>6. CASE ~(x > cap)
  <2>1. PICK h : h = [k.heap EXCEPT ![k.obj[o].url] = x]
    OBVIOUS
  <2>2. IncreaseKnownNodeScore(k, o, s) = [k EXCEPT !.obj[o].score = x, !.heap = h]
    BY <1>0, <1>2, <1>3, <1>6, <2>1 DEF IncreaseKnownNodeScore, KnownState
  <2>3. h \in [Urls -> Int \cup {None}]
    BY <1>0, <1>4, <2>1 DEF KnownState
  <2>4. ASSUME k.map[k.obj[o].url] = o PROVE x \in MinScore..MaxServerScore
    <3>1. k.obj[o].score \in MinScore..MaxServerScore
      BY <2>4, <1>0, <1>1, KnownNodesAssumption DEF MappedIsListed
    <3>. QED BY <3>1, <1>1, <1>2, <1>4, <1>6
  <2>5. PICK j : j = [k EXCEPT !.obj[o].score = x, !.heap = h]
    OBVIOUS
  <2>6. KnownInvariant(j)
    BY <2>3, <2>4, <2>5, <1>4, ScoringKeeps
  <2>. QED BY <2>2, <2>5, <2>6
<1>. QED BY <1>5, <1>6

LEMMA MarksKeep ==
  ASSUME NEW k, KnownInvariant(k), NEW o \in Objects, k.obj[o] # None
  PROVE  /\ KnownInvariant(MarkKnownNodeConnected(k, o))
         /\ KnownInvariant(MarkKnownNodeDisconnected(k, o))
<1>0. k \in KnownState
  BY DEF KnownInvariant
<1>1. k.obj[o] \in Node /\ k.obj[o].url \in Urls /\ k.obj[o].score \in Int
  BY <1>0 DEF KnownState, Node
<1>2. PICK g, h : /\ g = [k.heap EXCEPT ![k.obj[o].url] = None]
                  /\ h = [k.heap EXCEPT ![k.obj[o].url] = k.obj[o].score]
  OBVIOUS
<1>3. g \in [Urls -> Int \cup {None}] /\ h \in [Urls -> Int \cup {None}]
  BY <1>0, <1>1, <1>2 DEF KnownState
<1>4. /\ MarkKnownNodeConnected(k, o) = [k EXCEPT !.heap = g]
      /\ MarkKnownNodeDisconnected(k, o) = [k EXCEPT !.heap = h]
  BY <1>0, <1>2 DEF MarkKnownNodeConnected, MarkKnownNodeDisconnected, KnownState
<1>. QED BY <1>3, <1>4, HeapKeeps
\* Removing: another object may be the one that the url finds, and it stays in the list.
LEMMA RemovalKeeps ==
  ASSUME NEW k, KnownInvariant(k), NEW o \in Objects, k.obj[o] # None, ~k.obj[o].seed,
         NEW x \in Int, k.map[k.obj[o].url] # None, NEW h \in [Urls -> Int \cup {None}],
         NEW n, n = [k.obj[o] EXCEPT !.score = x],
         NEW c, c = IF o \in k.list THEN k.count - 1 ELSE k.count,
         NEW j, j = [k EXCEPT !.obj = [k.obj EXCEPT ![o] = n], !.map = [k.map EXCEPT ![k.obj[o].url] = None],
                              !.list = k.list \ {o}, !.count = c, !.heap = h]
  PROVE  KnownInvariant(j)
<1>0. /\ k \in KnownState
      /\ MappedIsListed(k) /\ ListedIsAllocated(k) /\ SeedsAreMarked(k) /\ SeedsAreMapped(k)
      /\ ListIsCounted(k)
  BY DEF KnownInvariant
<1>1. k.obj[o] \in Node /\ k.obj[o].url \in Urls /\ k.obj[o].url \notin Seeds
  BY <1>0 DEF KnownState, Node, SeedsAreMarked
<1>2. n \in Node /\ n.url = k.obj[o].url /\ n.seed = k.obj[o].seed
  BY <1>1 DEF Node
<1>3. PICK ob, mp, ls : /\ ob = [k.obj EXCEPT ![o] = n] /\ mp = [k.map EXCEPT ![k.obj[o].url] = None]
                        /\ ls = k.list \ {o}
  OBVIOUS
<1>4. /\ ob \in [Objects -> Node \cup {None}] /\ mp \in [Urls -> Objects \cup {None}]
      /\ ls \in SUBSET Objects
  BY <1>0, <1>2, <1>3 DEF KnownState
<1>5. IsFiniteSet(ls) /\ c \in Nat /\ c = Cardinality(ls)
  <2>1. IsFiniteSet(k.list) /\ k.count = Cardinality(k.list)
    BY <1>0 DEF ListIsCounted
  <2>2. IsFiniteSet(ls) /\ Cardinality(ls) = IF o \in k.list THEN Cardinality(k.list) - 1 ELSE Cardinality(k.list)
    BY <2>1, <1>3, FS_RemoveElement
  <2>3. Cardinality(ls) \in Nat
    BY <2>2, FS_CardinalityType
  <2>. QED BY <2>1, <2>2, <2>3
<1>6. j = [k EXCEPT !.obj = ob, !.map = mp, !.list = ls, !.count = c, !.heap = h]
  BY <1>3
<1>7. /\ j.obj = ob /\ j.map = mp /\ j.list = ls /\ j.count = c /\ j \in KnownState
  BY <1>0, <1>4, <1>5, <1>6 DEF KnownState
<1>8. /\ ob[o] = n /\ \A p \in Objects : p # o => ob[p] = k.obj[p]
      /\ mp[k.obj[o].url] = None /\ \A u \in Urls : u # k.obj[o].url => mp[u] = k.map[u]
  BY <1>0, <1>1, <1>3 DEF KnownState
<1>9. None \notin Node
  BY KnownNodesAssumption
<1>10. MappedIsListed(j)
  <2>. SUFFICES ASSUME NEW u \in Urls, j.map[u] # None
                PROVE  /\ j.map[u] \in j.list /\ j.obj[j.map[u]].url = u
                       /\ j.obj[j.map[u]].score \in MinScore..MaxServerScore
    BY DEF MappedIsListed
  <2>1. u # k.obj[o].url /\ j.map[u] = k.map[u]
    BY <1>7, <1>8
  <2>2. /\ k.map[u] \in k.list /\ k.obj[k.map[u]].url = u /\ k.map[u] \in Objects
        /\ k.obj[k.map[u]].score \in MinScore..MaxServerScore
    BY <1>0, <2>1 DEF MappedIsListed, KnownState
  <2>3. k.map[u] # o
    BY <2>1, <2>2
  <2>. QED BY <2>1, <2>2, <2>3, <1>3, <1>7, <1>8
<1>11. ListedIsAllocated(j) /\ SeedsAreMarked(j)
  BY <1>0, <1>2, <1>3, <1>7, <1>8, <1>9 DEF ListedIsAllocated, SeedsAreMarked, KnownState
<1>12. SeedsAreMapped(j)
  BY <1>0, <1>1, <1>7, <1>8, KnownNodesAssumption DEF SeedsAreMapped
<1>13. ListIsCounted(j)
  BY <1>5, <1>7 DEF ListIsCounted
<1>. QED
  BY <1>7, <1>10, <1>11, <1>12, <1>13 DEF KnownInvariant

LEMMA DecreaseKeeps ==
  ASSUME NEW k, KnownInvariant(k), NEW o \in Objects, k.obj[o] # None
  PROVE  KnownInvariant(DecreaseKnownNodeScore(k, o, -1))
<1>0. k \in KnownState /\ MappedIsListed(k)
  BY DEF KnownInvariant
<1>1. k.obj[o] \in Node /\ k.obj[o].url \in Urls /\ k.obj[o].score \in Int
  BY <1>0 DEF KnownState, Node
<1>2. PICK url, x : url = k.obj[o].url /\ x = k.obj[o].score + (-1)
  OBVIOUS
<1>3. x \in Int /\ MinScore \in Int /\ MaxServerScore \in Int /\ MinScore < MaxServerScore /\ url \in Urls
  BY <1>1, <1>2, KnownNodesAssumption
<1>4. CASE ~(x < MinScore /\ ~k.obj[o].seed)
  <2>1. PICK new : new = IF x < MinScore THEN MinScore ELSE x
    OBVIOUS
  <2>2. PICK h : h = [k.heap EXCEPT ![url] = new]
    OBVIOUS
  <2>3. new \in Int /\ h \in [Urls -> Int \cup {None}]
    BY <1>0, <1>3, <2>1, <2>2 DEF KnownState
  <2>4. DecreaseKnownNodeScore(k, o, -1) = [[k EXCEPT !.obj[o].score = new] EXCEPT !.heap[url] = new]
    BY <1>2, <1>4, <2>1 DEF DecreaseKnownNodeScore
  <2>5. PICK j : j = [k EXCEPT !.obj[o].score = new, !.heap = h]
    OBVIOUS
  <2>6. DecreaseKnownNodeScore(k, o, -1) = j
    BY <1>0, <2>2, <2>4, <2>5 DEF KnownState
  <2>7. ASSUME k.map[k.obj[o].url] = o PROVE new \in MinScore..MaxServerScore
    <3>1. k.obj[o].score \in MinScore..MaxServerScore
      BY <2>7, <1>0, <1>1, KnownNodesAssumption DEF MappedIsListed
    <3>. QED BY <3>1, <1>1, <1>2, <1>3, <2>1
  <2>8. KnownInvariant(j)
    BY <2>3, <2>5, <2>7, ScoringKeeps
  <2>. QED BY <2>6, <2>8
<1>5. CASE x < MinScore /\ ~k.obj[o].seed
  <2>1. PICK low : low = MinScore - 1
    OBVIOUS
  <2>2. low \in Int
    BY <1>3, <2>1
  <2>3. PICK h : h = [k.heap EXCEPT ![url] = None]
    OBVIOUS
  <2>4. h \in [Urls -> Int \cup {None}]
    BY <1>0, <1>3, <2>3 DEF KnownState
  <2>5. PICK n : n = [k.obj[o] EXCEPT !.score = low]
    OBVIOUS
  <2>6. PICK ob : ob = [k.obj EXCEPT ![o] = n]
    OBVIOUS
  <2>7. PICK sc : sc = [k EXCEPT !.obj[o].score = low]
    OBVIOUS
  <2>8. sc = [k EXCEPT !.obj = ob]
    BY <1>0, <2>5, <2>6, <2>7 DEF KnownState
  <2>9. sc.obj = ob /\ sc.map = k.map /\ sc.list = k.list /\ sc.count = k.count /\ sc.heap = k.heap
    BY <1>0, <2>8 DEF KnownState
  <2>10. sc.obj[o].url = url
    <3>1. n.url = url
      BY <1>1, <1>2, <2>5 DEF Node
    <3>2. ob[o] = n
      BY <1>0, <2>6 DEF KnownState
    <3>. QED BY <3>1, <3>2, <2>9
  <2>11. DecreaseKnownNodeScore(k, o, -1) = [RemoveKnownNode(sc, o) EXCEPT !.heap[url] = None]
    BY <1>2, <1>5, <2>1, <2>7 DEF DecreaseKnownNodeScore
  <2>12. CASE k.map[url] = None
    <3>1. RemoveKnownNode(sc, o) = sc
      BY <2>9, <2>10, <2>12 DEF RemoveKnownNode
    <3>2. PICK j : j = [k EXCEPT !.obj[o].score = low, !.heap = h]
      OBVIOUS
    <3>3. DecreaseKnownNodeScore(k, o, -1) = j
      BY <1>0, <2>3, <2>7, <2>11, <3>1, <3>2 DEF KnownState
    <3>4. KnownInvariant(j)
      BY <1>2, <2>2, <2>4, <2>12, <3>2, ScoringKeeps, KnownNodesAssumption
    <3>. QED BY <3>3, <3>4
  <2>13. CASE k.map[url] # None
    <3>1. PICK c : c = IF o \in k.list THEN k.count - 1 ELSE k.count
      OBVIOUS
    <3>2. PICK j : j = [k EXCEPT !.obj = [k.obj EXCEPT ![o] = n], !.map = [k.map EXCEPT ![k.obj[o].url] = None],
                                 !.list = k.list \ {o}, !.count = c, !.heap = h]
      OBVIOUS
    <3>3. KnownInvariant(j)
      BY <1>2, <1>5, <2>2, <2>4, <2>5, <2>13, <3>1, <3>2, RemovalKeeps
    <3>4. PICK r : r = RemoveKnownNode(sc, o)
      OBVIOUS
    <3>5. r = [sc EXCEPT !.map = [k.map EXCEPT ![url] = None], !.heap = h, !.list = k.list \ {o}, !.count = c]
      BY <2>3, <2>8, <2>9, <2>10, <2>13, <3>1, <3>4, <1>0 DEF RemoveKnownNode, KnownState
    <3>6. r = j
      BY <1>0, <1>2, <2>6, <2>8, <3>2, <3>5 DEF KnownState
    <3>7. r.heap = h
      BY <1>0, <3>2, <3>6 DEF KnownState
    <3>8. h[url] = None
      BY <1>0, <1>3, <2>3 DEF KnownState
    <3>9. [r EXCEPT !.heap[url] = None] = r
      <4>1. r \in KnownState
        BY <3>3, <3>6 DEF KnownInvariant
      <4>2. [h EXCEPT ![url] = None] = h
        BY <2>4, <3>8
      <4>. QED BY <4>1, <4>2, <3>7 DEF KnownState
    <3>. QED BY <2>11, <3>3, <3>4, <3>6, <3>9
  <2>. QED BY <2>12, <2>13
<1>. QED BY <1>4, <1>5
LEMMA AddKeeps ==
  ASSUME NEW k, KnownInvariant(k), NEW url \in Urls, k.map[url] = None, NEW connected \in BOOLEAN,
         \E o \in Objects : k.obj[o] = None
  PROVE  KnownInvariant(AddKnownNode(k, url, connected))
<1>0. /\ k \in KnownState
      /\ MappedIsListed(k) /\ ListedIsAllocated(k) /\ SeedsAreMarked(k) /\ SeedsAreMapped(k)
      /\ ListIsCounted(k)
  BY DEF KnownInvariant
<1>1. PICK o : o = CHOOSE p \in Objects : k.obj[p] = None
  OBVIOUS
<1>2. o \in Objects /\ k.obj[o] = None
  BY <1>1
<1>3. PICK n : n = NewNode(url, FALSE)
  OBVIOUS
<1>4. n \in Node /\ n.url = url /\ n.score = 0 /\ url \notin Seeds
  BY <1>0, <1>3 DEF NewNode, Node, SeedsAreMapped
<1>5. o \notin k.list
  BY <1>0, <1>2 DEF ListedIsAllocated
<1>6. PICK ob, mp, ls, c, h :
        /\ ob = [k.obj EXCEPT ![o] = n] /\ mp = [k.map EXCEPT ![url] = o] /\ ls = k.list \cup {o}
        /\ c = k.count + 1 /\ h = [k.heap EXCEPT ![url] = IF connected THEN @ ELSE 0]
  OBVIOUS
<1>7. PICK j : j = [k EXCEPT !.obj = ob, !.map = mp, !.list = ls, !.count = c, !.heap = h]
  OBVIOUS
<1>8. AddKnownNode(k, url, connected) = j
  <2>1. AddKnownNode(k, url, connected) =
          [k EXCEPT !.obj[o] = n, !.map[url] = o, !.list = @ \cup {o},
                    !.count = @ + 1, !.heap[url] = IF connected THEN @ ELSE 0]
    BY <1>1, <1>3 DEF AddKnownNode
  <2>. QED BY <1>0, <1>6, <1>7, <2>1 DEF KnownState
<1>9. /\ ob \in [Objects -> Node \cup {None}] /\ mp \in [Urls -> Objects \cup {None}]
      /\ ls \in SUBSET Objects /\ h \in [Urls -> Int \cup {None}]
  BY <1>0, <1>2, <1>4, <1>6 DEF KnownState
<1>10. IsFiniteSet(ls) /\ c \in Nat /\ c = Cardinality(ls)
  <2>1. IsFiniteSet(k.list) /\ k.count = Cardinality(k.list) /\ k.count \in Nat
    BY <1>0 DEF ListIsCounted, KnownState
  <2>2. IsFiniteSet(ls) /\ Cardinality(ls) = Cardinality(k.list) + 1
    BY <2>1, <1>5, <1>6, FS_AddElement
  <2>. QED BY <2>1, <2>2, <1>6
<1>11. j.obj = ob /\ j.map = mp /\ j.list = ls /\ j.count = c /\ j \in KnownState
  BY <1>0, <1>7, <1>9, <1>10 DEF KnownState
<1>12. /\ ob[o] = n /\ \A p \in Objects : p # o => ob[p] = k.obj[p]
       /\ mp[url] = o /\ \A u \in Urls : u # url => mp[u] = k.map[u]
  BY <1>0, <1>2, <1>6 DEF KnownState
<1>13. None \notin Node /\ 0 \in MinScore..MaxServerScore
  BY KnownNodesAssumption
<1>14. MappedIsListed(j)
  <2>. SUFFICES ASSUME NEW u \in Urls, j.map[u] # None
                PROVE  /\ j.map[u] \in j.list /\ j.obj[j.map[u]].url = u
                       /\ j.obj[j.map[u]].score \in MinScore..MaxServerScore
    BY DEF MappedIsListed
  <2>1. CASE u = url
    BY <2>1, <1>4, <1>6, <1>11, <1>12, <1>13
  <2>2. CASE u # url
    <3>1. j.map[u] = k.map[u]
      BY <2>2, <1>11, <1>12
    <3>2. /\ k.map[u] \in k.list /\ k.obj[k.map[u]].url = u /\ k.map[u] \in Objects
          /\ k.obj[k.map[u]].score \in MinScore..MaxServerScore
      BY <1>0, <3>1 DEF MappedIsListed, KnownState
    <3>. QED BY <3>1, <3>2, <1>5, <1>6, <1>11, <1>12
  <2>. QED BY <2>1, <2>2
<1>15. ListedIsAllocated(j) /\ SeedsAreMarked(j)
  BY <1>0, <1>2, <1>4, <1>6, <1>11, <1>12, <1>13 DEF ListedIsAllocated, SeedsAreMarked, KnownState
<1>16. SeedsAreMapped(j)
  BY <1>0, <1>4, <1>11, <1>12, KnownNodesAssumption DEF SeedsAreMapped
<1>17. ListIsCounted(j)
  BY <1>10, <1>11 DEF ListIsCounted
<1>. QED
  BY <1>8, <1>11, <1>14, <1>15, <1>16, <1>17 DEF KnownInvariant

\* Whatever can happen next keeps the invariant, stale pointers or not.
LEMMA StepsKeep ==
  ASSUME NEW k, KnownInvariant(k), NEW j \in Steps(k)
  PROVE  KnownInvariant(j)
<1>1. PICK known : known = {o \in Objects : k.obj[o] # None}
  OBVIOUS
<1>5. PICK A, B :
        /\ A = UNION {{IncreaseKnownNodeScore(k, o, TRUE), IncreaseKnownNodeScore(k, o, FALSE),
                 DecreaseKnownNodeScore(k, o, -1), MarkKnownNodeConnected(k, o),
                 MarkKnownNodeDisconnected(k, o)} : o \in known}
        /\ B = UNION {{AddKnownNode(k, u, TRUE), AddKnownNode(k, u, FALSE)} :
                     u \in {v \in Urls : CanAddKnownNode(k, v) /\ known # Objects}}
  OBVIOUS
<1>6. Steps(k) = A \cup B
  BY <1>1, <1>5 DEF Steps
<1>7. j \in A => \E o \in known : j \in {IncreaseKnownNodeScore(k, o, TRUE), IncreaseKnownNodeScore(k, o, FALSE),
                DecreaseKnownNodeScore(k, o, -1), MarkKnownNodeConnected(k, o),
                MarkKnownNodeDisconnected(k, o)}
  BY <1>5, Zenon
<1>8. j \in B => \E u \in {v \in Urls : CanAddKnownNode(k, v) /\ known # Objects} :
                    j \in {AddKnownNode(k, u, TRUE), AddKnownNode(k, u, FALSE)}
  BY <1>5, Zenon
<1>3. CASE \E o \in known : j \in {IncreaseKnownNodeScore(k, o, TRUE), IncreaseKnownNodeScore(k, o, FALSE),
                DecreaseKnownNodeScore(k, o, -1), MarkKnownNodeConnected(k, o),
                MarkKnownNodeDisconnected(k, o)}
  <2>1. PICK o \in known : j \in {IncreaseKnownNodeScore(k, o, TRUE), IncreaseKnownNodeScore(k, o, FALSE),
                DecreaseKnownNodeScore(k, o, -1), MarkKnownNodeConnected(k, o),
                MarkKnownNodeDisconnected(k, o)}
    BY <1>3
  <2>2. o \in Objects /\ k.obj[o] # None
    BY <1>1, <2>1
  <2>3. /\ KnownInvariant(IncreaseKnownNodeScore(k, o, TRUE))
        /\ KnownInvariant(IncreaseKnownNodeScore(k, o, FALSE))
    BY <2>2, IncreaseKeeps
  <2>4. KnownInvariant(DecreaseKnownNodeScore(k, o, -1))
    BY <2>2, DecreaseKeeps
  <2>5. KnownInvariant(MarkKnownNodeConnected(k, o)) /\ KnownInvariant(MarkKnownNodeDisconnected(k, o))
    BY <2>2, MarksKeep
  <2>. QED BY <2>1, <2>3, <2>4, <2>5
<1>4. CASE \E u \in {v \in Urls : CanAddKnownNode(k, v) /\ known # Objects} :
              j \in {AddKnownNode(k, u, TRUE), AddKnownNode(k, u, FALSE)}
  <2>1. PICK u \in Urls : /\ CanAddKnownNode(k, u) /\ known # Objects
                          /\ j \in {AddKnownNode(k, u, TRUE), AddKnownNode(k, u, FALSE)}
    BY <1>4
  <2>2. k.map[u] = None /\ \E o \in Objects : k.obj[o] = None
    BY <1>1, <2>1 DEF CanAddKnownNode
  <2>3. KnownInvariant(AddKnownNode(k, u, TRUE)) /\ KnownInvariant(AddKnownNode(k, u, FALSE))
    BY <2>2, AddKeeps
  <2>. QED BY <2>1, <2>3
<1>. QED BY <1>3, <1>4, <1>6, <1>7, <1>8

\* The start: every seed has an object of its own.
LEMMA StartIsKept == KnownInvariant(Reset(Placement, {}))
<1>1. PICK at : at = Placement
  OBVIOUS
<1>2. at \in [Seeds -> Objects] /\ \A u, v \in Seeds : at[u] = at[v] => u = v
  BY <1>1, KnownNodesAssumption DEF Placement
<1>3. /\ Seeds \subseteq Urls /\ IsFiniteSet(Seeds) /\ None \notin Objects /\ None \notin Node
      /\ 0 \in MinScore..MaxServerScore
  BY KnownNodesAssumption
<1>4. PICK k : k = Reset(Placement, {})
  OBVIOUS
<1>5. k = [obj |-> [o \in Objects |-> IF \E u \in Seeds : at[u] = o
                                    THEN NewNode(CHOOSE u \in Seeds : at[u] = o, TRUE) ELSE None],
           map |-> [u \in Urls |-> IF u \in Seeds THEN at[u] ELSE None],
           list |-> {at[u] : u \in Seeds},
           count |-> Cardinality(Seeds),
           heap |-> [u \in Urls |-> IF u \in Seeds THEN 0 ELSE None]]
  <2>1. Seeds \ {} = Seeds
    OBVIOUS
  <2>. QED BY <1>1, <1>4, <2>1 DEF Reset
<1>6. \A u \in Seeds : (CHOOSE v \in Seeds : at[v] = at[u]) = u
  BY <1>2
<1>16. PICK new : new = [u \in Urls |-> NewNode(u, TRUE)]
  OBVIOUS
<1>7. \A u \in Seeds : k.obj[at[u]] = new[u]
  BY <1>2, <1>3, <1>5, <1>6, <1>16
<1>8. \A o \in Objects : k.obj[o] = None \/ \E u \in Seeds : o = at[u] /\ k.obj[o] = new[u]
  <2>1. \A o \in Objects : k.obj[o] = None \/ \E u \in Seeds : o = at[u]
    BY <1>5
  <2>. QED BY <2>1, <1>7
<1>9. \A u \in Seeds : new[u] \in Node /\ new[u].url = u /\ new[u].seed = TRUE /\ new[u].score = 0
  BY <1>3, <1>16 DEF NewNode, Node
<1>10. IsFiniteSet(k.list) /\ k.count = Cardinality(k.list) /\ k.count \in Nat
  <2>1. at \in Bijection(Seeds, k.list)
    <3>1. k.list = {at[u] : u \in Seeds}
      BY <1>5
    <3>. QED BY <1>2, <3>1 DEF Bijection, Injection, Surjection, IsInjective
  <2>2. ExistsBijection(Seeds, k.list)
    BY <2>1 DEF ExistsBijection
  <2>3. IsFiniteSet(k.list) /\ Cardinality(k.list) = Cardinality(Seeds)
    BY <1>3, <2>2, FS_Bijection
  <2>. QED BY <1>3, <1>5, <2>3, FS_CardinalityType
<1>11. k \in KnownState
  <2>1. k.obj \in [Objects -> Node \cup {None}]
    <3>1. k.obj = [o \in Objects |-> k.obj[o]]
      BY <1>5
    <3>. QED BY <3>1, <1>3, <1>8, <1>9
  <2>2. k.map \in [Urls -> Objects \cup {None}] /\ k.heap \in [Urls -> Int \cup {None}]
        /\ k.list \in SUBSET Objects
    BY <1>2, <1>3, <1>5
  <2>3. k = [obj |-> k.obj, map |-> k.map, list |-> k.list, count |-> k.count, heap |-> k.heap]
    BY <1>5
  <2>. QED BY <2>1, <2>2, <2>3, <1>10 DEF KnownState
<1>12. MappedIsListed(k)
  <2>. SUFFICES ASSUME NEW u \in Urls, k.map[u] # None
                PROVE  /\ k.map[u] \in k.list /\ k.obj[k.map[u]].url = u
                       /\ k.obj[k.map[u]].score \in MinScore..MaxServerScore
    BY DEF MappedIsListed
  <2>1. u \in Seeds /\ k.map[u] = at[u] /\ at[u] \in k.list
    BY <1>5
  <2>. QED BY <2>1, <1>3, <1>7, <1>9
<1>13. ListedIsAllocated(k)
  <2>1. \A o \in k.list : \E u \in Seeds : o = at[u]
    BY <1>5
  <2>. QED BY <2>1, <1>3, <1>7, <1>9 DEF ListedIsAllocated
<1>14. SeedsAreMarked(k)
  BY <1>3, <1>8, <1>9 DEF SeedsAreMarked
<1>15. SeedsAreMapped(k)
  BY <1>2, <1>3, <1>5 DEF SeedsAreMapped
<1>. QED
  BY <1>4, <1>10, <1>11, <1>12, <1>13, <1>14, <1>15 DEF KnownInvariant, ListIsCounted
\* A set of numbers that has a member has a smallest one.
LEMMA SmallestNumber ==
  ASSUME NEW S \in SUBSET Nat, S # {}
  PROVE  \E x \in S : \A y \in S : x <= y
<1>1. PICK x \in S : \A y \in S : ~(<<y, x>> \in OpToRel(<, Nat))
  BY NatLessThanWellFounded, WFMin
<1>2. \A y \in S : ~(y < x)
  BY <1>1 DEF OpToRel
<1>. QED
  BY <1>2

\* Reached is a recursive function: that it exists is shown from its beginnings.
Beginning(g, n) == g = [i \in 0..n |-> IF i = 0 THEN {Reset(Placement, {})} ELSE After(g[i - 1])]

LEMMA BeginningsAgree ==
  ASSUME NEW n \in Nat, NEW m \in Nat, n <= m, NEW g, NEW h, Beginning(g, n), Beginning(h, m)
  PROVE  g[n] = h[n]
<1>1. PICK S : S = {i \in 0..n : g[i] # h[i]}
  OBVIOUS
<1>2. S = {}
  <2>. SUFFICES ASSUME S # {} PROVE FALSE
    OBVIOUS
  <2>1. S \in SUBSET Nat
    BY <1>1
  <2>2. PICK x \in S : \A y \in S : x <= y
    BY <2>1, SmallestNumber
  <2>3. x \in 0..n /\ x \in 0..m /\ x \in Nat /\ g[x] # h[x]
    BY <1>1, <2>2
  <2>4. CASE x = 0
    <3>1. g[0] = {Reset(Placement, {})} /\ h[0] = {Reset(Placement, {})}
      BY <2>3, <2>4 DEF Beginning
    <3>. QED BY <3>1, <2>3, <2>4
  <2>5. CASE x # 0
    <3>1. x - 1 \in Nat /\ x - 1 \in 0..n /\ ~(x <= x - 1)
      BY <2>3, <2>5
    <3>2. x - 1 \notin S
      BY <2>2, <3>1
    <3>3. g[x - 1] = h[x - 1]
      BY <1>1, <3>1, <3>2
    <3>4. g[x] = After(g[x - 1]) /\ h[x] = After(h[x - 1])
      BY <2>3, <2>5 DEF Beginning
    <3>. QED BY <2>3, <3>3, <3>4
  <2>. QED BY <2>4, <2>5
<1>. QED
  BY <1>1, <1>2

LEMMA BeginningsExist ==
  ASSUME NEW n \in Nat
  PROVE  \E g : Beginning(g, n)
<1>1. PICK S : S = {m \in Nat : ~\E g : Beginning(g, m)}
  OBVIOUS
<1>2. S = {}
  <2>. SUFFICES ASSUME S # {} PROVE FALSE
    OBVIOUS
  <2>1. S \in SUBSET Nat
    BY <1>1
  <2>2. PICK x \in S : \A y \in S : x <= y
    BY <2>1, SmallestNumber
  <2>3. x \in Nat /\ ~\E g : Beginning(g, x)
    BY <1>1, <2>2
  <2>4. CASE x = 0
    <3>1. PICK g : g = [i \in 0..x |-> {Reset(Placement, {})}]
      OBVIOUS
    <3>2. \A i \in 0..x : i = 0
      BY <2>4
    <3>3. Beginning(g, x)
      BY <3>1, <3>2 DEF Beginning
    <3>. QED BY <2>3, <3>3
  <2>5. CASE x # 0
    <3>1. x - 1 \in Nat /\ ~(x <= x - 1)
      BY <2>3, <2>5
    <3>2. x - 1 \notin S
      BY <2>2, <3>1
    <3>3. PICK g : Beginning(g, x - 1)
      BY <1>1, <3>1, <3>2
    <3>4. PICK h : h = [i \in 0..x |-> IF i = x THEN After(g[x - 1]) ELSE g[i]]
      OBVIOUS
    <3>5. \A i \in 0..x : i # 0 => h[i] = After(h[i - 1])
      <4>. SUFFICES ASSUME NEW i \in 0..x, i # 0 PROVE h[i] = After(h[i - 1])
        OBVIOUS
      <4>1. i - 1 \in 0..x /\ i - 1 # x
        BY <2>3
      <4>2. h[i - 1] = g[i - 1]
        BY <3>4, <4>1
      <4>3. CASE i = x
        BY <3>4, <4>2, <4>3
      <4>4. CASE i # x
        <5>1. i \in 0..(x - 1)
          BY <2>3, <4>4
        <5>2. g[i] = After(g[i - 1])
          BY <3>3, <5>1 DEF Beginning
        <5>. QED BY <3>4, <4>2, <4>4, <5>2
      <4>. QED BY <4>3, <4>4
    <3>6. h[0] = {Reset(Placement, {})}
      <4>1. 0 \in 0..x /\ 0 \in 0..(x - 1) /\ 0 # x
        BY <2>3, <2>5
      <4>2. g[0] = {Reset(Placement, {})}
        BY <3>3, <4>1 DEF Beginning
      <4>. QED BY <3>4, <4>1, <4>2
    <3>7. Beginning(h, x)
      <4>1. h = [i \in 0..x |-> h[i]]
        BY <3>4
      <4>2. \A i \in 0..x : h[i] = IF i = 0 THEN {Reset(Placement, {})} ELSE After(h[i - 1])
        BY <3>5, <3>6
      <4>. QED BY <4>1, <4>2 DEF Beginning
    <3>. QED BY <2>3, <3>7
  <2>. QED BY <2>4, <2>5
<1>. QED
  BY <1>1, <1>2

LEMMA ReachedIsDefined ==
  Reached = [n \in Nat |-> IF n = 0 THEN {Reset(Placement, {})} ELSE After(Reached[n - 1])]
<1>1. PICK f : f = [n \in Nat |-> (CHOOSE g : Beginning(g, n))[n]]
  OBVIOUS
<1>2. \A n \in Nat : Beginning(CHOOSE g : Beginning(g, n), n)
  BY BeginningsExist
<1>3. ASSUME NEW n \in Nat, NEW g, Beginning(g, n) PROVE f[n] = g[n]
  <2>1. PICK h : h = CHOOSE k : Beginning(k, n)
    OBVIOUS
  <2>2. Beginning(h, n) /\ f[n] = h[n]
    BY <1>1, <1>2, <2>1
  <2>3. n <= n
    OBVIOUS
  <2>. QED BY <1>3, <2>2, <2>3, BeginningsAgree
<1>4. \A n \in Nat : f[n] = IF n = 0 THEN {Reset(Placement, {})} ELSE After(f[n - 1])
  <2>. SUFFICES ASSUME NEW n \in Nat PROVE f[n] = IF n = 0 THEN {Reset(Placement, {})} ELSE After(f[n - 1])
    OBVIOUS
  <2>1. PICK g : Beginning(g, n)
    BY BeginningsExist
  <2>2. f[n] = g[n]
    BY <1>3, <2>1
  <2>3. n \in 0..n
    OBVIOUS
  <2>4. CASE n = 0
    BY <2>1, <2>2, <2>3, <2>4 DEF Beginning
  <2>5. CASE n # 0
    <3>1. n - 1 \in Nat /\ n - 1 <= n
      BY <2>5
    <3>2. g[n] = After(g[n - 1])
      BY <2>1, <2>3, <2>5 DEF Beginning
    <3>3. PICK h : Beginning(h, n - 1)
      BY <3>1, BeginningsExist
    <3>4. f[n - 1] = h[n - 1]
      BY <1>3, <3>1, <3>3
    <3>5. h[n - 1] = g[n - 1]
      BY <2>1, <3>1, <3>3, BeginningsAgree
    <3>. QED BY <2>2, <2>5, <3>2, <3>4, <3>5
  <2>. QED BY <2>4, <2>5
<1>5. f = [n \in Nat |-> IF n = 0 THEN {Reset(Placement, {})} ELSE After(f[n - 1])]
  BY <1>1, <1>4
<1>. QED
  BY <1>5 DEF Reached

LEMMA ReachedIsKept ==
  ASSUME NEW n \in Nat, NEW k \in Reached[n]
  PROVE  KnownInvariant(k)
<1>1. PICK S : S = {m \in Nat : \E j \in Reached[m] : ~KnownInvariant(j)}
  OBVIOUS
<1>2. S = {}
  <2>. SUFFICES ASSUME S # {} PROVE FALSE
    OBVIOUS
  <2>1. S \in SUBSET Nat
    BY <1>1
  <2>2. PICK x \in S : \A y \in S : x <= y
    BY <2>1, SmallestNumber
  <2>3. x \in Nat
    BY <2>1
  <2>4. PICK j \in Reached[x] : ~KnownInvariant(j)
    BY <1>1, <2>2
  <2>5. CASE x = 0
    <3>1. Reached[0] = {Reset(Placement, {})}
      BY ReachedIsDefined
    <3>2. j = Reset(Placement, {})
      BY <2>4, <2>5, <3>1
    <3>. QED BY <2>4, <3>2, StartIsKept
  <2>6. CASE x # 0
    <3>1. x - 1 \in Nat /\ ~(x <= x - 1)
      BY <2>3, <2>6
    <3>2. x - 1 \notin S
      BY <2>2, <3>1
    <3>3. \A i \in Reached[x - 1] : KnownInvariant(i)
      BY <1>1, <3>1, <3>2
    <3>4. Reached[x] = After(Reached[x - 1])
      BY <2>3, <2>6, ReachedIsDefined
    <3>5. j \in Reached[x - 1] \/ \E i \in Reached[x - 1] : j \in Steps(i)
      BY <2>4, <3>4 DEF After
    <3>. QED BY <2>4, <3>3, <3>5, StepsKeep
  <2>. QED BY <2>5, <2>6
<1>. QED
  BY <1>1, <1>2

LEMMA InvariantKeepsNodes ==
  ASSUME NEW k, KnownInvariant(k)
  PROVE  NodesAreKept(k)
<1>0. k \in KnownState /\ MappedIsListed(k) /\ SeedsAreMapped(k) /\ ListIsCounted(k)
  BY DEF KnownInvariant
<1>1. GetRandomKnownNode(k) \subseteq k.list \cup {None}
  BY DEF GetRandomKnownNode
<1>2. \A u \in Urls : k.map[u] \in k.list \cup {None}
  BY <1>0 DEF MappedIsListed
<1>3. GetBestNotConnectedKnownNode(k) \subseteq k.list \cup {None}
  <2>. SUFFICES ASSUME NEW o \in GetBestNotConnectedKnownNode(k) PROVE o \in k.list \cup {None}
    OBVIOUS
  <2>1. o = None \/ o \in GetRandomKnownNode(k) \/ \E u \in Urls : o = k.map[u]
    BY DEF GetBestNotConnectedKnownNode
  <2>. QED BY <2>1, <1>1, <1>2
<1>. QED
  BY <1>0, <1>3 DEF NodesAreKept, MappedIsListed, SeedsAreMapped, ListIsCounted

\* Whatever the dialers, the tickers of the connections, the closers and the downloads of lists do
\* with pointers to known nodes, stale ones too, and however many operations are explored: a node that
\* is found by its url is listed under it with a legal score, no seed is lost, the count is that of
\* the list and dialers pick from there (RemoveKnownNode, DecreaseKnownNodeScore, AddKnownNode).
THEOREM KnownNodesCorrect == Spec => []KnownNodesAreKept
<1>1. \A k \in Explored : NodesAreKept(k)
  BY ReachedIsKept, InvariantKeepsNodes, KnownNodesAssumption DEF Explored
<1>2. KnownNodesAreKept
  BY <1>1 DEF KnownNodesAreKept
<1>. QED
  BY <1>2, PTL
=============================================================================
