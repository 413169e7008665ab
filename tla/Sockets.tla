------------------------------ MODULE Sockets ------------------------------
(***************************************************************************)
(* The connections of a node: who opens and who closes one, its handshake, *)
(* the lists and counters of connected nodes, the "ready" channel, the     *)
(* subscriptions.  The threads are                                         *)
(*   - the dialers of continuouslyConnectingNewPeers, and one goroutine of *)
(*     the server for each incoming connection: both run NewConnection;    *)
(*   - whoever closes a connection first (its read pump, its pings, the    *)
(*     opener after a failed handshake) runs closedConnection;             *)
(*   - a goroutine for each message that is read, among them the answer to *)
(*     the handshake.                                                      *)
(* Per connection: stage is where its opener is, closing where its closer  *)
(* is, answer the fate of the entry of the handshake in answerMap.         *)
(* The ready channel is one of Gens; a channel that nobody holds any more  *)
(* may be used again.  What connections do to the known nodes, by whom a   *)
(* dialer picks, is in KnownNodes.tla: a known node is picked here when no *)
(* connection has its url.                                                 *)
(***************************************************************************)
EXTENDS KnownNodes

CONSTANTS
    Dialled,        \* the urls of the known nodes that a dialer may pick
    Conns,          \* the connections that are ever opened: the bound of the model
    Dialers,        \* WEBSOCKETS_CONCURRENT_NEW_CONENCTIONS
    ClientsMax, ServersMax, ReadyThreshold,
    Keys,           \* what one may subscribe to
    MaxSubscriptions

ASSUME SocketsAssumption ==
    /\ IsFiniteSet(Conns) /\ MaxSubscriptions \in Nat
    /\ None \notin Dialled \cup Conns \cup Dialers

Gens == 0..(Cardinality(Conns) + 1)

VARIABLES
    conn,       \* the connections
    dial,       \* per dialer: nil, or the url it has picked
    lost,       \* dialers that ended with a panic
    addresses,  \* AllAddresses
    all,        \* AllList
    counts,     \* Clients, ServerSockets and TotalSockets
    ready,      \* ReadyCn, which channels are closed, ReadyCnClosed
    subs        \* the maps of WebsocketSubscriptions: key -> connections

vars == <<conn, dial, lost, addresses, all, counts, ready, subs>>
net == <<addresses, all, counts, ready, subs>>

Free == [stage |-> "free", closing |-> "no", closed |-> FALSE, status |-> "created", answer |-> "none",
         kind |-> "client", addr |-> None, cn |-> 0, by |-> None,
         list |-> {}, asked |-> {}]

Addresses == Dialled \cup Conns

Init ==
    /\ conn = [c \in Conns |-> Free]
    /\ dial = [d \in Dialers |-> None]
    /\ lost = {}
    /\ addresses = [a \in Addresses |-> None]
    /\ all = {}
    /\ counts = [clients |-> 0, servers |-> 0, total |-> 0]
    /\ ready = [cn |-> 0, closed |-> {}, flag |-> FALSE]
    /\ subs = [k \in Keys |-> {}]

\* Where an opener has returned.
Ended == {"up", "over", "refused"}

Set(c, r) == conn' = [conn EXCEPT ![c] = r]
Goto(c, stage) == conn' = [conn EXCEPT ![c].stage = stage]

-----------------------------------------------------------------------------
(* Dialers *)

\* A dialer picks a node it is not connected to.
PickNode(d) ==
    /\ d \notin lost /\ dial[d] = None
    /\ \A c \in Conns : conn[c].by = d => conn[c].stage \in Ended
    /\ counts.clients < ClientsMax
    /\ \E url \in Dialled : /\ addresses[url] = None
                           /\ dial' = [dial EXCEPT ![d] = url]
    /\ UNCHANGED <<conn, lost, net>>

\* A banned node, or one that cannot be reached (KnownNodes!DecreaseKnownNodeScore).
DialFails(d) ==
    /\ dial[d] # None
    /\ dial' = [dial EXCEPT ![d] = None]
    /\ UNCHANGED <<conn, lost, net>>

NewWebsocketClient(d) ==
    /\ dial[d] # None
    /\ \E c \in Conns :
          /\ conn[c].stage = "free"
          /\ Set(c, [Free EXCEPT !.stage = "new", !.addr = dial[d], !.by = d])
    /\ dial' = [dial EXCEPT ![d] = None]
    /\ UNCHANGED <<lost, net>>

\* An incoming connection.  The limit is checked before the connection counts.
HandleUpgradeConnection(c) ==
    /\ conn[c].stage = "free"
    /\ counts.servers < ServersMax
    /\ Set(c, [Free EXCEPT !.stage = "new", !.addr = c, !.kind = "server"])
    /\ UNCHANGED <<dial, lost, net>>

-----------------------------------------------------------------------------
(* NewConnection *)

\* One connection per address: a second one is given up, without being closed.
JustConnected(c) ==
    /\ conn[c].stage = "new"
    /\ IF addresses[conn[c].addr] = None
       THEN /\ addresses' = [addresses EXCEPT ![conn[c].addr] = c]
            /\ Goto(c, "joined")
       ELSE /\ Goto(c, "refused")
            /\ UNCHANGED addresses
    /\ UNCHANGED <<dial, lost, all, counts, ready, subs>>

\* The pumps run.  sendNowAwait enters the request in answerMap and sends it, unless the connection is closed.
SendHandshake(c) ==
    /\ conn[c].stage = "joined"
    /\ IF conn[c].closed THEN Goto(c, "failed")
       ELSE conn' = [conn EXCEPT ![c].stage = "sent", ![c].answer = "waiting"]
    /\ UNCHANGED <<dial, lost, net>>

AwaitAnswer(c) ==
    /\ conn[c].stage = "sent"
    /\ Goto(c, "await")
    /\ UNCHANGED <<dial, lost, net>>

\* The goroutine that read the answer takes the entry out of the map ...
TakeAnswer(c) ==
    /\ conn[c].answer = "waiting"
    /\ conn' = [conn EXCEPT ![c].answer = "taken"]
    /\ UNCHANGED <<dial, lost, net>>

\* ... and sends it, if the opener waits in its select: otherwise the answer is dropped.
GiveAnswer(c) ==
    /\ conn[c].answer \in {"taken", "kept", "broken"}
    /\ conn' = [conn EXCEPT ![c].stage = IF @ = "await" THEN "answered" ELSE @,
                            ![c].answer = IF @ = "broken" THEN "panic" ELSE "none"]
    /\ UNCHANGED <<dial, lost, net>>

\* Mutant: only a request that nobody answered times out.
TimeOutUnanswered(c) ==
    /\ conn[c].stage = "await" /\ conn[c].answer = "waiting"
    /\ conn' = [conn EXCEPT ![c].stage = "failed", ![c].answer = "none"]
    /\ UNCHANGED <<dial, lost, net>>

\* The opener gives up after a while, or when the connection is closed.  An entry that is
\* still in the map is removed and its channel closed.
TimeOut(c) ==
    /\ conn[c].stage = "await"
    /\ conn' = [conn EXCEPT ![c].stage = "failed",
                            ![c].answer = CASE @ = "waiting" -> "none"
                                            [] @ = "kept" -> "broken"
                                            [] OTHER -> @]
    /\ UNCHANGED <<dial, lost, net>>

\* InitializeConnection: an answer that is not a handshake for this node is a failure.  When
\* the connection was closed meanwhile there is nothing left to do, and no error.
Validate(c) ==
    /\ conn[c].stage = "answered"
    /\ \/ Goto(c, "failed")
       \/ Goto(c, IF conn[c].closed THEN "over" ELSE "checked")
    /\ UNCHANGED <<dial, lost, net>>

SetInitialized(c) ==
    /\ conn[c].stage = "checked"
    /\ conn' = [conn EXCEPT ![c].stage = "initialized", ![c].status = "initialized"]
    /\ UNCHANGED <<dial, lost, net>>

Counted(kind, n) ==
    [clients |-> counts.clients + (IF kind = "client" THEN n ELSE 0),
     servers |-> counts.servers + (IF kind = "server" THEN n ELSE 0),
     total   |-> counts.total + n]

ConnectedHandshakeValidated(c) ==
    /\ conn[c].stage = "initialized"
    /\ all' = all \cup {c}
    /\ counts' = Counted(conn[c].kind, 1)
    /\ conn' = [conn EXCEPT ![c].stage = IF counts'.total >= ReadyThreshold THEN "count" ELSE "up"]
    /\ UNCHANGED <<dial, lost, addresses, ready, subs>>

\* With enough connections the ready channel is closed: loaded first, ...
LoadReady(c) ==
    /\ conn[c].stage = "count"
    /\ conn' = [conn EXCEPT ![c].stage = "load", ![c].cn = ready.cn]
    /\ UNCHANGED <<dial, lost, net>>

\* ... then closed by who sets the flag.  Closing it twice is a panic, which ends a dialer.
CloseReady(c) ==
    /\ conn[c].stage = "load"
    /\ ready' = IF ready.flag THEN ready ELSE [ready EXCEPT !.flag = TRUE, !.closed = @ \cup {conn[c].cn}]
    /\ lost' = IF ~ready.flag /\ conn[c].cn \in ready.closed /\ conn[c].by # None
               THEN lost \cup {conn[c].by} ELSE lost
    /\ conn' = [conn EXCEPT ![c].stage = "up", ![c].cn = 0]
    /\ UNCHANGED <<dial, addresses, all, counts, subs>>

\* After a failed handshake the opener closes the connection, unless another one did.
FailedCloses(c) ==
    /\ conn[c].stage = "failed" /\ ~conn[c].closed
    /\ conn' = [conn EXCEPT ![c].closed = TRUE, ![c].closing = "own"]
    /\ UNCHANGED <<dial, lost, net>>

Failed(c) ==
    /\ conn[c].stage = "failed" /\ conn[c].closed
    /\ conn[c].closing # "own"
    /\ Goto(c, "over")
    /\ UNCHANGED <<dial, lost, net>>

-----------------------------------------------------------------------------
(* Close *)

\* The read pump or the pings fail, or Disconnect is called.
Close(c) ==
    /\ conn[c].stage \notin {"free", "new", "refused"} /\ ~conn[c].closed
    /\ conn' = [conn EXCEPT ![c].closed = TRUE, ![c].closing = "mark"]
    /\ UNCHANGED <<dial, lost, net>>

\* closedConnection: the address is free, the node may be dialled again.
ClosedConnection(c) ==
    /\ conn[c].closing \in {"mark", "own"}
    /\ addresses' = [addresses EXCEPT ![conn[c].addr] = None]
    /\ conn' = [conn EXCEPT ![c].closing = "status"]
    /\ UNCHANGED <<dial, lost, all, counts, ready, subs>>

\* Mutant: whatever its status.
CloseStatusAny(c) ==
    /\ conn[c].closing = "status"
    /\ conn' = [conn EXCEPT ![c].status = "closed", ![c].closing = "listed"]
    /\ UNCHANGED <<dial, lost, net>>

\* Only a connection that was initialized is in the lists.
CloseStatus(c) ==
    /\ conn[c].closing = "status"
    /\ conn' = IF conn[c].status # "initialized" THEN [conn EXCEPT ![c].closing = "done"]
               ELSE [conn EXCEPT ![c].status = "closed", ![c].closing = "listed"]
    /\ UNCHANGED <<dial, lost, net>>

\* processSubscriptions, the one goroutine that has the maps.
NewSubscription(c, k) == [subs EXCEPT ![k] = @ \cup {c}]
OldSubscription(c, k) == [subs EXCEPT ![k] = @ \ {c}]
RemoveConnection(c) == [k \in Keys |-> subs[k] \ {c}]

\* It is taken from the list, the counters and the subscriptions.
Disconnected(c) ==
    /\ conn[c].closing = "listed"
    /\ all' = all \ {c}
    /\ counts' = Counted(conn[c].kind, -1)
    /\ subs' = RemoveConnection(c)
    /\ conn' = [conn EXCEPT ![c].closing = IF counts'.total < ReadyThreshold THEN "ready" ELSE "done"]
    /\ UNCHANGED <<dial, lost, addresses, ready>>

\* With too few connections there is a new ready channel: first the flag, then the channel.
UnsetReady(c) ==
    /\ conn[c].closing = "ready"
    /\ ready' = [ready EXCEPT !.flag = FALSE]
    /\ conn' = [conn EXCEPT ![c].closing = IF ready.flag THEN "store" ELSE "done"]
    /\ UNCHANGED <<dial, lost, addresses, all, counts, subs>>

StoreReady(c) ==
    /\ conn[c].closing = "store"
    /\ LET held == {conn[x].cn : x \in {y \in Conns : conn[y].stage = "load"}}
           g == CHOOSE g \in Gens : g # ready.cn /\ g \notin held
       IN  ready' = [ready EXCEPT !.cn = g, !.closed = @ \cap held]
    /\ conn' = [conn EXCEPT ![c].closing = "done"]
    /\ UNCHANGED <<dial, lost, addresses, all, counts, subs>>

-----------------------------------------------------------------------------
(* Subscriptions *)

\* A message asks for a subscription; its goroutine may run later.
AskSubscription(c, k) ==
    /\ conn[c].stage = "up" /\ ~conn[c].closed /\ k \notin conn[c].asked
    /\ conn' = [conn EXCEPT ![c].asked = @ \cup {k}]
    /\ UNCHANGED <<dial, lost, net>>

\* Added to the list of the connection and, by the goroutine of the subscriptions, to the
\* maps; or refused.
AddSubscription(c, k) ==
    /\ k \in conn[c].asked
    /\ LET refused == Cardinality(conn[c].list) > MaxSubscriptions \/ k \in conn[c].list
       IN  /\ conn' = [conn EXCEPT ![c].asked = @ \ {k}, ![c].list = IF refused THEN @ ELSE @ \cup {k}]
           /\ subs' = IF refused THEN subs ELSE NewSubscription(c, k)
    /\ UNCHANGED <<dial, lost, addresses, all, counts, ready>>

RemoveSubscription(c, k) ==
    /\ conn[c].stage = "up" /\ k \in conn[c].list
    /\ conn' = [conn EXCEPT ![c].list = @ \ {k}]
    /\ subs' = OldSubscription(c, k)
    /\ UNCHANGED <<dial, lost, addresses, all, counts, ready>>

-----------------------------------------------------------------------------
Opening(c) ==
    \/ JustConnected(c) \/ SendHandshake(c) \/ AwaitAnswer(c) \/ TimeOut(c)
    \/ Validate(c) \/ SetInitialized(c) \/ ConnectedHandshakeValidated(c) \/ LoadReady(c)
    \/ CloseReady(c) \/ FailedCloses(c) \/ Failed(c)
Closing(c) ==
    ClosedConnection(c) \/ CloseStatus(c) \/ Disconnected(c) \/ UnsetReady(c) \/ StoreReady(c)

Next ==
    \/ \E d \in Dialers : PickNode(d) \/ DialFails(d) \/ NewWebsocketClient(d)
    \/ \E c \in Conns :
          \/ HandleUpgradeConnection(c) \/ Opening(c) \/ TakeAnswer(c) \/ GiveAnswer(c)
          \/ Close(c) \/ Closing(c)
          \/ \E k \in Keys : AskSubscription(c, k) \/ AddSubscription(c, k) \/ RemoveSubscription(c, k)

\* The threads that open and close connections run on, timeouts included.
Spec ==
    /\ Init /\ [][Next]_vars
    /\ \A c \in Conns : WF_vars(Opening(c)) /\ WF_vars(Closing(c))

-----------------------------------------------------------------------------
(* Properties *)

\* The state keeps its shape, and a dialer opens one connection at a time.
TypeOK ==
    /\ dial \in [Dialers -> Dialled \cup {None}]
    /\ addresses \in [Addresses -> Conns \cup {None}]
    /\ all \subseteq Conns /\ ready.cn \in Gens /\ ready.closed \subseteq Gens
    /\ \A c, x \in Conns : conn[c].by = conn[x].by /\ conn[c].by # None /\ c # x =>
          conn[c].stage \in Ended \/ conn[x].stage \in Ended

\* A connection that is open owns its address: two open connections to one node never exist,
\* whichever dialers race for it.
AddressesAreOwned ==
    \A c \in Conns : /\ ~conn[c].closed /\ conn[c].stage \notin {"free", "new", "refused"} => addresses[conn[c].addr] = c
                     /\ \A a \in Addresses : addresses[a] = c => conn[c].addr = a

\* The counters that limit the connections count the listed ones, whoever closes a
\* connection and whenever: none is counted or discounted twice.  The one exception is the
\* connection whose closer was done before its opener entered it in the list: it is
\* discounted first, and stays in the list for ever.
ListedLate == {c \in Conns : /\ conn[c].status = "closed" /\ conn[c].closing \in {"ready", "store", "done"}
                            /\ (conn[c].stage = "initialized" \/ c \in all)}
CountersDescribeList ==
    LET Listed(kind) == Cardinality({c \in all : conn[c].kind = kind})
                        - Cardinality({c \in ListedLate : conn[c].kind = kind})
    IN  /\ counts.clients = Listed("client")
        /\ counts.servers = Listed("server")
        /\ counts.total = counts.clients + counts.servers

\* The answer to a request is never sent on the channel its requester has closed.
AnswersAreSafe == \A c \in Conns : conn[c].answer # "panic"

\* Who is notified of a key has it in the list of its connection, which bounds how many.
SubscribersAreListed ==
    \A c \in Conns : /\ \A k \in Keys : c \in subs[k] => k \in conn[c].list
                     /\ Cardinality(conn[c].list) <= MaxSubscriptions + 1

\* A closed connection frees its address, so that its node can be dialled again, and an
\* opener always ends.
AddressFreed == \A c \in Conns : conn[c].closed ~> \A a \in Addresses : addresses[a] # c \/ ~conn[c].closed
OpenersEnd == \A c \in Conns : conn[c].stage = "new" ~> conn[c].stage \in Ended

\* Whatever fails, opening ends and closing frees (InitializeConnection, closedConnection).
ConnectionsEnd == AddressFreed /\ OpenersEnd

\* The lists, counters, addresses and answers of the connections agree, whoever opens and
\* closes them and in whatever order (NewConnection, InitializeConnection, closedConnection).
SocketsAreSound ==
    TypeOK /\ AddressesAreOwned /\ CountersDescribeList /\ AnswersAreSafe /\ SubscribersAreListed

\* The known nodes, whatever the order in which dialers, tickers and closers use pointers to
\* them, stale ones too: a node that is found by its url is also in the list, under that url;
\* the seeds are never lost; as many are counted as are in the list, and the dialers only
\* pick from there (KnownNodes).  They share nothing with the connections: what their
\* operations reach is looked at before the first connection only.
KnownNodesAreKept ==
    (\A c \in Conns : conn[c].stage = "free") => \A k \in Explored : NodesAreKept(k)
=============================================================================
