----------------------------- MODULE Multicast -----------------------------
(***************************************************************************)
(* A multicast channel: its two goroutines, the callers of Broadcast, and  *)
(* the goroutines that listen.  Every channel is unbuffered, so a send and *)
(* its receive are one step.                                               *)
(*   offered    per sender, the data its Broadcast waits to hand over      *)
(*   queue      the linked list of runQueueBroadcast                       *)
(*   current    the data runInternalBroadcast delivers, or Idle            *)
(*   cloned     has it read the listeners for this data                    *)
(*   rest       the listeners it has still to deliver to                   *)
(*   listeners  the channels that are registered, in order                 *)
(*   closed     the channels that are closed                               *)
(*   reading    the listeners waiting in a receive                         *)
(*   ended      CloseAll closed the channel between the two goroutines     *)
(*   crashed    runQueueBroadcast, which nothing recovers, sent on it      *)
(* and, as history: accepted, in order; what each listener got; the number *)
(* of data delivered to the listeners before each of them came; how many   *)
(* data were handed to the second goroutine and read the listeners.        *)
(***************************************************************************)
EXTENDS LinkedList, FiniteSets

CONSTANTS Senders, Listeners, MaxData, Idle

ASSUME MulticastAssumption == MaxData \in Nat /\ Idle \notin 1..MaxData

VARIABLES offered, queue, current, cloned, rest, listeners, closed, reading, ended, crashed,
          accepted, got, began, given

channelVars == <<offered, queue, current, cloned, rest, listeners, closed, reading, ended, crashed,
          accepted, got, began, given>>

Data == 1..MaxData
InList(l) == \E i \in 1..Len(listeners) : listeners[i] = l

ChannelInit ==
    /\ offered = [s \in Senders |-> Idle]
    /\ queue = NewLinkedList
    /\ current = Idle /\ cloned = FALSE /\ rest = <<>>
    /\ listeners = <<>> /\ closed = {} /\ reading = {}
    /\ ended = FALSE /\ crashed = FALSE
    /\ accepted = <<>>
    /\ got = [l \in Listeners |-> <<>>]
    /\ began = [l \in Listeners |-> 0]
    /\ given = 0

\* A caller of Broadcast waits for runQueueBroadcast; the data are numbered as they come.
Broadcast(s) ==
    LET used == {offered[x] : x \in Senders} \cup {accepted[i] : i \in 1..Len(accepted)}
    IN  /\ offered[s] = Idle
        /\ \E x \in Data : /\ x \notin used
                           /\ \A y \in Data : y < x => y \in used
                           /\ offered' = [offered EXCEPT ![s] = x]
        /\ UNCHANGED <<queue, current, cloned, rest, listeners, closed, reading, ended, crashed,
                       accepted, got, began, given>>

\* runQueueBroadcast takes new data, whether the list is empty or not.
QueueReceive(s) ==
    /\ offered[s] # Idle
    /\ queue' = Push(queue, offered[s])
    /\ accepted' = Append(accepted, offered[s])
    /\ offered' = [offered EXCEPT ![s] = Idle]
    /\ UNCHANGED <<current, cloned, rest, listeners, closed, reading, ended, crashed, got, began, given>>

\* It hands the first of its list to runInternalBroadcast.
QueueSend ==
    /\ ~IsEmpty(queue) /\ ~ended
    /\ current = Idle
    /\ current' = GetHead(queue) /\ cloned' = FALSE
    /\ queue' = PopHead(queue)
    /\ UNCHANGED <<offered, rest, listeners, closed, reading, ended, crashed, accepted, got, began, given>>

\* On a closed channel the send panics.
QueuePanics ==
    /\ ~IsEmpty(queue) /\ ended
    /\ crashed' = TRUE
    /\ UNCHANGED <<offered, queue, current, cloned, rest, listeners, closed, reading, ended,
                   accepted, got, began, given>>

\* runInternalBroadcast reads the listeners under the lock.
CloneListeners ==
    /\ current # Idle /\ ~cloned
    /\ cloned' = TRUE
    /\ rest' = listeners
    /\ given' = given + 1
    /\ UNCHANGED <<offered, queue, current, listeners, closed, reading, ended, crashed,
                   accepted, got, began>>

\* Mutant: a listener that is not in its receive is passed over.
DeliverOrSkip ==
    /\ cloned /\ rest # <<>>
    /\ LET l == Head(rest)
       IN  IF l \in reading /\ l \notin closed
           THEN got' = [got EXCEPT ![l] = Append(@, current)] /\ reading' = reading \ {l}
           ELSE UNCHANGED <<got, reading>>
    /\ rest' = Tail(rest)
    /\ UNCHANGED <<offered, queue, current, cloned, listeners, closed, ended, crashed,
                   accepted, began, given>>

\* It delivers to one listener after the other and waits for each.  A channel that was closed
\* in the meantime is passed over: the panic is recovered.
Deliver ==
    /\ cloned /\ rest # <<>>
    /\ LET l == Head(rest)
       IN  \/ /\ l \in reading /\ l \notin closed
              /\ got' = [got EXCEPT ![l] = Append(@, current)]
              /\ reading' = reading \ {l}
           \/ /\ l \in closed
              /\ UNCHANGED <<got, reading>>
    /\ rest' = Tail(rest)
    /\ UNCHANGED <<offered, queue, current, cloned, listeners, closed, ended, crashed,
                   accepted, began, given>>

Delivered ==
    /\ cloned /\ rest = <<>>
    /\ current' = Idle /\ cloned' = FALSE
    /\ UNCHANGED <<offered, queue, rest, listeners, closed, reading, ended, crashed,
                   accepted, got, began, given>>

AddListener(l) ==
    /\ ~InList(l) /\ l \notin closed
    /\ listeners' = Append(listeners, l)
    /\ began' = [began EXCEPT ![l] = given]
    /\ UNCHANGED <<offered, queue, current, cloned, rest, closed, reading, ended, crashed,
                   accepted, got, given>>

\* The goroutine of a listener returns to its receive.
Read(l) ==
    /\ InList(l) /\ l \notin reading
    /\ reading' = reading \cup {l}
    /\ UNCHANGED <<offered, queue, current, cloned, rest, listeners, closed, ended, crashed,
                   accepted, got, began, given>>

\* Outside its receive a listener may leave.
RemoveChannel(l) ==
    /\ l \notin reading
    /\ \E i \in 1..Len(listeners) :
          /\ listeners[i] = l
          /\ listeners' = SubSeq(listeners, 1, i - 1) \o SubSeq(listeners, i + 1, Len(listeners))
    /\ closed' = closed \cup {l}
    /\ UNCHANGED <<offered, queue, current, cloned, rest, reading, ended, crashed,
                   accepted, got, began, given>>

CloseAll ==
    /\ ~ended
    /\ closed' = closed \cup {l \in Listeners : InList(l)}
    /\ listeners' = <<>>
    /\ reading' = {}
    /\ ended' = TRUE
    /\ UNCHANGED <<offered, queue, current, cloned, rest, crashed, accepted, got, began, given>>

Channel == QueueSend \/ CloneListeners \/ Deliver \/ Delivered
Running ==
    \/ \E s \in Senders : Broadcast(s) \/ QueueReceive(s)
    \/ Channel
    \/ QueuePanics
    \/ \E l \in Listeners : AddListener(l) \/ Read(l) \/ RemoveChannel(l)
    \/ CloseAll

\* After a crash nothing runs.
ChannelNext == ~crashed /\ Running

\* The goroutines of the channel keep running and every listener returns to its receive.
ChannelSpec ==
    /\ ChannelInit /\ [][ChannelNext]_channelVars
    /\ WF_channelVars(~crashed /\ Channel)
    /\ \A s \in Senders : WF_channelVars(~crashed /\ QueueReceive(s))
    /\ \A l \in Listeners : WF_channelVars(~crashed /\ Read(l))

-----------------------------------------------------------------------------
(* Properties *)

\* How many data the second goroutine took, and the ones accepted and not yet taken.
Taken == IF current # Idle /\ ~cloned THEN given + 1 ELSE given
NotTaken == SubSeq(accepted, Taken + 1, Len(accepted))

\* The pointers of the queue always describe the data accepted and not yet handed on, in the
\* order of acceptance, also after it was drained and its tail went stale.
QueueRepresents == Represents(queue, NotTaken)

\* Types, and each listener got a contiguous run of what was accepted.
ChannelTypeOK ==
    /\ offered \in [Senders -> Data \cup {Idle}]
    /\ current \in Data \cup {Idle}
    /\ reading \subseteq {l \in Listeners : InList(l)}
    /\ closed \subseteq Listeners
    /\ given \in 0..Len(accepted)
    /\ \A l \in Listeners : got[l] = SubSeq(accepted, began[l] + 1, began[l] + Len(got[l]))

\* What the channel promises, seen through its variables.
Promise == INSTANCE ReliableMulticast WITH
    sent   <- accepted,
    open   <- ~ended,
    member <- {l \in Listeners : InList(l)},
    from   <- began,
    heard  <- [l \in Listeners |-> Len(got[l])]
\* Until CloseAll the channel implements the reliable multicast: nothing is lost, repeated or
\* exchanged for anyone who listens, whoever else comes, leaves or is slow.
KeepsPromise == Promise!Spec

\* The queue holds what was accepted and not handed on, and every listener got a contiguous
\* run of it (runInternalBroadcast, runQueueBroadcast, LinkedList).
QueueIsSound == ChannelTypeOK /\ QueueRepresents
=============================================================================
