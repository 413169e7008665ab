------------------------- MODULE ReliableMulticast -------------------------
(***************************************************************************)
(* What a multicast channel promises.  Everything that is broadcast gets a *)
(* place in one order.  Who listens hears, from some place on, everything  *)
(* in that order, without gap, repetition or exchange, until it leaves.    *)
(***************************************************************************)
EXTENDS Integers, Sequences

CONSTANTS Listeners, Data

VARIABLES
    open,     \* not closed: then nothing is promised any more
    sent,     \* everything broadcast so far, in the one order
    member,   \* who listens
    from,     \* the place after which each listener began
    heard     \* how much each listener heard since

vars == <<open, sent, member, from, heard>>

Init ==
    /\ open = TRUE
    /\ sent = <<>>
    /\ member = {}
    /\ from = [l \in Listeners |-> 0]
    /\ heard = [l \in Listeners |-> 0]

Send(x) ==
    /\ open = TRUE
    /\ sent' = Append(sent, x)
    /\ UNCHANGED <<open, member, from, heard>>

Join(l) ==
    /\ open /\ l \notin member
    /\ \E n \in 0..Len(sent) : from' = [from EXCEPT ![l] = n]
    /\ heard[l] = 0
    /\ member' = member \cup {l}
    /\ UNCHANGED <<open, sent, heard>>

Leave(left) ==
    /\ open /\ left # {} /\ left \subseteq member
    /\ member' = member \ left
    /\ UNCHANGED <<open, sent, from, heard>>

Hear(l) ==
    /\ open /\ l \in member
    /\ from[l] + heard[l] < Len(sent)
    /\ heard' = [heard EXCEPT ![l] = @ + 1]
    /\ UNCHANGED <<open, sent, member, from>>

Close == open' = FALSE

Next ==
    \/ \E x \in Data : Send(x)
    \/ \E l \in Listeners : Join(l) \/ Hear(l)
    \/ \E left \in SUBSET Listeners : Leave(left)
    \/ Close

\* Who listens hears what comes next.
Spec == Init /\ [][Next]_vars /\ \A l \in Listeners : WF_vars(Hear(l))
=============================================================================
