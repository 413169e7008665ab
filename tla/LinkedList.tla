----------------------------- MODULE LinkedList -----------------------------
(***************************************************************************)
(* The singly linked list behind the queue of a multicast channel, cell by *)
(* cell.  A list is [head, tail, length, next, data]: next and data give   *)
(* the successor and the content of each cell that was allocated, in the   *)
(* order of allocation; 0 is nil.  A cell nothing refers to any more is    *)
(* left to the garbage collector and is not used again.                    *)
(***************************************************************************)
EXTENDS Integers, Sequences

NewLinkedList == [head |-> 0, tail |-> 0, length |-> 0, next |-> <<>>, data |-> <<>>]

Cells(l) == 1..Len(l.next)

\* A new cell follows the tail, unless the list is empty: then the tail may be stale.
Push(l, x) ==
    LET c == Len(l.next) + 1
        linked == IF l.head = 0 THEN l.next ELSE [l.next EXCEPT ![l.tail] = c]
    IN  [head |-> IF l.head = 0 THEN c ELSE l.head, tail |-> c, length |-> l.length + 1,
         next |-> Append(linked, 0), data |-> Append(l.data, x)]

IsEmpty(l) == l.head = 0
GetHead(l) == l.data[l.head]
GetTail(l) == l.data[l.tail]

\* Mutant: the emptied list takes its stale tail for its head.
PopHeadStale(l) ==
    [l EXCEPT !.head = IF l.next[l.head] = 0 THEN l.tail ELSE l.next[l.head], !.length = @ - 1]

\* PopHead leaves the tail alone, also when the list becomes empty.
PopHead(l) == [l EXCEPT !.head = l.next[l.head], !.length = @ - 1]

\* GetList returns s: a walk from the head to nil meets its elements.
GetList(l, s) ==
    \E at \in [1..(Len(s) + 1) -> Cells(l) \cup {0}] :
        /\ at[1] = l.head /\ at[Len(s) + 1] = 0
        /\ \A i \in 1..Len(s) : at[i] # 0 /\ l.data[at[i]] = s[i] /\ l.next[at[i]] = at[i + 1]

-----------------------------------------------------------------------------
\* The list holds the elements of a sequence: they are what GetList returns, as many as its
\* length says, and the tail is the last of them and without successor.
Represents(l, s) ==
    /\ l.length = Len(s)
    /\ GetList(l, s)
    /\ s # <<>> => l.next[l.tail] = 0 /\ GetTail(l) = s[Len(s)]
=============================================================================
