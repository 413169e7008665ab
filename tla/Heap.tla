-------------------------------- MODULE Heap --------------------------------
(***************************************************************************)
(* The max heap with a dictionary that ranks the providers of fee          *)
(* liquidity of an asset.  A heap is [array, dict]: the elements, first    *)
(* the root, and the position of each key (0: absent).  The source counts  *)
(* positions from 0, this module from 1.  The loops of upHeapify and       *)
(* downHeapify climb or descend one level per turn, so as many turns as    *)
(* there are elements suffice.                                             *)
(***************************************************************************)
EXTENDS Integers, SequencesExt

LOCAL Positions(h) == 1..Len(h.array)

EmptyHeap(keys) == [array |-> <<>>, dict |-> [k \in keys |-> 0]]

\* NewMaxHeapStoreHashMap: the higher score goes up.
Better(a, b) == b.score < a.score

Parent(i) == IF i = 1 THEN 1 ELSE i \div 2

\* updateElement: the element and the position of its key.
UpdateElement(h, i, x) == [h EXCEPT !.array[i] = x, !.dict[x.key] = i]
AddElement(h, x) == [array |-> Append(h.array, x),
                     dict |-> [h.dict EXCEPT ![x.key] = Len(h.array) + 1]]
RemoveElement(h) == [array |-> Front(h.array),
                     dict |-> [h.dict EXCEPT ![Last(h.array).key] = 0]]

Swap(h, i, j) == UpdateElement(UpdateElement(h, i, h.array[j]), j, h.array[i])

UpHeapify(h, index) ==
    LET Climb(s, n) ==
            IF Better(s.heap.array[s.at], s.heap.array[Parent(s.at)])
            THEN [heap |-> Swap(s.heap, s.at, Parent(s.at)), at |-> Parent(s.at)]
            ELSE s
    IN  FoldLeft(Climb, [heap |-> h, at |-> index], h.array).heap

\* The best of a position and its children.
Smallest(h, i) ==
    LET Pick(best, c) ==
            IF c \in Positions(h) /\ Better(h.array[c], h.array[best]) THEN c ELSE best
    IN  Pick(Pick(i, 2 * i), 2 * i + 1)

DownHeapify(h, index) ==
    LET Descend(s, n) ==
            LET to == Smallest(s.heap, s.at)
            IN  IF to = s.at THEN s ELSE [heap |-> Swap(s.heap, s.at, to), at |-> to]
    IN  FoldLeft(Descend, [heap |-> h, at |-> index], h.array).heap

Insert(h, k, score) ==
    LET added == AddElement(h, [key |-> k, score |-> score])
    IN  UpHeapify(added, Len(added.array))

\* Delete: the last element takes the place of the deleted one, then moves up or down.
Delete(h, index) ==
    LET element == Last(h.array)
        moved == UpdateElement(RemoveElement(h), index, element)
    IN  IF h.array = <<>> THEN h
        ELSE IF index = Len(h.array) THEN RemoveElement(h)
        ELSE IF index > 1 /\ Better(element, moved.array[Parent(index)])
             THEN UpHeapify(moved, index)
        ELSE IF index <= Len(moved.array) \div 2 THEN DownHeapify(moved, index)
        ELSE moved

HasKey(h, k) == h.dict[k] # 0

\* DeleteByKey, for a key that is in the heap.
DeleteByKey(h, k) ==
    LET deleted == Delete(h, h.dict[k])
    IN  [deleted EXCEPT !.dict[k] = 0]

GetTop(h) == h.array[1]

-----------------------------------------------------------------------------
(* What a heap promises *)

\* No element is better than its parent, and the dictionary gives exactly the positions.
Ordered(h) == \A i \in Positions(h) : ~Better(h.array[i], h.array[Parent(i)])
Indexed(h) ==
    \A k \in DOMAIN h.dict :
        IF h.dict[k] = 0 THEN \A i \in Positions(h) : h.array[i].key # k
        ELSE h.dict[k] \in Positions(h) /\ h.array[h.dict[k]].key = k

\* The keys and scores a heap holds, as a reference definition of its content.
Content(h) == {<<h.array[i].key, h.array[i].score>> : i \in Positions(h)}

\* The heap that the insertion of a sequence of scores gives, keyed by position.
Built(scores) ==
    LET Add(h, i) == Insert(h, i, scores[i])
    IN  FoldLeft(Add, EmptyHeap(DOMAIN scores), [i \in DOMAIN scores |-> i])
=============================================================================
