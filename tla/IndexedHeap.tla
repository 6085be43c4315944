----------------------------- MODULE IndexedHeap -----------------------------
(***************************************************************************)
(* The indexed binary min-heap (src/mqtt/will/indexed_heap.zig).  A heap   *)
(* is [items, position]: the array of entry indexes, and for every entry   *)
(* its place in that array, which the callback setPosition maintains.      *)
(* Places count from 1, and 0 is the null position; key[e] is what         *)
(* lessEntry compares, a deadline and then a generation.                   *)
(***************************************************************************)
EXTENDS Integers, Sequences

EmptyHeap(E) == [items |-> <<>>, position |-> [e \in E |-> 0]]

\* lessEntry.
Before(k, l) == k[1] < l[1] \/ (k[1] = l[1] /\ k[2] < l[2])

Less(key, h, a, b) == Before(key[h.items[a]], key[h.items[b]])

Parent(i) == i \div 2

\* Mutant of Swap: only one of the two positions is updated.
SwapMutant(h, a, b) ==
    [items    |-> [h.items EXCEPT ![a] = h.items[b], ![b] = h.items[a]],
     position |-> [h.position EXCEPT ![h.items[b]] = a]]

Swap(h, a, b) ==
    [items    |-> [h.items EXCEPT ![a] = h.items[b], ![b] = h.items[a]],
     position |-> [h.position EXCEPT ![h.items[b]] = a, ![h.items[a]] = b]]

RECURSIVE SiftUp(_, _, _)
SiftUp(key, h, i) ==
    IF i = 1 \/ ~Less(key, h, i, Parent(i)) THEN h
    ELSE SiftUp(key, Swap(h, i, Parent(i)), Parent(i))

\* The child of i that siftDown compares i with.
Smallest(key, h, i) ==
    IF 2 * i + 1 <= Len(h.items) /\ Less(key, h, 2 * i + 1, 2 * i)
    THEN 2 * i + 1 ELSE 2 * i

RECURSIVE SiftDown(_, _, _)
SiftDown(key, h, i) ==
    IF 2 * i > Len(h.items) \/ ~Less(key, h, Smallest(key, h, i), i) THEN h
    ELSE SiftDown(key, Swap(h, i, Smallest(key, h, i)), Smallest(key, h, i))

Fix(key, h, i) ==
    IF i # 1 /\ Less(key, h, i, Parent(i)) THEN SiftUp(key, h, i)
                                           ELSE SiftDown(key, h, i)

\* appendAssumeCapacity.
HeapAppend(key, h, e) ==
    LET n == Len(h.items) + 1 IN
    SiftUp(key, [items |-> Append(h.items, e), position |-> [h.position EXCEPT ![e] = n]], n)

\* remove: the last entry fills the gap.
HeapRemove(key, h, i) ==
    LET n       == Len(h.items)
        last    == h.items[n]
        shorter == [items    |-> SubSeq(h.items, 1, n - 1),
                    position |-> [h.position EXCEPT ![h.items[i]] = 0]]
    IN IF i = n THEN shorter
       ELSE Fix(key, [items    |-> [shorter.items EXCEPT ![i] = last],
                      position |-> [shorter.position EXCEPT ![last] = i]], i)

\* Mutant of PopRoot: the last entry goes.
PopRootMutant(key, h) == HeapRemove(key, h, Len(h.items))

PopRoot(key, h) == HeapRemove(key, h, 1)

\* countDueFrom (src/mqtt/will/mod.zig), which descends only below due entries.
RECURSIVE CountDueFrom(_, _, _, _)
CountDueFrom(key, h, i, now) ==
    IF i > Len(h.items) THEN 0
    ELSE IF key[h.items[i]][1] > now THEN 0
    ELSE 1 + CountDueFrom(key, h, 2 * i, now) + CountDueFrom(key, h, 2 * i + 1, now)

-----------------------------------------------------------------------------

\* The array is a heap, and position is its inverse.
HeapOrdered(key, h) ==
    \A i \in 2..Len(h.items) : ~Less(key, h, i, Parent(i))

PositionsExact(h) ==
    \A e \in DOMAIN h.position :
        IF h.position[e] = 0 THEN \A i \in 1..Len(h.items) : h.items[i] # e
        ELSE h.position[e] <= Len(h.items) /\ h.items[h.position[e]] = e

=============================================================================
