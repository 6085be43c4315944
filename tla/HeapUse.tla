------------------------------- MODULE HeapUse -------------------------------
(* The heap on its own: entries of every key are appended, moved to another *)
(* key, and removed, in every order.                                         *)
EXTENDS IndexedHeap, FiniteSets

CONSTANTS Entries,     \* entry indexes
          MaxDeadline  \* bound on the deadlines

VARIABLES heap, key

Keys == (0..MaxDeadline) \X Entries

Resident == {e \in Entries : heap.position[e] # 0}

\* Type correctness of the heap.
HeapTypeOK ==
    /\ heap.items \in Seq(Entries)
    /\ heap.position \in [Entries -> 0..Len(heap.items)]
    /\ key \in [Entries -> Keys]

HeapInit == heap = EmptyHeap(Entries) /\ key = [e \in Entries |-> <<0, e>>]

\* A Will is scheduled.
Schedule(e, deadline) ==
    LET k == [key EXCEPT ![e] = <<deadline, e>>] IN
    /\ heap.position[e] = 0
    /\ key' = k
    /\ heap' = HeapAppend(k, heap, e)

\* The deadline of a scheduled Will changes.
Reschedule(e, deadline) ==
    LET k == [key EXCEPT ![e] = <<deadline, e>>] IN
    /\ heap.position[e] # 0
    /\ key' = k
    /\ heap' = Fix(k, heap, heap.position[e])

\* Entries outside the heap have no key.
Forget == [e \in Entries |-> IF heap'.position[e] = 0 THEN <<0, e>> ELSE key[e]]

\* A scheduled Will is cancelled, or polled.
Cancel(e) ==
    /\ heap.position[e] # 0
    /\ heap' = HeapRemove(key, heap, heap.position[e])
    /\ key' = Forget

Poll ==
    /\ heap.items # <<>>
    /\ heap' = PopRoot(key, heap)
    /\ key' = Forget

HeapNext ==
    \/ Poll
    \/ \E e \in Entries :
         \/ Cancel(e)
         \/ \E deadline \in 0..MaxDeadline : Schedule(e, deadline) \/ Reschedule(e, deadline)

HeapSpec == HeapInit /\ [][HeapNext]_<<heap, key>>

\* What popRoot removes is the earliest entry, and the oldest of those with
\* the same deadline (pollOneDue looks at no other).
PollsEarliest ==
    [][Poll => \A d, e \in Resident :
          heap'.position[d] = 0 /\ heap'.position[e] # 0 => Before(key[d], key[e])]_<<heap, key>>

\* countDueFrom counts the due entries of the whole heap, although it stops
\* at the first one that is not due on every path (pollDue sizes its caller's
\* buffer with it).
DueCounted ==
    \A now \in 0..MaxDeadline :
        CountDueFrom(key, heap, 1, now) = Cardinality({e \in Resident : key[e][1] <= now})

\* The heap keeps its order, every entry knows its place (remove and fix are
\* called with the place an entry believes it has), and the due are counted.
HeapConsistent ==
    HeapTypeOK /\ HeapOrdered(key, heap) /\ PositionsExact(heap) /\ DueCounted

=============================================================================
