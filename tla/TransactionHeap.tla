--------------------------- MODULE TransactionHeap ---------------------------
(***************************************************************************)
(* The priority queue of transactions (pkg/block/transactionheap.go) on    *)
(* top of Go's container/heap.  A heap is a sequence of [Priority,         *)
(* Transaction].  Indices count from 1: the parent of i is i \div 2, its   *)
(* children are 2 * i and 2 * i + 1.  A transaction stands for its hash.   *)
(***************************************************************************)
EXTENDS Integers, Sequences, SequencesExt

Less(heap, i, j) == heap[i].Priority > heap[j].Priority

Swap(heap, i, j) == [heap EXCEPT ![i] = heap[j], ![j] = heap[i]]

\* container/heap: a round of up, where the element at j rises, and a round of
\* down, where it sinks towards the greater child.  A loop that has ended stays
\* as it is.
upRound(s, round) ==
    LET i == s.j \div 2
    IN IF s.j > 1 /\ Less(s.heap, s.j, i)
       THEN [heap |-> Swap(s.heap, i, s.j), j |-> i]
       ELSE s
downRound(s, round) ==
    LET n == Len(s.heap)
        left == 2 * s.j
        child == IF left < n /\ Less(s.heap, left + 1, left) THEN left + 1 ELSE left
    IN IF left <= n /\ Less(s.heap, child, s.j)
       THEN [heap |-> Swap(s.heap, s.j, child), j |-> child]
       ELSE s

\* A loop goes through one level of the heap in a round, so that half as many
\* rounds as there are nodes are enough.
half(heap) == Len(heap) \div 2
rounds(heap) == [k \in 1..half(heap) |-> k]
up(heap, j) == FoldLeft(upRound, [heap |-> heap, j |-> j], rounds(heap)).heap
down(heap, j) == FoldLeft(downRound, [heap |-> heap, j |-> j], rounds(heap)).heap

\* heap.Init and heap.Push of container/heap.
Heapify(heap) == FoldLeft(down, heap, [k \in 1..half(heap) |-> half(heap) + 1 - k])

Push(heap, node) == up(Append(heap, node), Len(heap) + 1)

\* Heap.Add.
AddToHeap(heap, priority, t) == Push(heap, [Priority |-> priority, Transaction |-> t])

\* GetIndex: the first node with transaction t, 0 if there is none.
GetIndex(heap, t) ==
    LET found == {i \in DOMAIN heap : heap[i].Transaction = t}
    IN IF found = {} THEN 0 ELSE CHOOSE i \in found : \A k \in found : i <= k

\* One round of Remove: the last node takes the place of the one that goes.
RemoveNodeTruncate(rest, t) ==                        \* mutant: nothing is swapped
    LET i == GetIndex(rest.heap, t)
    IN IF i = 0 THEN rest
       ELSE [heap |-> Front(rest.heap), removed |-> rest.removed + 1,
             totalPriority |-> rest.totalPriority + rest.heap[i].Priority]
RemoveNode(rest, t) ==
    LET i == GetIndex(rest.heap, t)
        n == Len(rest.heap)
    IN IF i = 0 THEN rest
       ELSE [heap |-> SubSeq([rest.heap EXCEPT ![i] = rest.heap[n]], 1, n - 1),
             removed |-> rest.removed + 1,
             totalPriority |-> rest.totalPriority + rest.heap[i].Priority]

\* Remove: what stays, how many went, and their priorities added up.
RemoveFromHeap(heap, ts) ==
    LET rest == FoldLeft(RemoveNode, [heap |-> heap, removed |-> 0, totalPriority |-> 0], ts)
    IN [rest EXCEPT !.heap = Heapify(@)]
=============================================================================
