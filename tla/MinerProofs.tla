----------------------------- MODULE MinerProofs -----------------------------
(***************************************************************************)
(* Proofs about Miner for heaps of every size and any number of calls.     *)
(*                                                                         *)
(* The heap comes first: a round of a loop of container/heap is a swap or  *)
(* nothing, so that up, down, Init, Push and Remove keep the nodes they    *)
(* are to keep, and lengths and priorities add up.  Each fold of the model *)
(* is an instance of FoldRules.                                        *)
(*                                                                         *)
(* Then the inductive invariant MInv.  The counters of the pool are        *)
(* updated one by one; CountersInv says what is still due for the calls    *)
(* between two updates, and how the counters are right up to that.         *)
(***************************************************************************)
EXTENDS Miner, SetSums

Ups == INSTANCE FoldRules WITH op <- upRound
Downs == INSTANCE FoldRules WITH op <- downRound
Heaps == INSTANCE FoldRules WITH op <- down
Removals == INSTANCE FoldRules WITH op <- RemoveNode
Picks == INSTANCE FoldRules WITH op <- PickRound
Additions == INSTANCE FoldRules WITH op <- AddInitial
Powers == INSTANCE FoldRules WITH op <- Double

\* Induction, as the rules of FoldRules assume it.
LEMMA Induct ==
    /\ Ups!Inductive /\ Downs!Inductive /\ Heaps!Inductive /\ Removals!Inductive
    /\ Picks!Inductive /\ Additions!Inductive /\ Powers!Inductive
<1>1. ASSUME NEW n \in Nat, NEW P \in SUBSET (SUBSET (1..n)),
             \A T \in SUBSET (1..n) : (\A U \in SUBSET T : U # T => U \in P) => T \in P
      PROVE  P = SUBSET (1..n)
  BY <1>1, IndicesFinite, SubsetInduction
<1> QED BY <1>1, LeastNumber
     DEF Ups!Inductive, Downs!Inductive, Heaps!Inductive, Removals!Inductive, Picks!Inductive,
         Additions!Inductive, Powers!Inductive, Ups!SubsetsInduct, Downs!SubsetsInduct,
         Heaps!SubsetsInduct, Removals!SubsetsInduct, Picks!SubsetsInduct,
         Additions!SubsetsInduct, Powers!SubsetsInduct

-----------------------------------------------------------------------------
(* The heap                                                                *)

Node == [Priority : 1..(Word - 1), Transaction : Transactions]
Priorities(heap) == [i \in DOMAIN heap |-> heap[i].Priority]
Held(heap) == {heap[i].Transaction : i \in DOMAIN heap}

\* g has the nodes of heap in some order, as far as the properties tell.
Arranged(heap, g) ==
    /\ g \in Seq(Node) /\ Len(g) = Len(heap)
    /\ Total(g) = Total(heap) /\ Held(g) = Held(heap)

\* The sum of the priorities as a sum over the indices.
LEMMA TotalIsSum ==
    ASSUME NEW heap
    PROVE  Total(heap) = SumOver(Priorities(heap), DOMAIN heap)
<1>1. DOMAIN Priorities(heap) = DOMAIN heap
  BY DEF Priorities
<1>2. Total(heap) = SumOver(Priorities(heap), DOMAIN Priorities(heap))
  BY DEF Total, FoldFunction, FoldFunctionOnSet, SumOver, MapThenSumSet, Priorities
<1> QED BY <1>1, <1>2

\* The amounts of the transactions in ts.
AmountsAt(f, ts) == [i \in DOMAIN ts |-> f[ts[i]]]

\* Their sum as a sum over the indices.
LEMMA AmountsIsSum ==
    ASSUME NEW f, NEW ts
    PROVE  Amounts(f, ts) = SumOver(AmountsAt(f, ts), DOMAIN ts)
<1>1. DOMAIN AmountsAt(f, ts) = DOMAIN ts
  BY DEF AmountsAt
<1>2. Amounts(f, ts) = SumOver(AmountsAt(f, ts), DOMAIN AmountsAt(f, ts))
  BY DEF Amounts, FoldFunction, FoldFunctionOnSet, SumOver, MapThenSumSet, AmountsAt
<1> QED BY <1>1, <1>2

\* The priorities of a heap.
LEMMA PrioritiesType ==
    ASSUME NEW heap \in Seq(Node)
    PROVE  /\ DOMAIN heap = 1..Len(heap) /\ Len(heap) \in Nat
           /\ IsFiniteSet(DOMAIN heap)
           /\ \A i \in DOMAIN heap : /\ heap[i] \in Node /\ heap[i].Priority \in Nat
                                     /\ Priorities(heap)[i] = heap[i].Priority
           /\ Total(heap) \in Int
<1>1. DOMAIN heap = 1..Len(heap) /\ Len(heap) \in Nat
  OBVIOUS
<1>2. IsFiniteSet(DOMAIN heap)
  BY <1>1, IndicesFinite
<1>w. Word \in Nat
  BY TransactionsAssumption
<1>3. ASSUME NEW i \in DOMAIN heap
      PROVE  /\ heap[i] \in Node /\ heap[i].Priority \in Nat
             /\ Priorities(heap)[i] = heap[i].Priority
  <2>1. heap[i] \in Node
    BY <1>1
  <2>2. heap[i].Priority \in 1..(Word - 1)
    BY <2>1 DEF Node
  <2> QED BY <1>w, <2>1, <2>2 DEF Priorities
<1>4. Total(heap) \in Int
  <2>1. \A i \in DOMAIN heap : Priorities(heap)[i] \in Int
    BY <1>3
  <2> QED BY <1>2, <2>1, SumType, TotalIsSum
<1> QED BY <1>1, <1>2, <1>3, <1>4

\* One node is replaced.
LEMMA ReplaceTotal ==
    ASSUME NEW heap \in Seq(Node), NEW i \in DOMAIN heap, NEW node \in Node
    PROVE  /\ [heap EXCEPT ![i] = node] \in Seq(Node)
           /\ Total([heap EXCEPT ![i] = node]) = Total(heap) - heap[i].Priority + node.Priority
<1>1. PICK g : g = [heap EXCEPT ![i] = node]
  OBVIOUS
<1>2. g \in Seq(Node) /\ DOMAIN g = DOMAIN heap /\ g[i] = node
      /\ \A k \in DOMAIN heap \ {i} : g[k] = heap[k]
  BY <1>1
<1>3. PICK p, q, D : p = Priorities(heap) /\ q = Priorities(g) /\ D = DOMAIN heap
  OBVIOUS
<1>4. IsFiniteSet(D) /\ i \in D /\ \A k \in D : p[k] \in Int /\ q[k] \in Int
  BY <1>2, <1>3, PrioritiesType
<1>5. (\A k \in D \ {i} : q[k] = p[k]) /\ p[i] = heap[i].Priority /\ q[i] = node.Priority
  BY <1>2, <1>3, PrioritiesType
<1>6. SumOver(q, D) = SumOver(p, D) - p[i] + q[i]
  BY ONLY <1>4, <1>5, SumChange
<1>7. Total(heap) = SumOver(p, D) /\ Total(g) = SumOver(q, D)
  BY <1>2, <1>3, TotalIsSum
<1> QED BY <1>1, <1>2, <1>5, <1>6, <1>7

\* Swap rearranges a heap.
LEMMA SwapArranges ==
    ASSUME NEW heap \in Seq(Node), NEW i \in DOMAIN heap, NEW j \in DOMAIN heap
    PROVE  Arranged(heap, Swap(heap, i, j))
<1>1. PICK g, h : g = [heap EXCEPT ![i] = heap[j]] /\ h = [g EXCEPT ![j] = heap[i]]
  OBVIOUS
<1>2. heap[i] \in Node /\ heap[j] \in Node /\ DOMAIN heap = 1..Len(heap)
  BY PrioritiesType
<1>3. g \in Seq(Node) /\ Total(g) = Total(heap) - heap[i].Priority + heap[j].Priority
  BY <1>1, <1>2, ReplaceTotal
<1>4. DOMAIN g = DOMAIN heap /\ DOMAIN h = DOMAIN heap /\ g[j] = heap[j]
  BY <1>1
<1>5. h \in Seq(Node) /\ Total(h) = Total(g) - heap[j].Priority + heap[i].Priority
  BY <1>1, <1>2, <1>3, <1>4, ReplaceTotal
<1>6. Total(h) = Total(heap)
  <2>1. Total(heap) \in Int /\ heap[i].Priority \in Int /\ heap[j].Priority \in Int
    BY PrioritiesType
  <2> QED BY <1>3, <1>5, <2>1
<1>7. Swap(heap, i, j) = h
  BY <1>1 DEF Swap
<1>8. Held(h) = Held(heap)
  <2>1. h[i] = heap[j] /\ h[j] = heap[i] /\ \A k \in DOMAIN heap \ {i, j} : h[k] = heap[k]
    BY <1>1, <1>4
  <2> QED BY <1>4, <2>1 DEF Held
<1>9. Len(h) = Len(heap)
  BY <1>4, <1>5
<1> QED BY <1>5, <1>6, <1>7, <1>8, <1>9 DEF Arranged

\* What is rearranged twice is rearranged.
LEMMA ArrangedTwice ==
    ASSUME NEW heap, NEW g, NEW h, Arranged(heap, g), Arranged(g, h)
    PROVE  Arranged(heap, h)
BY DEF Arranged

\* The loop of up rearranges the heap.
LEMMA UpArranges ==
    ASSUME NEW heap \in Seq(Node), NEW j \in DOMAIN heap
    PROVE  Arranged(heap, up(heap, j))
<1> DEFINE K == {s \in [heap : Seq(Node), j : DOMAIN heap] : Arranged(heap, s.heap)}
           I == [k \in 0..Len(rounds(heap)) |-> K]
           base == [heap |-> heap, j |-> j]
<1>1. rounds(heap) \in Seq(Nat) /\ Len(rounds(heap)) \in Nat
  BY DEF rounds, half
<1>2. base \in I[0]
  BY <1>1 DEF Arranged
<1>3. ASSUME NEW s \in K, NEW r PROVE upRound(s, r) \in K
  <2>1. PICK g, m : g = s.heap /\ m = s.j
    OBVIOUS
  <2>2. g \in Seq(Node) /\ m \in DOMAIN heap /\ Arranged(heap, g) /\ DOMAIN g = DOMAIN heap
    BY <2>1 DEF Arranged
  <2>3. CASE m > 1 /\ Less(g, m, m \div 2)
    <3>1. m \div 2 \in DOMAIN g /\ m \in DOMAIN g
      BY <2>2, <2>3
    <3>2. Arranged(heap, Swap(g, m \div 2, m))
      BY <2>2, <3>1, SwapArranges, ArrangedTwice
    <3>3. upRound(s, r) = [heap |-> Swap(g, m \div 2, m), j |-> m \div 2]
      BY <2>1, <2>3 DEF upRound
    <3> QED BY <2>2, <3>1, <3>2, <3>3 DEF Arranged
  <2>4. CASE ~(m > 1 /\ Less(g, m, m \div 2))
    BY <2>1, <2>4 DEF upRound
  <2> QED BY <2>3, <2>4
<1>4. \A k \in 1..Len(rounds(heap)) : \A a \in I[k - 1] : upRound(a, rounds(heap)[k]) \in I[k]
  <2> HIDE DEF K
  <2> QED BY <1>1, <1>3
<1>5. Ups!Fold(base, rounds(heap)) \in I[Len(rounds(heap))]
  <2> HIDE DEF I, base
  <2> QED BY <1>1, <1>2, <1>4, Ups!FoldSteps, Induct
<1>6. up(heap, j) = Ups!Fold(base, rounds(heap)).heap
  BY DEF up, Ups!Fold, Ups!At, Ups!Steps, Ups!Greatest,
         FoldLeft, MapThenFoldSet, Max
<1> QED BY <1>1, <1>5, <1>6

\* The loop of down too.
LEMMA DownArranges ==
    ASSUME NEW heap \in Seq(Node), NEW j \in DOMAIN heap
    PROVE  Arranged(heap, down(heap, j))
<1> DEFINE K == {s \in [heap : Seq(Node), j : DOMAIN heap] : Arranged(heap, s.heap)}
           I == [k \in 0..Len(rounds(heap)) |-> K]
           base == [heap |-> heap, j |-> j]
<1>1. rounds(heap) \in Seq(Nat) /\ Len(rounds(heap)) \in Nat
  BY DEF rounds, half
<1>2. base \in I[0]
  BY <1>1 DEF Arranged
<1>3. ASSUME NEW s \in K, NEW r PROVE downRound(s, r) \in K
  <2>1. PICK g, m, n, c :
           /\ g = s.heap /\ m = s.j /\ n = Len(g)
           /\ c = IF 2 * m < n /\ Less(g, 2 * m + 1, 2 * m) THEN 2 * m + 1 ELSE 2 * m
    OBVIOUS
  <2>2. g \in Seq(Node) /\ m \in DOMAIN heap /\ Arranged(heap, g) /\ DOMAIN g = DOMAIN heap
    BY <2>1 DEF Arranged
  <2>3. CASE 2 * m <= n /\ Less(g, c, m)
    <3>1. c \in DOMAIN g /\ m \in DOMAIN g
      BY <2>1, <2>2, <2>3
    <3>2. Arranged(heap, Swap(g, m, c))
      BY <2>2, <3>1, SwapArranges, ArrangedTwice
    <3>3. downRound(s, r) = [heap |-> Swap(g, m, c), j |-> c]
      BY <2>1, <2>3 DEF downRound
    <3> QED BY <2>2, <3>1, <3>2, <3>3 DEF Arranged
  <2>4. CASE ~(2 * m <= n /\ Less(g, c, m))
    BY <2>1, <2>4 DEF downRound
  <2> QED BY <2>3, <2>4
<1>4. \A k \in 1..Len(rounds(heap)) : \A a \in I[k - 1] : downRound(a, rounds(heap)[k]) \in I[k]
  <2> HIDE DEF K
  <2> QED BY <1>1, <1>3
<1>5. Downs!Fold(base, rounds(heap)) \in I[Len(rounds(heap))]
  <2> HIDE DEF I, base
  <2> QED BY <1>1, <1>2, <1>4, Downs!FoldSteps, Induct
<1>6. down(heap, j) = Downs!Fold(base, rounds(heap)).heap
  BY DEF down, Downs!Fold, Downs!At, Downs!Steps, Downs!Greatest,
         FoldLeft, MapThenFoldSet, Max
<1> QED BY <1>1, <1>5, <1>6

\* Init of container/heap rearranges the heap.
LEMMA HeapifyArranges ==
    ASSUME NEW heap \in Seq(Node)
    PROVE  Arranged(heap, Heapify(heap))
<1> DEFINE K == {g \in Seq(Node) : Arranged(heap, g)}
           nodes == [k \in 1..half(heap) |-> half(heap) + 1 - k]
           I == [k \in 0..Len(nodes) |-> K]
<1>1. nodes \in Seq(Nat) /\ Len(nodes) \in Nat
  BY DEF half
<1>2. heap \in I[0]
  <2>1. heap \in K
    BY DEF Arranged
  <2> HIDE DEF K, nodes
  <2> QED BY <1>1, <2>1
<1>3. \A k \in 1..Len(nodes) : nodes[k] \in DOMAIN heap
  BY DEF half
<1>4. ASSUME NEW g \in K, NEW j \in DOMAIN heap PROVE down(g, j) \in K
  <2>1. g \in Seq(Node) /\ Arranged(heap, g) /\ j \in DOMAIN g
    BY DEF Arranged
  <2>2. Arranged(g, down(g, j))
    BY <2>1, DownArranges
  <2> QED BY <2>1, <2>2 DEF Arranged
<1>5. \A k \in 1..Len(nodes) : \A a \in I[k - 1] : down(a, nodes[k]) \in I[k]
  <2> HIDE DEF K, nodes
  <2> QED BY <1>1, <1>3, <1>4
<1>6. Heaps!Fold(heap, nodes) \in I[Len(nodes)]
  <2> HIDE DEF I, nodes
  <2> QED BY <1>1, <1>2, <1>5, Heaps!FoldSteps, Induct
<1>7. Heapify(heap) = Heaps!Fold(heap, nodes)
  BY DEF Heapify, Heaps!Fold, Heaps!At, Heaps!Steps, Heaps!Greatest,
         FoldLeft, MapThenFoldSet, Max
<1> HIDE DEF nodes
<1> QED BY <1>1, <1>6, <1>7

\* Add puts one node into the heap.
LEMMA AddToHeapAdds ==
    ASSUME NEW heap \in Seq(Node), NEW p \in 1..(Word - 1), NEW t \in Transactions
    PROVE  /\ AddToHeap(heap, p, t) \in Seq(Node)
           /\ Len(AddToHeap(heap, p, t)) = Len(heap) + 1
           /\ Total(AddToHeap(heap, p, t)) = Total(heap) + p
           /\ Held(AddToHeap(heap, p, t)) = Held(heap) \cup {t}
<1>1. PICK node, g, n : /\ node = [Priority |-> p, Transaction |-> t]
                        /\ g = Append(heap, node) /\ n = Len(heap)
  OBVIOUS
<1>2. node \in Node /\ g \in Seq(Node) /\ n \in Nat /\ DOMAIN heap = 1..n
  BY <1>1 DEF Node
<1>3. DOMAIN g = 1..(n + 1) /\ Len(g) = n + 1 /\ g[n + 1] = node /\ \A i \in 1..n : g[i] = heap[i]
  BY <1>1, <1>2
<1>4. Total(g) = Total(heap) + p
  <2>1. PICK a, b, D : a = Priorities(heap) /\ b = Priorities(g) /\ D = 1..n
    OBVIOUS
  <2>2. /\ IsFiniteSet(D) /\ \A i \in D : a[i] \in Int /\ b[i] = a[i]
        /\ IsFiniteSet(DOMAIN g) /\ \A i \in DOMAIN g : b[i] \in Int
    <3>1. IsFiniteSet(D) /\ \A i \in D : a[i] = heap[i].Priority /\ heap[i].Priority \in Nat
      <4>1. DOMAIN heap = D
        BY <1>2, <2>1
      <4> QED BY <2>1, <4>1, PrioritiesType
    <3>2. IsFiniteSet(DOMAIN g) /\ \A i \in DOMAIN g : b[i] = g[i].Priority /\ g[i].Priority \in Nat
      BY <1>2, <2>1, PrioritiesType
    <3>3. \A i \in D : i \in DOMAIN g /\ g[i] = heap[i]
      BY <1>2, <1>3, <2>1
    <3> QED BY <3>1, <3>2, <3>3
  <2>3. n + 1 \in DOMAIN g /\ DOMAIN g \ {n + 1} = D
    BY <1>2, <1>3, <2>1
  <2>3a. b[n + 1] = p
    BY <1>1, <1>3, <2>1, <2>3 DEF Priorities
  <2>4. SumOver(b, DOMAIN g) = p + SumOver(b, D)
    <3>1. SumOver(b, DOMAIN g) = b[n + 1] + SumOver(b, DOMAIN g \ {n + 1})
      BY ONLY <2>2, <2>3, SumRemove
    <3> QED BY <2>3, <2>3a, <3>1
  <2>5. SumOver(b, D) = SumOver(a, D)
    BY ONLY <2>2, SumEqual
  <2>6. Total(heap) = SumOver(a, D) /\ Total(g) = SumOver(b, DOMAIN g) /\ Total(heap) \in Int
    BY <1>2, <2>1, TotalIsSum, PrioritiesType
  <2>7. p \in Int
    BY TransactionsAssumption
  <2> QED BY <2>4, <2>5, <2>6, <2>7
<1>5. Held(g) = Held(heap) \cup {t}
  <2>1. g[n + 1].Transaction = t
    BY <1>1, <1>3
  <2> QED BY <1>2, <1>3, <2>1 DEF Held
<1>6. AddToHeap(heap, p, t) = up(g, n + 1)
  BY <1>1 DEF AddToHeap, Push
<1>7. Arranged(g, up(g, n + 1))
  BY <1>2, <1>3, UpArranges
<1> QED BY <1>1, <1>3, <1>4, <1>5, <1>6, <1>7 DEF Arranged

\* GetIndex finds a node with the transaction, if there is one.
LEMMA GetIndexFinds ==
    ASSUME NEW heap \in Seq(Node), NEW t, GetIndex(heap, t) # 0
    PROVE  GetIndex(heap, t) \in DOMAIN heap /\ heap[GetIndex(heap, t)].Transaction = t
<1>1. PICK found : found = {i \in DOMAIN heap : heap[i].Transaction = t}
  OBVIOUS
<1>2. found # {} /\ GetIndex(heap, t) = CHOOSE i \in found : \A k \in found : i <= k
  BY <1>1 DEF GetIndex
<1>3. \E i \in found : \A k \in found : i <= k
  <2>1. found \in SUBSET Nat
    BY <1>1
  <2> QED BY <1>2, <2>1, LeastNumber
<1>4. GetIndex(heap, t) \in found
  BY <1>2, <1>3
<1> QED BY <1>1, <1>4

\* The last node goes.
LEMMA TruncateTotal ==
    ASSUME NEW heap \in Seq(Node), NEW n, n = Len(heap), n > 0
    PROVE  /\ SubSeq(heap, 1, n - 1) \in Seq(Node) /\ Len(SubSeq(heap, 1, n - 1)) = n - 1
           /\ \A k \in 1..(n - 1) : SubSeq(heap, 1, n - 1)[k] = heap[k]
           /\ Total(SubSeq(heap, 1, n - 1)) = Total(heap) - heap[n].Priority
<1>1. PICK g : g = SubSeq(heap, 1, n - 1)
  OBVIOUS
<1>2. /\ n \in Nat /\ DOMAIN heap = 1..n /\ g \in Seq(Node) /\ Len(g) = n - 1
      /\ \A k \in 1..(n - 1) : g[k] = heap[k]
  BY <1>1
<1>3. PICK a, b, D : a = Priorities(heap) /\ b = Priorities(g) /\ D = 1..(n - 1)
  OBVIOUS
<1>4. DOMAIN g = D /\ n \in DOMAIN heap /\ DOMAIN heap \ {n} = D
  BY <1>2, <1>3
<1>5. /\ IsFiniteSet(D) /\ IsFiniteSet(DOMAIN heap)
      /\ \A i \in DOMAIN heap : a[i] \in Int
      /\ \A i \in D : a[i] \in Int /\ b[i] = a[i]
  <2>1. \A i \in DOMAIN heap : a[i] = heap[i].Priority /\ a[i] \in Int
    BY <1>3, PrioritiesType
  <2>2. \A i \in D : b[i] = g[i].Priority
    BY <1>2, <1>3, <1>4, PrioritiesType
  <2>3. IsFiniteSet(D) /\ IsFiniteSet(DOMAIN heap)
    BY <1>2, <1>4, PrioritiesType
  <2> QED BY <1>2, <1>3, <1>4, <2>1, <2>2, <2>3
<1>6. SumOver(a, DOMAIN heap) = a[n] + SumOver(a, D)
  <2>1. SumOver(a, DOMAIN heap) = a[n] + SumOver(a, DOMAIN heap \ {n})
    BY ONLY <1>4, <1>5, SumRemove
  <2> QED BY <1>4, <2>1
<1>7. SumOver(b, D) = SumOver(a, D)
  BY ONLY <1>5, SumEqual
<1>8. Total(heap) = SumOver(a, DOMAIN heap) /\ Total(g) = SumOver(b, D) /\ Total(g) \in Int
  BY <1>2, <1>3, <1>4, TotalIsSum, PrioritiesType
<1>9. a[n] = heap[n].Priority /\ heap[n].Priority \in Int
  BY <1>3, <1>4, PrioritiesType
<1> QED BY <1>1, <1>2, <1>6, <1>7, <1>8, <1>9

\* What Remove keeps of a heap and what it took out of it: the nodes and the
\* priorities add up, and nothing is lost that is not in ts.
Rest == [heap : Seq(Node), removed : Nat, totalPriority : Nat]
Removed(heap, gone, rest) ==
    /\ Len(rest.heap) + rest.removed = Len(heap)
    /\ Total(rest.heap) + rest.totalPriority = Total(heap)
    /\ Held(heap) \ gone \subseteq Held(rest.heap)

\* A round of Remove.
LEMMA RemoveNodeRemoves ==
    ASSUME NEW heap \in Seq(Node), NEW gone, NEW rest \in Rest,
           Removed(heap, gone, rest), NEW t \in gone
    PROVE  RemoveNode(rest, t) \in Rest /\ Removed(heap, gone, RemoveNode(rest, t))
<1>1. PICK h, n, i : h = rest.heap /\ n = Len(h) /\ i = GetIndex(h, t)
  OBVIOUS
<1>2. h \in Seq(Node) /\ rest.removed \in Nat /\ rest.totalPriority \in Nat /\ n \in Nat
  BY <1>1 DEF Rest
<1>3. CASE i = 0
  BY <1>1, <1>3 DEF RemoveNode
<1>4. CASE i # 0
  <2>1. i \in DOMAIN h /\ h[i].Transaction = t /\ DOMAIN h = 1..n
    BY <1>1, <1>2, <1>4, GetIndexFinds
  <2>2. n > 0 /\ n \in DOMAIN h /\ h[n] \in Node
    BY <1>2, <2>1
  <2>3. PICK g, r : g = [h EXCEPT ![i] = h[n]] /\ r = SubSeq(g, 1, n - 1)
    OBVIOUS
  <2>4. /\ g \in Seq(Node) /\ Total(g) = Total(h) - h[i].Priority + h[n].Priority
        /\ Len(g) = n /\ g[n] = h[n] /\ g[i] = h[n]
        /\ \A k \in 1..n : k # i => g[k] = h[k]
    <3>1. g \in Seq(Node) /\ Total(g) = Total(h) - h[i].Priority + h[n].Priority
      BY <1>2, <2>1, <2>2, <2>3, ReplaceTotal
    <3> QED BY <1>1, <1>2, <2>1, <2>2, <2>3, <3>1
  <2>5. /\ r \in Seq(Node) /\ Len(r) = n - 1 /\ \A k \in 1..(n - 1) : r[k] = g[k]
        /\ Total(r) = Total(g) - g[n].Priority
    BY <2>2, <2>3, <2>4, TruncateTotal
  <2>6. RemoveNode(rest, t) = [heap |-> r, removed |-> rest.removed + 1,
                               totalPriority |-> rest.totalPriority + h[i].Priority]
    BY <1>1, <1>4, <2>3 DEF RemoveNode
  <2>7. Total(h) \in Int /\ Total(heap) \in Int /\ h[i].Priority \in Nat /\ h[n].Priority \in Nat
    BY <1>2, <2>1, <2>2, PrioritiesType
  <2>8. RemoveNode(rest, t) \in Rest
    <3>1. PICK m, p, q : m = rest.removed /\ p = rest.totalPriority /\ q = h[i].Priority
      OBVIOUS
    <3>2. m + 1 \in Nat /\ p + q \in Nat
      <4>1. m \in Nat /\ p \in Nat /\ q \in Nat
        BY <1>2, <2>7, <3>1
      <4> QED BY ONLY <4>1
    <3>3. RemoveNode(rest, t) = [heap |-> r, removed |-> m + 1, totalPriority |-> p + q]
      BY <2>6, <3>1
    <3> QED BY <2>5, <3>2, <3>3 DEF Rest
  <2>9. Held(heap) \ gone \subseteq Held(r)
    <3> SUFFICES ASSUME NEW x \in Held(heap) \ gone PROVE x \in Held(r)
      OBVIOUS
    <3>1. PICK k \in DOMAIN h : x = h[k].Transaction
      BY <1>1 DEF Removed, Held
    <3>2. k # i
      BY <2>1, <3>1
    <3>3. CASE k = n
      <4>1. i \in DOMAIN r /\ r[i] = h[n]
        BY <1>2, <2>1, <2>4, <2>5, <3>2, <3>3
      <4> QED BY <3>1, <3>3, <4>1 DEF Held
    <3>4. CASE k # n
      <4>1. k \in DOMAIN r /\ r[k] = h[k]
        BY <1>2, <2>1, <2>4, <2>5, <3>2, <3>4
      <4> QED BY <3>1, <4>1 DEF Held
    <3> QED BY <3>3, <3>4
  <2>10. Len(r) + (rest.removed + 1) = Len(heap)
    BY <1>1, <1>2, <2>5 DEF Removed
  <2>11. Total(r) + (rest.totalPriority + h[i].Priority) = Total(heap)
    <3>1. Total(h) + rest.totalPriority = Total(heap)
      BY <1>1 DEF Removed
    <3>2. PICK tr, tg, th, pi, pn, gn :
             /\ tr = Total(r) /\ tg = Total(g) /\ th = Total(h)
             /\ pi = h[i].Priority /\ pn = h[n].Priority /\ gn = g[n].Priority
      OBVIOUS
    <3>3. th \in Int /\ pi \in Int /\ pn \in Int /\ rest.totalPriority \in Int
      BY <1>2, <2>7, <3>2
    <3>4. tg = th - pi + pn /\ tr = tg - gn
      BY <2>4, <2>5, <3>2
    <3>5. gn = pn
      BY <2>4, <3>2
    <3>6. tr + (rest.totalPriority + pi) = th + rest.totalPriority
      BY ONLY <3>3, <3>4, <3>5
    <3> QED BY <3>1, <3>2, <3>6
  <2> QED BY <2>6, <2>8, <2>9, <2>10, <2>11 DEF Removed
<1> QED BY <1>3, <1>4

\* Remove: nodes and priorities add up, and what is not in ts stays.
LEMMA RemoveFromHeapRemoves ==
    ASSUME NEW heap \in Seq(Node), NEW ts \in Seq(Transactions)
    PROVE  /\ RemoveFromHeap(heap, ts) \in Rest
           /\ Removed(heap, ToSet(ts), RemoveFromHeap(heap, ts))
<1> DEFINE gone == ToSet(ts)
           K == {rest \in Rest : Removed(heap, gone, rest)}
           I == [k \in 0..Len(ts) |-> K]
           base == [heap |-> heap, removed |-> 0, totalPriority |-> 0]
<1>1. Len(ts) \in Nat /\ \A k \in 1..Len(ts) : ts[k] \in gone
  BY DEF ToSet
<1>2. base \in I[0]
  <2>1. Total(heap) \in Int /\ Len(heap) \in Nat
    BY PrioritiesType
  <2>2. base \in K
    BY <2>1 DEF Rest, Removed
  <2> HIDE DEF K, base
  <2> QED BY <1>1, <2>2
<1>3. \A k \in 1..Len(ts) : \A a \in I[k - 1] : RemoveNode(a, ts[k]) \in I[k]
  <2>1. \A a \in K : \A t \in gone : RemoveNode(a, t) \in K
    BY RemoveNodeRemoves
  <2> HIDE DEF K, gone
  <2> QED BY <1>1, <2>1
<1>4. Removals!Fold(base, ts) \in I[Len(ts)]
  <2> HIDE DEF I, base
  <2> QED BY <1>2, <1>3, Removals!FoldSteps, Induct
<1>5. PICK rest : rest = Removals!Fold(base, ts)
  OBVIOUS
<1>6. rest \in Rest /\ Removed(heap, gone, rest)
  BY <1>1, <1>4, <1>5
<1>7. RemoveFromHeap(heap, ts) = [rest EXCEPT !.heap = Heapify(rest.heap)]
  BY <1>5 DEF RemoveFromHeap, Removals!Fold, Removals!At, Removals!Steps, Removals!Greatest,
         FoldLeft, MapThenFoldSet, Max
<1>8. rest.heap \in Seq(Node)
  BY <1>6 DEF Rest
<1>9. Arranged(rest.heap, Heapify(rest.heap))
  BY <1>8, HeapifyArranges
<1> HIDE DEF gone
<1>10. PICK h : h = Heapify(rest.heap)
  OBVIOUS
<1>11. /\ h \in Seq(Node) /\ Len(h) = Len(rest.heap)
       /\ Total(h) = Total(rest.heap) /\ Held(h) = Held(rest.heap)
  BY <1>9, <1>10 DEF Arranged
<1>12. PICK res : res = [rest EXCEPT !.heap = h]
  OBVIOUS
<1>13. /\ res \in Rest /\ res.heap = h
       /\ res.removed = rest.removed /\ res.totalPriority = rest.totalPriority
  BY <1>6, <1>11, <1>12 DEF Rest
<1>14. Removed(heap, gone, res)
  BY <1>6, <1>11, <1>13 DEF Removed
<1> QED BY <1>7, <1>10, <1>12, <1>13, <1>14 DEF gone

-----------------------------------------------------------------------------
(* Priorities and pools                                                    *)

\* A quotient is not greater than what is divided.
LEMMA QuotientBound ==
    ASSUME NEW a \in Nat, NEW b \in Nat \ {0}
    PROVE  a \div b \in Nat /\ a \div b <= a
<1>1. PICK q : q = a \div b
  OBVIOUS
<1>2. q \in Int /\ b * q <= a /\ a < b * q + b
  BY <1>1, Z3
<1>3. q >= 0
  <2> SUFFICES ASSUME q <= -1 PROVE FALSE
    BY <1>2
  <2>1. b * q <= b * (-1)
    BY <1>2, Z3
  <2> QED BY <1>2, <2>1
<1>4. q <= b * q
  BY <1>2, <1>3, Z3
<1> QED BY <1>1, <1>2, <1>3, <1>4

\* A priority is at least 1.
LEMMA PriorityType ==
    ASSUME NEW t \in Transactions, NEW s \in Int
    PROVE  CalculatePriority(t, s) \in 1..(Word - 1)
<1>1. /\ Word \in Nat \ {0} /\ OutputSum[t] \in 0..(Word - 1) /\ Size[t] \in 1..(Word - 1)
  BY TransactionsAssumption
<1>2. PICK fees, scaled, pr : /\ fees = (s - OutputSum[t]) % Word
                              /\ scaled = (fees * 100) % Word
                              /\ pr = scaled \div Size[t]
  OBVIOUS
<1>3. fees \in Int
  BY <1>1, <1>2, WordOf
<1>4. scaled \in 0..(Word - 1)
  <2>1. PICK x \in Int : x = fees * 100
    BY <1>3
  <2>2. scaled \in Int /\ 0 <= scaled /\ scaled < Word
    <3>1. scaled = x % Word
      BY <1>2, <2>1
    <3> QED BY <1>1, <3>1, WordOf
  <2> QED BY <1>1, <2>2
<1>5. pr \in Nat /\ pr <= scaled
  BY <1>1, <1>2, <1>4, QuotientBound
<1>6. CalculatePriority(t, s) = IF pr = 0 THEN 1 ELSE pr
  BY <1>2 DEF CalculatePriority
<1> QED BY <1>1, <1>4, <1>5, <1>6

\* The pool a node starts with holds the transactions that were added.
LEMMA InitialHeap ==
    ASSUME NEW added, added = FoldLeft(AddInitial, <<>>, InitialPool)
    PROVE  /\ added \in Seq(Node) /\ Held(added) = ToSet(InitialPool)
<1> DEFINE I == [k \in 0..Len(InitialPool) |->
                    {h \in Seq(Node) : Held(h) = {InitialPool[i] : i \in 1..k}}]
<1>1. InitialPool \in Seq(Transactions) /\ Len(InitialPool) \in Nat
  BY TransactionsAssumption
<1>2. <<>> \in I[0]
  <2>1. << >> \in Seq(Node) /\ Held(<< >>) = {} /\ {InitialPool[i] : i \in 1..0} = {}
    BY DEF Held
  <2> QED BY <1>1, <2>1
<1>3. ASSUME NEW k \in 1..Len(InitialPool), NEW a \in I[k - 1]
      PROVE  AddInitial(a, InitialPool[k]) \in I[k]
  <2>1. PICK t, p : t = InitialPool[k] /\ p = CalculatePriority(t, InputSum[t])
    OBVIOUS
  <2>2. t \in Transactions /\ InputSum[t] \in Int
    BY <1>1, <2>1, TransactionsAssumption
  <2>3. p \in 1..(Word - 1)
    BY <2>1, <2>2, PriorityType
  <2>4. a \in Seq(Node) /\ Held(a) = {InitialPool[i] : i \in 1..(k - 1)}
    BY <1>1
  <2>5. PICK h : h = AddToHeap(a, p, t)
    OBVIOUS
  <2>6. h \in Seq(Node) /\ Held(h) = Held(a) \cup {t}
    BY <2>2, <2>3, <2>4, <2>5, AddToHeapAdds
  <2>7. 1..k = 1..(k - 1) \cup {k}
    BY <1>1
  <2>8. Held(h) = {InitialPool[i] : i \in 1..k}
    BY <2>1, <2>4, <2>6, <2>7
  <2>9. AddInitial(a, InitialPool[k]) = h
    BY <2>1, <2>5 DEF AddInitial
  <2> QED BY <1>1, <2>6, <2>8, <2>9
<1>4. Additions!Fold(<<>>, InitialPool) \in I[Len(InitialPool)]
  <2> HIDE DEF I
  <2> QED BY <1>1, <1>2, <1>3, Additions!FoldSteps, Induct
<1>5. added = Additions!Fold(<<>>, InitialPool)
  BY DEF Additions!Fold, Additions!At, Additions!Steps, Additions!Greatest,
         FoldLeft, MapThenFoldSet, Max
<1>6. ToSet(InitialPool) = {InitialPool[i] : i \in 1..Len(InitialPool)}
  BY <1>1 DEF ToSet
<1> QED BY <1>1, <1>4, <1>5, <1>6

\* The amounts of transactions.
LEMMA AmountsType ==
    ASSUME NEW f \in [Transactions -> Nat], NEW ts \in Seq(Transactions)
    PROVE  /\ DOMAIN ts = 1..Len(ts) /\ IsFiniteSet(DOMAIN ts)
           /\ \A i \in DOMAIN ts : AmountsAt(f, ts)[i] = f[ts[i]] /\ f[ts[i]] \in Nat
           /\ Amounts(f, ts) \in Int
<1>1. DOMAIN ts = 1..Len(ts) /\ Len(ts) \in Nat
  OBVIOUS
<1>2. IsFiniteSet(DOMAIN ts)
  BY <1>1, IndicesFinite
<1>3. \A i \in DOMAIN ts : AmountsAt(f, ts)[i] = f[ts[i]] /\ f[ts[i]] \in Nat
  BY <1>1 DEF AmountsAt
<1>4. Amounts(f, ts) \in Int
  <2>1. \A i \in DOMAIN ts : AmountsAt(f, ts)[i] \in Int
    BY <1>3
  <2> QED BY <1>2, <2>1, SumType, AmountsIsSum
<1> QED BY <1>1, <1>2, <1>3, <1>4

\* One more transaction.
LEMMA AmountsAppend ==
    ASSUME NEW f \in [Transactions -> Nat], NEW ts \in Seq(Transactions), NEW t \in Transactions
    PROVE  Amounts(f, Append(ts, t)) = Amounts(f, ts) + f[t]
<1>1. PICK g, n : g = Append(ts, t) /\ n = Len(ts)
  OBVIOUS
<1>2. /\ n \in Nat /\ g \in Seq(Transactions) /\ Len(g) = n + 1 /\ g[n + 1] = t
      /\ \A i \in 1..n : g[i] = ts[i]
  BY <1>1
<1>3. PICK a, b, D, E : /\ a = AmountsAt(f, ts) /\ b = AmountsAt(f, g)
                        /\ D = DOMAIN ts /\ E = DOMAIN g
  OBVIOUS
<1>4. D = 1..n /\ E = 1..(n + 1)
  BY <1>1, <1>2, <1>3
<1>5. n + 1 \in E /\ E \ {n + 1} = D
  BY <1>2, <1>4
<1>6. /\ IsFiniteSet(D) /\ IsFiniteSet(E) /\ \A i \in E : b[i] \in Int
      /\ \A i \in D : a[i] \in Int /\ b[i] = a[i]
  <2>1. IsFiniteSet(E) /\ \A i \in E : b[i] = f[g[i]] /\ b[i] \in Int
    <3>1. IsFiniteSet(E) /\ \A i \in E : b[i] = f[g[i]] /\ f[g[i]] \in Nat
      BY <1>2, <1>3, AmountsType
    <3> QED BY <3>1
  <2>2. IsFiniteSet(D) /\ \A i \in D : a[i] = f[ts[i]] /\ a[i] \in Int
    BY <1>3, AmountsType
  <2>3. \A i \in D : i \in E /\ g[i] = ts[i]
    BY <1>2, <1>4, <1>5
  <2> QED BY <2>1, <2>2, <2>3
<1>7. b[n + 1] = f[t]
  BY <1>2, <1>3, <1>5, AmountsType
<1>8. SumOver(b, E) = f[t] + SumOver(b, D)
  <2>1. SumOver(b, E) = b[n + 1] + SumOver(b, E \ {n + 1})
    BY ONLY <1>5, <1>6, SumRemove
  <2> QED BY <1>5, <1>7, <2>1
<1>9. SumOver(b, D) = SumOver(a, D)
  BY ONLY <1>6, SumEqual
<1>10. Amounts(f, g) = SumOver(b, E) /\ Amounts(f, ts) = SumOver(a, D)
  BY <1>3, AmountsIsSum
<1>11. SumOver(a, D) \in Int /\ f[t] \in Int
  BY <1>10, AmountsType
<1> QED BY <1>1, <1>8, <1>9, <1>10, <1>11

\* No transaction is so large that the size of a block wraps.
SizesFit == \A t \in Transactions : 100 + BlockSize + Size[t] <= Word

\* The mining pool has transactions of the heap; with the coinbase it is
\* smaller than the limit, or it is empty.
LEMMA MiningPoolFits ==
    ASSUME TxQ \in Seq(Node)
    PROVE  /\ NewMiningPool \in Seq(Transactions)
           /\ SizesFit /\ NewMiningPool # <<>> => 100 + Amounts(Size, NewMiningPool) < BlockSize
<1>1. PICK q : q = TxQ
  OBVIOUS
<1> DEFINE Fits(s) == SizesFit =>
              /\ s.blkSz = 100 + Amounts(Size, s.txs)
              /\ s.txs = <<>> \/ s.blkSz < BlockSize
           K == {s \in [blkSz : Nat, full : BOOLEAN, txs : Seq(Transactions)] : Fits(s)}
           I == [k \in 0..Len(q) |-> K]
           base == [blkSz |-> 100, full |-> FALSE, txs |-> <<>>]
<1>2. q \in Seq(Node) /\ Len(q) \in Nat
  BY <1>1
<1>3. /\ Word \in Nat \ {0} /\ BlockSize \in Nat /\ Size \in [Transactions -> Nat]
      /\ \A t \in Transactions : Size[t] >= 1
  BY TransactionsAssumption, ConfigAssumption
<1>4. base \in K
  <2>1. Amounts(Size, << >>) = 0
    BY SumEmpty, AmountsIsSum
  <2> QED BY <2>1
<1>5. ASSUME NEW s \in K, NEW node \in Node PROVE PickRound(s, node) \in K
  <2>1. PICK t, txs, old, sz : /\ t = node.Transaction /\ txs = s.txs /\ old = s.blkSz
                               /\ sz = (old + Size[t]) % Word
    OBVIOUS
  <2>2. /\ t \in Transactions /\ txs \in Seq(Transactions) /\ old \in Nat /\ Size[t] \in Nat
        /\ SizesFit => old = 100 + Amounts(Size, txs) /\ (txs = <<>> \/ old < BlockSize)
    BY <1>3, <2>1 DEF Node
  <2>3. CASE ~s.full /\ sz < BlockSize
    <3>1. PickRound(s, node) = [blkSz |-> sz, full |-> FALSE, txs |-> Append(txs, t)]
      BY <2>1, <2>3 DEF PickRound
    <3>2. sz \in Nat
      BY <1>3, <2>1, <2>2
    <3>3. ASSUME SizesFit PROVE sz = 100 + Amounts(Size, Append(txs, t))
      <4>1. PICK z, am, more : /\ z = Size[t] /\ am = Amounts(Size, txs)
                               /\ more = Amounts(Size, Append(txs, t))
        OBVIOUS
      <4>2. z \in Nat /\ am \in Int /\ old \in Nat /\ Word \in Nat /\ Word > 0 /\ BlockSize \in Nat
        BY <1>3, <2>2, <4>1, AmountsType
      <4>3. more = am + z
        BY <1>3, <2>2, <4>1, AmountsAppend
      <4>4. 100 + BlockSize + z <= Word
        BY <2>2, <3>3, <4>1 DEF SizesFit
      <4>5. old = 100 + am
        BY <2>2, <3>3, <4>1
      <4>6. old = 100 \/ old < BlockSize
        <5>1. Amounts(Size, << >>) = 0
          BY SumEmpty, AmountsIsSum
        <5>2. txs = <<>> => am = 0
          BY <4>1, <5>1
        <5> QED BY <2>2, <3>3, <4>5, <5>2
      <4>7. sz = (old + z) % Word /\ sz < BlockSize
        BY <2>1, <2>3, <4>1
      <4>8. old + z < Word
        BY ONLY <4>2, <4>4, <4>6, <4>7
      <4>9. sz = old + z
        BY ONLY <4>2, <4>7, <4>8
      <4>10. sz = 100 + more
        BY ONLY <4>2, <4>3, <4>5, <4>9
      <4> QED BY <4>1, <4>10
    <3>4. PICK new : new = Append(txs, t)
      OBVIOUS
    <3>5. new \in Seq(Transactions)
      BY <2>2, <3>4
    <3>6. PickRound(s, node) = [blkSz |-> sz, full |-> FALSE, txs |-> new]
      BY <3>1, <3>4
    <3>7. SizesFit => sz = 100 + Amounts(Size, new)
      BY <3>3, <3>4
    <3> QED BY <2>3, <3>2, <3>5, <3>6, <3>7
  <2>4. CASE ~(~s.full /\ sz < BlockSize)
    BY <2>1, <2>4 DEF PickRound
  <2> QED BY <2>3, <2>4
<1> HIDE DEF K
<1>6. \A k \in 1..Len(q) : \A a \in I[k - 1] : PickRound(a, q[k]) \in I[k]
  BY <1>2, <1>5
<1>7. base \in I[0]
  BY <1>2, <1>4
<1>8. Picks!Fold(base, q) \in I[Len(q)]
  <2> HIDE DEF I, base
  <2> QED BY <1>2, <1>6, <1>7, Picks!FoldSteps, Induct
<1>9. NewMiningPool = Picks!Fold(base, q).txs
  BY <1>1 DEF NewMiningPool, Picks!Fold, Picks!At, Picks!Steps, Picks!Greatest,
         FoldLeft, MapThenFoldSet, Max
<1> HIDE DEF base
<1>10. PICK s : s = Picks!Fold(base, q)
  OBVIOUS
<1>11. s \in K
  BY <1>2, <1>8, <1>10
<1> QED BY <1>9, <1>10, <1>11 DEF K

-----------------------------------------------------------------------------
(* The inductive invariant                                                 *)

Words == 0..(Word - 1)
Adding == {"check", "priority", "push", "count"}
Removing == {"length", "remove", "subtract", "subtractPriority"}
Mining == {"coinbase", "nonce", "send"}
Ending == {"notify", "PoolUpdated", "done"}
Labels == {"absent", "start", "ask", "wait"} \cup Adding \cup Removing \cup Mining \cup Ending
Answers == [chan : {"InputSums", "ReceiveTransactionFromWallet"}, asker : Calls, sums : Words]

TypeInv ==
    /\ TxQ \in Seq(Node) /\ Count \in Words /\ CurrentPriority \in Words
    /\ MiningPool \in Seq(Transactions) /\ ChainLength \in Words /\ coinbase \in Words
    /\ SeenTransactions \subseteq Transactions /\ onChain \subseteq Transactions
    /\ mutex \in Calls \cup {Free}
    /\ loop = Select \/ loop \in Answers
    /\ pc \in [Calls -> Labels]
    /\ sum \in [Calls -> Words] /\ num \in [Calls -> Nat] /\ pri \in [Calls -> Words]
    /\ applied \subseteq Calls

\* Which calls get where.  What is to be added has a priority.
WhereInv ==
    \A c \in Calls :
        /\ pc[c] \in {"ask", "wait"} => Kind[c] # "block"
        /\ pc[c] \in Adding => Kind[c] \in {"request", "forward"}
        /\ pc[c] \in Removing => Kind[c] \in {"block", "mine"}
        /\ pc[c] \in Mining => Kind[c] = "mine"
        /\ pc[c] \in {"priority", "push"} => pri[c] # 0

\* The loop has the answer for the one call that waits.
LoopInv ==
    \A c \in Calls : pc[c] = "wait" => loop \in Answers /\ loop.asker = c /\ loop.chan = Channel(c)

\* A call that changed the heap is past that.
AppliedInv ==
    \A c \in applied : pc[c] \in {"count", "subtract", "subtractPriority"} \cup Ending

\* What the separate updates of the counters have still to add.
CountDue ==
    [c \in Calls |-> CASE pc[c] = "count" -> -1 [] pc[c] = "subtract" -> num[c] [] OTHER -> 0]
PriorityDue ==
    [c \in Calls |-> IF pc[c] \in {"push", "subtract", "subtractPriority"} THEN pri[c] ELSE 0]
CountersInv ==
    /\ Count = (Len(TxQ) + SumOver(CountDue, Calls)) % Word
    /\ CurrentPriority = (Total(TxQ) + SumOver(PriorityDue, Calls)) % Word

\* NothingLost, transaction by transaction.
Adder(c) == Kind[c] \in {"request", "forward"}
Added(t) == t \in ToSet(InitialPool) \/ \E c \in applied : Adder(c) /\ t \in ToSet(Txs[c])
Handled(t) == \E d \in applied : ~Adder(d) /\ t \in ToSet(Asked(d))
LostInv == \A t : Added(t) => Handled(t) \/ t \in Held(TxQ)

MInv == TypeInv /\ WhereInv /\ LoopInv /\ AppliedInv /\ LostInv /\ CountersInv

\* No transaction has more outputs than inputs.
NothingMinted == \A t \in Transactions : OutputSum[t] <= InputSum[t]

\* The outputs of a block that fits do not wrap when they are added up.
OutputsFit ==
    \A ts \in Seq(Transactions) :
        ts = <<>> \/ 100 + Amounts(Size, ts) < BlockSize => Amounts(OutputSum, ts) < Word

\* The mining pool is small, and stays as it is while its call goes on; the
\* input sums reported for it are at most those of its transactions.
Small == MiningPool = <<>> \/ 100 + Amounts(Size, MiningPool) < BlockSize
AnswerSmall ==
    loop \in Answers /\ Kind[loop.asker] = "mine" =>
        /\ pc[loop.asker] \notin {"absent", "start"}
        /\ loop.sums <= Amounts(InputSum, MiningPool)
SumSmall == \A c \in Calls : pc[c] = "coinbase" => sum[c] <= Amounts(InputSum, MiningPool)
Modest ==
    \A c \in Calls :
        Kind[c] = "mine" /\ pc[c] \in {"nonce", "send"} =>
            coinbase <= InitialSubsidy + Amounts(InputSum, MiningPool)
                                       - Amounts(OutputSum, MiningPool)
BlockInv == Small /\ AnswerSmall /\ SumSmall /\ Modest

-----------------------------------------------------------------------------
(* The parts of the invariant hold initially and are kept                  *)

\* Words are what is left of integers.
LEMMA WordType ==
    /\ Word \in Nat \ {0} /\ 0 \in Words /\ 1 \in Words /\ Words \subseteq Nat
    /\ \A x \in Int : x % Word \in Words
<1>1. Word \in Nat \ {0, 1}
  BY TransactionsAssumption
<1>2. \A x \in Int : x % Word \in Words
  BY <1>1, WordOf DEF Words
<1> QED BY <1>1, <1>2 DEF Words

\* The transactions of a call are transactions.
LEMMA CallTypes ==
    ASSUME NEW c \in Calls
    PROVE  /\ Txs[c] \in Seq(Transactions) /\ ToSet(Txs[c]) \subseteq Transactions
           /\ Kind[c] \in {"request", "forward", "block", "mine", "fund"}
           /\ Kind[c] \in {"request", "forward"} =>
                Txs[c][1] \in Transactions /\ ToSet(Txs[c]) = {Txs[c][1]}
<1>1. Txs[c] \in Seq(Transactions) /\ Kind[c] \in {"request", "forward", "block", "mine", "fund"}
  BY CallsAssumption
<1>2. Kind[c] \in {"request", "forward"} => Len(Txs[c]) = 1
  BY CallsAssumption
<1> QED BY <1>1, <1>2 DEF ToSet

\* Amounts are natural numbers.
LEMMA AmountsNatural ==
    ASSUME NEW f \in [Transactions -> Nat], NEW ts \in Seq(Transactions)
    PROVE  Amounts(f, ts) \in Nat
<1>1. PICK D, a, z : D = DOMAIN ts /\ a = AmountsAt(f, ts) /\ z = [i \in D |-> 0]
  OBVIOUS
<1>2. IsFiniteSet(D) /\ \A i \in D : a[i] \in Nat
  BY <1>1, AmountsType
<1>3. \A i \in D : z[i] = 0
  BY <1>1
<1>4. SumOver(z, D) = 0
  BY <1>2, <1>3, SumZero
<1>5. \A i \in D : z[i] \in Int /\ a[i] \in Int /\ z[i] <= a[i]
  BY <1>2, <1>3
<1>6. SumOver(z, D) <= SumOver(a, D)
  BY ONLY <1>2, <1>5, SumLess
<1>7. Amounts(f, ts) = SumOver(a, D) /\ Amounts(f, ts) \in Int
  BY <1>1, AmountsIsSum, AmountsType
<1> QED BY <1>4, <1>6, <1>7

\* The sums the chain reports are words, and at most the inputs.
LEMMA ReportedSums ==
    ASSUME NEW ts \in Seq(Transactions), NEW s \in GetInputSums(ts)
    PROVE  s \in Words /\ s <= Amounts(InputSum, ts)
<1>1. PICK gone \in SUBSET (onChain \cap ToSet(ts)) :
         s = Amounts([t \in Transactions |-> IF t \in gone THEN 0 ELSE InputSum[t]], ts) % Word
  BY DEF GetInputSums
<1>2. PICK f : f = [t \in Transactions |-> IF t \in gone THEN 0 ELSE InputSum[t]]
  OBVIOUS
<1>3. InputSum \in [Transactions -> Nat] /\ f \in [Transactions -> Nat]
  BY <1>2, TransactionsAssumption
<1>4. \A t \in Transactions : f[t] <= InputSum[t]
  BY <1>2, <1>3
<1>5. PICK D, a, b : D = DOMAIN ts /\ a = AmountsAt(f, ts) /\ b = AmountsAt(InputSum, ts)
  OBVIOUS
<1>6. IsFiniteSet(D) /\ \A i \in D : a[i] \in Int /\ b[i] \in Int /\ a[i] <= b[i]
  <2>1. \A i \in D : ts[i] \in Transactions
    BY <1>5
  <2>2. IsFiniteSet(D) /\ \A i \in D : a[i] = f[ts[i]] /\ f[ts[i]] \in Nat
    BY <1>3, <1>5, AmountsType
  <2>3. \A i \in D : b[i] = InputSum[ts[i]] /\ InputSum[ts[i]] \in Nat
    BY <1>3, <1>5, AmountsType
  <2> QED BY <1>4, <2>1, <2>2, <2>3
<1>7. SumOver(a, D) <= SumOver(b, D)
  BY ONLY <1>6, SumLess
<1>8. Amounts(f, ts) = SumOver(a, D) /\ Amounts(InputSum, ts) = SumOver(b, D)
  BY <1>5, AmountsIsSum
<1>9. PICK x, y : x = Amounts(f, ts) /\ y = Amounts(InputSum, ts)
  OBVIOUS
<1>10. x \in Nat /\ y \in Nat /\ x <= y /\ s = x % Word
  BY <1>1, <1>2, <1>3, <1>7, <1>8, <1>9, AmountsNatural
<1>11. s \in Words
  <2>1. x \in Int
    BY <1>10
  <2> QED BY <1>10, <2>1, WordType
<1>12. s <= x
  <2>1. x % Word <= x
    <3>1. Word \in Nat /\ Word > 0
      BY WordType
    <3> QED BY ONLY <1>10, <3>1, Z3
  <2> QED BY <1>10, <2>1
<1> QED BY <1>9, <1>10, <1>11, <1>12, WordType

\* The types hold initially.
LEMMA InitType == Init => TypeInv
<1> SUFFICES ASSUME Init PROVE TypeInv
  OBVIOUS
<1>1. PICK added : added = FoldLeft(AddInitial, <<>>, InitialPool)
  OBVIOUS
<1>2. /\ added \in Seq(Node) /\ TxQ = added
      /\ Count = Len(added) % Word /\ CurrentPriority = Total(added) % Word
  BY <1>1, InitialHeap DEF Init
<1>3. Len(added) \in Int /\ Total(added) \in Int
  BY <1>2, PrioritiesType
<1>4. TxQ \in Seq(Node) /\ Count \in Words /\ CurrentPriority \in Words
  BY <1>2, <1>3, WordType
<1>5. SeenTransactions \subseteq Transactions
  BY TransactionsAssumption DEF Init, ToSet
<1>6. pc \in [Calls -> Labels]
  BY DEF Init, Labels
<1>7. ChainLength \in Words
  BY WordType DEF Init
<1>8. /\ MiningPool \in Seq(Transactions) /\ coinbase \in Words /\ onChain \subseteq Transactions
      /\ mutex \in Calls \cup {Free} /\ loop = Select /\ applied \subseteq Calls
  BY WordType DEF Init
<1>9. sum \in [Calls -> Words] /\ num \in [Calls -> Nat] /\ pri \in [Calls -> Words]
  BY WordType DEF Init
<1> QED BY <1>4, <1>5, <1>6, <1>7, <1>8, <1>9 DEF TypeInv

\* The subsidy is at most the initial one.
LEMMA RewardBound ==
    ASSUME ChainLength \in Nat
    PROVE  CalculateMintingReward \in Nat /\ CalculateMintingReward <= InitialSubsidy
<1>1. PICK k : k = ChainLength \div SubsidyHalvingRate
  OBVIOUS
<1>2. InitialSubsidy \in Nat /\ SubsidyHalvingRate \in Nat \ {0}
  BY ConfigAssumption
<1>3. k \in Nat
  BY <1>1, <1>2, QuotientBound
<1> DEFINE seq == [i \in 1..k |-> i]
           I == [i \in 0..k |-> Nat \ {0}]
<1>4. seq \in Seq(Nat) /\ Len(seq) = k
  BY <1>3
<1>5. 1 \in I[0]
  BY <1>3
<1>6. \A i \in 1..Len(seq) : \A a \in I[i - 1] : Double(a, seq[i]) \in I[i]
  BY <1>3, <1>4 DEF Double
<1>7. Powers!Fold(1, seq) \in I[Len(seq)]
  <2> HIDE DEF I, seq
  <2> QED BY <1>4, <1>5, <1>6, Powers!FoldSteps, Induct
<1>8. PowerOfTwo(k) = Powers!Fold(1, seq)
  BY DEF PowerOfTwo, Powers!Fold, Powers!At, Powers!Steps, Powers!Greatest,
         FoldLeft, MapThenFoldSet, Max
<1>9. PowerOfTwo(k) \in Nat \ {0}
  <2> HIDE DEF seq
  <2> QED BY <1>3, <1>4, <1>7, <1>8
<1>10. CalculateMintingReward \in {0, InitialSubsidy \div PowerOfTwo(k)}
  BY <1>1 DEF CalculateMintingReward
<1> QED BY <1>2, <1>9, <1>10, QuotientBound

\* The amount of a coinbase is a number.
LEMMA CoinbaseType ==
    ASSUME NEW ts \in Seq(Transactions), NEW s \in Int
    PROVE  CalculateFees(ts, s) \in Int
<1>1. OutputSum \in [Transactions -> Nat]
  BY TransactionsAssumption
<1>2. Amounts(OutputSum, ts) \in Int
  BY <1>1, AmountsType
<1>3. Amounts(OutputSum, ts) % Word \in Int
  BY <1>2, WordType
<1> QED BY <1>3 DEF CalculateFees

\* The values a step starts from.
LEMMA LocalTypes ==
    ASSUME TypeInv, NEW c \in Calls
    PROVE  /\ sum[c] \in Nat /\ num[c] \in Nat /\ pri[c] \in Nat /\ pri[c] <= Word - 1
           /\ Count \in Nat /\ CurrentPriority \in Nat /\ ChainLength \in Nat
           /\ MiningPool \in Seq(Transactions) /\ TxQ \in Seq(Node)
<1>1. sum[c] \in Words /\ num[c] \in Nat /\ pri[c] \in Words
  BY DEF TypeInv
<1>2. Count \in Words /\ CurrentPriority \in Words /\ ChainLength \in Words
  BY DEF TypeInv
<1>3. MiningPool \in Seq(Transactions) /\ TxQ \in Seq(Node)
  BY DEF TypeInv
<1> QED BY <1>1, <1>2, <1>3, WordType DEF Words

\* Every step of a call keeps the types.
LEMMA TypeStep ==
    ASSUME TypeInv, WhereInv, NEW c \in Calls, Step(c)
    PROVE  TypeInv'
<1>1. CASE BroadcastTransaction(c)
BY <1>1, CallTypes DEF BroadcastTransaction, TypeInv, Goto, poolVars, minerVars, nodeVars,
         localVars, history, Labels, Adding, Removing, Mining, Ending
<1>2. CASE ForwardTransaction(c)
BY <1>2, CallTypes DEF ForwardTransaction, TypeInv, Goto, poolVars, minerVars, nodeVars,
         localVars, history, Labels, Adding, Removing, Mining, Ending
<1>3. CASE WitnessesMissing(c)
BY <1>3 DEF WitnessesMissing, TypeInv, Goto, poolVars, minerVars, nodeVars, localVars, history,
       Labels, Adding, Removing, Mining, Ending
<1>4. CASE ForwardBlock(c)
BY <1>4, CallTypes DEF ForwardBlock, TypeInv, Goto, poolVars, minerVars, nodeVars, localVars,
         history, Labels, Adding, Removing, Mining, Ending
<1>5. CASE FundingRequest(c)
BY <1>5 DEF FundingRequest, TypeInv, Goto, poolVars, minerVars, nodeVars, localVars, history,
       Labels, Adding, Removing, Mining, Ending
<1>6. CASE Mine(c)
  <2>1. NewMiningPool \in Seq(Transactions)
    BY MiningPoolFits DEF TypeInv
  <2> QED BY <1>6, <2>1 DEF Mine, TypeInv, Goto, poolVars, minerVars, nodeVars, localVars,
         history, Labels, Adding, Removing, Mining, Ending
<1>7. CASE Ask(c)
  <2>1. Asked(c) \in Seq(Transactions)
    BY CallTypes DEF Asked, TypeInv
  <2>2. PICK s \in GetInputSums(Asked(c)) : loop' = [chan |-> Channel(c), asker |-> c, sums |-> s]
    BY <1>7 DEF Ask
  <2>3. s \in Words
    BY <2>1, <2>2, ReportedSums
  <2>4. loop' \in Answers
    BY <2>2, <2>3 DEF Answers, Channel
  <2> QED BY <1>7, <2>4 DEF Ask, TypeInv, Goto, poolVars, minerVars, nodeVars, localVars, history,
       Labels, Adding, Removing, Mining, Ending
<1>8. CASE Receive(c)
  <2>1. loop.sums \in Words
    BY <1>8 DEF Receive, TypeInv, Answers
  <2> QED BY <1>8, <2>1 DEF Receive, Answered, TypeInv, Goto, poolVars, minerVars, nodeVars,
         localVars, history, Labels, Adding, Removing, Mining, Ending
<1>9. CASE TimeOut(c)
BY <1>9, WordType DEF TimeOut, Answered, TypeInv, Goto, poolVars, minerVars, nodeVars,
         localVars, history, Labels, Adding, Removing, Mining, Ending
<1>10. CASE CheckCapacity(c)
  <2>1. CASE Count >= TransactionPoolCapacity
BY <1>10, <2>1 DEF CheckCapacity, TypeInv, Goto, poolVars, minerVars, nodeVars, localVars,
         history, Labels, Adding, Removing, Mining, Ending
  <2>2. CASE ~(Count >= TransactionPoolCapacity)
    <3>1. Txs[c][1] \in Transactions /\ sum[c] \in Int
      BY <1>10, CallTypes, LocalTypes DEF CheckCapacity, WhereInv, Adding
    <3>2. CalculatePriority(Txs[c][1], sum[c]) \in Words
      BY <3>1, PriorityType DEF Words
<3> QED BY <1>10, <2>2, <3>2 DEF CheckCapacity, TypeInv, Goto, poolVars, minerVars, nodeVars,
         localVars, history, Labels, Adding, Removing, Mining, Ending
  <2> QED BY <2>1, <2>2
<1>11. CASE AddPriority(c)
  <2>1. CurrentPriority + pri[c] \in Int
    BY LocalTypes
  <2>2. CurrentPriority' \in Words
    BY <1>11, <2>1, WordType DEF AddPriority
  <2> QED BY <1>11, <2>2 DEF AddPriority, TypeInv, Goto, poolVars, minerVars, nodeVars, localVars,
         history, Labels, Adding, Removing, Mining, Ending
<1>12. CASE PushTransaction(c)
  <2>1. Txs[c][1] \in Transactions /\ pri[c] \in 1..(Word - 1) /\ TxQ \in Seq(Node)
    <3>1. Txs[c][1] \in Transactions /\ pri[c] # 0
      BY <1>12, CallTypes DEF PushTransaction, WhereInv, Adding
    <3>2. PICK p : p = pri[c]
      OBVIOUS
    <3>3. p \in Nat /\ p <= Word - 1 /\ p # 0 /\ Word \in Nat
      BY <3>1, <3>2, LocalTypes, WordType
    <3>4. p \in 1..(Word - 1)
      BY ONLY <3>3
    <3> QED BY <3>1, <3>2, <3>4, LocalTypes
  <2>2. TxQ' \in Seq(Node)
    BY <1>12, <2>1, AddToHeapAdds DEF PushTransaction
  <2> QED BY <1>12, <2>2 DEF PushTransaction, TypeInv, Goto, poolVars, minerVars, nodeVars,
         localVars, history, Labels, Adding, Removing, Mining, Ending
<1>13. CASE CountUp(c)
  <2>1. Count + 1 \in Int
    BY WordType DEF TypeInv
  <2>2. Count' \in Words
    BY <1>13, <2>1, WordType DEF CountUp
  <2> QED BY <1>13, <2>2 DEF CountUp, TypeInv, Goto, poolVars, minerVars, nodeVars, localVars,
         history, Labels, Adding, Removing, Mining, Ending
<1>14. CASE IncrementChainLength(c)
  <2>1. ChainLength + 1 \in Int
    BY WordType DEF TypeInv
  <2>2. ChainLength' \in Words
    BY <1>14, <2>1, WordType DEF IncrementChainLength
  <2> QED BY <1>14, <2>2 DEF IncrementChainLength, TypeInv, Goto, poolVars, minerVars, nodeVars,
         localVars, history, Labels, Adding, Removing, Mining, Ending
<1>15. CASE RemoveTransactions(c)
  <2>1. Asked(c) \in Seq(Transactions) /\ TxQ \in Seq(Node)
    BY CallTypes DEF Asked, TypeInv
  <2>2. PICK rest : rest = RemoveFromHeap(TxQ, Asked(c))
    OBVIOUS
  <2>3. rest.heap \in Seq(Node) /\ rest.removed \in Nat /\ rest.totalPriority \in Int
    BY <2>1, <2>2, RemoveFromHeapRemoves DEF Rest
  <2>4. rest.totalPriority % Word \in Words
    BY <2>3, WordType
  <2>5. /\ TxQ' = rest.heap /\ num' = [num EXCEPT ![c] = rest.removed]
        /\ pri' = [pri EXCEPT ![c] = rest.totalPriority % Word]
    BY <1>15, <2>2 DEF RemoveTransactions, AmountRemoved
  <2> QED BY <1>15, <2>3, <2>4, <2>5 DEF RemoveTransactions, TypeInv, Goto, poolVars, minerVars,
       nodeVars, localVars, history, Labels, Adding, Removing, Mining, Ending
<1>16. CASE CountDown(c)
  <2>1. Count - num[c] \in Int
    BY LocalTypes
  <2>2. Count' \in Words
    BY <1>16, <2>1, WordType DEF CountDown
  <2> QED BY <1>16, <2>2 DEF CountDown, TypeInv, Goto, poolVars, minerVars, nodeVars, localVars,
         history, Labels, Adding, Removing, Mining, Ending
<1>17. CASE SubtractPriority(c)
  <2>1. CurrentPriority - pri[c] \in Int
    BY LocalTypes
  <2>2. CurrentPriority' \in Words
    BY <1>17, <2>1, WordType DEF SubtractPriority
  <2> QED BY <1>17, <2>2 DEF SubtractPriority, TypeInv, Goto, poolVars, minerVars, nodeVars,
         localVars, history, Labels, Adding, Removing, Mining, Ending
<1>18. CASE Notify(c)
BY <1>18, WordType DEF Notify, ForgetLocals, TypeInv, Goto, poolVars, minerVars, nodeVars,
         localVars, history, Labels, Adding, Removing, Mining, Ending
<1>19. CASE GenerateCoinbaseTransaction(c)
  <2>1. CalculateFees(MiningPool, sum[c]) + CalculateMintingReward \in Int
    <3>1. CalculateFees(MiningPool, sum[c]) \in Int
      <4>1. PICK ts, s : ts = MiningPool /\ s = sum[c]
        OBVIOUS
      <4>2. ts \in Seq(Transactions) /\ s \in Int
        BY <4>1, LocalTypes
      <4> QED BY <4>1, <4>2, CoinbaseType
    <3>2. CalculateMintingReward \in Int
      BY LocalTypes, RewardBound
    <3> QED BY <3>1, <3>2
  <2>2. coinbase' \in Words
    BY <1>19, <2>1, WordType DEF GenerateCoinbaseTransaction
  <2> QED BY <1>19, <2>2 DEF GenerateCoinbaseTransaction, TypeInv, Goto, poolVars, minerVars,
       nodeVars, localVars, history, Labels, Adding, Removing, Mining, Ending
<1>20. CASE CalculateNonce(c)
BY <1>20 DEF CalculateNonce, TypeInv, Goto, poolVars, minerVars, nodeVars, localVars, history,
       Labels, Adding, Removing, Mining, Ending
<1>21. CASE HandleMinerBlock(c)
  <2>1. ToSet(MiningPool) \subseteq Transactions
    BY DEF TypeInv, ToSet
  <2> QED BY <1>21, <2>1 DEF HandleMinerBlock, TypeInv, Goto, poolVars, minerVars, nodeVars,
         localVars, history, Labels, Adding, Removing, Mining, Ending
<1> QED BY <1>1, <1>2, <1>3, <1>4, <1>5, <1>6, <1>7, <1>8, <1>9, <1>10, <1>11, <1>12, <1>13,
     <1>14, <1>15, <1>16, <1>17, <1>18, <1>19, <1>20, <1>21 DEF Step

\* Every step of a call keeps WhereInv.
LEMMA WhereStep ==
    ASSUME TypeInv, WhereInv, NEW c \in Calls, Step(c)
    PROVE  WhereInv'
<1>1. CASE BroadcastTransaction(c)
  BY <1>1 DEF BroadcastTransaction, WhereInv, TypeInv, Goto, poolVars, minerVars, nodeVars,
       localVars, history, Adding, Removing, Mining, Ending
<1>2. CASE ForwardTransaction(c)
  BY <1>2 DEF ForwardTransaction, WhereInv, TypeInv, Goto, poolVars, minerVars, nodeVars,
       localVars, history, Adding, Removing, Mining, Ending
<1>3. CASE WitnessesMissing(c)
  BY <1>3 DEF WitnessesMissing, WhereInv, TypeInv, Goto, poolVars, minerVars, nodeVars,
       localVars, history, Adding, Removing, Mining, Ending
<1>4. CASE ForwardBlock(c)
  BY <1>4 DEF ForwardBlock, WhereInv, TypeInv, Goto, poolVars, minerVars, nodeVars,
       localVars, history, Adding, Removing, Mining, Ending
<1>5. CASE FundingRequest(c)
  BY <1>5 DEF FundingRequest, WhereInv, TypeInv, Goto, poolVars, minerVars, nodeVars,
       localVars, history, Adding, Removing, Mining, Ending
<1>6. CASE Mine(c)
  BY <1>6 DEF Mine, WhereInv, TypeInv, Goto, poolVars, minerVars, nodeVars, localVars,
       history, Adding, Removing, Mining, Ending
<1>7. CASE Ask(c)
  BY <1>7 DEF Ask, WhereInv, TypeInv, Goto, poolVars, minerVars, nodeVars, localVars,
       history, Adding, Removing, Mining, Ending
<1>8. CASE Receive(c)
  BY <1>8, CallTypes DEF Receive, Answered, WhereInv, TypeInv, Goto, poolVars, minerVars,
       nodeVars, localVars, history, Adding, Removing, Mining, Ending
<1>9. CASE TimeOut(c)
  BY <1>9, CallTypes DEF TimeOut, Answered, WhereInv, TypeInv, Goto, poolVars, minerVars,
       nodeVars, localVars, history, Adding, Removing, Mining, Ending
<1>10. CASE CheckCapacity(c)
  <2>1. CASE Count >= TransactionPoolCapacity
    BY <1>10, <2>1 DEF CheckCapacity, WhereInv, TypeInv, Goto, poolVars, minerVars,
         nodeVars, localVars, history, Adding, Removing, Mining, Ending
  <2>2. CASE ~(Count >= TransactionPoolCapacity)
    <3>1. Txs[c][1] \in Transactions /\ sum[c] \in Int
      BY <1>10, CallTypes, LocalTypes DEF CheckCapacity, WhereInv, Adding
    <3>2. CalculatePriority(Txs[c][1], sum[c]) \in 1..(Word - 1)
      BY <3>1, PriorityType
    <3>3. PICK p : p = CalculatePriority(Txs[c][1], sum[c])
      OBVIOUS
    <3>4. p # 0
      BY <3>2, <3>3
    <3>5. pri' = [pri EXCEPT ![c] = p] /\ pc' = [pc EXCEPT ![c] = "priority"] /\ pc[c] = "check"
      BY <1>10, <2>2, <3>3 DEF CheckCapacity, Goto
    <3> QED BY <3>4, <3>5 DEF WhereInv, TypeInv, Adding, Removing, Mining, Ending
  <2> QED BY <2>1, <2>2
<1>11. CASE AddPriority(c)
  BY <1>11 DEF AddPriority, WhereInv, TypeInv, Goto, poolVars, minerVars, nodeVars,
       localVars, history, Adding, Removing, Mining, Ending
<1>12. CASE PushTransaction(c)
  BY <1>12 DEF PushTransaction, WhereInv, TypeInv, Goto, poolVars, minerVars, nodeVars,
       localVars, history, Adding, Removing, Mining, Ending
<1>13. CASE CountUp(c)
  BY <1>13 DEF CountUp, WhereInv, TypeInv, Goto, poolVars, minerVars, nodeVars, localVars,
       history, Adding, Removing, Mining, Ending
<1>14. CASE IncrementChainLength(c)
  BY <1>14 DEF IncrementChainLength, WhereInv, TypeInv, Goto, poolVars, minerVars, nodeVars,
       localVars, history, Adding, Removing, Mining, Ending
<1>15. CASE RemoveTransactions(c)
  <2>1. pc[c] = "remove" /\ pc' = [pc EXCEPT ![c] = "subtract"] /\ \A d \in Calls : d # c =>
       pri'[d] = pri[d]
    BY <1>15 DEF RemoveTransactions, TypeInv, Goto
  <2> QED BY <2>1 DEF WhereInv, TypeInv, Adding, Removing, Mining, Ending
<1>16. CASE CountDown(c)
  BY <1>16 DEF CountDown, WhereInv, TypeInv, Goto, poolVars, minerVars, nodeVars, localVars,
       history, Adding, Removing, Mining, Ending
<1>17. CASE SubtractPriority(c)
  BY <1>17 DEF SubtractPriority, WhereInv, TypeInv, Goto, poolVars, minerVars, nodeVars,
       localVars, history, Adding, Removing, Mining, Ending
<1>18. CASE Notify(c)
  BY <1>18 DEF Notify, ForgetLocals, WhereInv, TypeInv, Goto, poolVars, minerVars, nodeVars,
       localVars, history, Adding, Removing, Mining, Ending
<1>19. CASE GenerateCoinbaseTransaction(c)
  BY <1>19 DEF GenerateCoinbaseTransaction, WhereInv, TypeInv, Goto, poolVars, minerVars,
       nodeVars, localVars, history, Adding, Removing, Mining, Ending
<1>20. CASE CalculateNonce(c)
  BY <1>20 DEF CalculateNonce, WhereInv, TypeInv, Goto, poolVars, minerVars, nodeVars,
       localVars, history, Adding, Removing, Mining, Ending
<1>21. CASE HandleMinerBlock(c)
  BY <1>21 DEF HandleMinerBlock, WhereInv, TypeInv, Goto, poolVars, minerVars, nodeVars,
       localVars, history, Adding, Removing, Mining, Ending
<1> QED BY <1>1, <1>2, <1>3, <1>4, <1>5, <1>6, <1>7, <1>8, <1>9, <1>10, <1>11, <1>12, <1>13,
     <1>14, <1>15, <1>16, <1>17, <1>18, <1>19, <1>20, <1>21 DEF Step

\* Every step of a call keeps LoopInv.
LEMMA LoopStep ==
    ASSUME TypeInv, LoopInv, NEW c \in Calls, Step(c)
    PROVE  LoopInv'
<1>1. CASE BroadcastTransaction(c)
  BY <1>1 DEF BroadcastTransaction, LoopInv, TypeInv, Goto, poolVars, minerVars, nodeVars,
       localVars, history, Channel
<1>2. CASE ForwardTransaction(c)
  BY <1>2 DEF ForwardTransaction, LoopInv, TypeInv, Goto, poolVars, minerVars, nodeVars,
       localVars, history, Channel
<1>3. CASE WitnessesMissing(c)
  BY <1>3 DEF WitnessesMissing, LoopInv, TypeInv, Goto, poolVars, minerVars, nodeVars,
       localVars, history, Channel
<1>4. CASE ForwardBlock(c)
  BY <1>4 DEF ForwardBlock, LoopInv, TypeInv, Goto, poolVars, minerVars, nodeVars,
       localVars, history, Channel
<1>5. CASE FundingRequest(c)
  BY <1>5 DEF FundingRequest, LoopInv, TypeInv, Goto, poolVars, minerVars, nodeVars,
       localVars, history, Channel
<1>6. CASE Mine(c)
  BY <1>6 DEF Mine, LoopInv, TypeInv, Goto, poolVars, minerVars, nodeVars, localVars,
       history, Channel
<1>7. CASE Ask(c)
  <2>1. PICK s \in GetInputSums(Asked(c)) : loop' = [chan |-> Channel(c), asker |-> c, sums
       |-> s]
    BY <1>7 DEF Ask
  <2>2. Asked(c) \in Seq(Transactions)
    BY CallTypes DEF Asked, TypeInv
  <2>3. s \in Words
    BY <2>1, <2>2, ReportedSums
  <2>4. loop' \in Answers /\ loop'.asker = c /\ loop'.chan = Channel(c)
    BY <2>1, <2>3 DEF Answers, Channel
  <2>5. \A d \in Calls : pc[d] # "wait"
    BY <1>7 DEF Ask, LoopReady, LoopInv, Answers, Select
  <2>6. pc' = [pc EXCEPT ![c] = "wait"]
    BY <1>7 DEF Ask, Goto
  <2> QED BY <2>4, <2>5, <2>6 DEF LoopInv, TypeInv, Channel
<1>8. CASE Receive(c)
  <2>1. \A d \in Calls : d # c => pc[d] # "wait"
    BY <1>8 DEF Receive, LoopInv
  <2>2. pc'[c] # "wait" /\ \A d \in Calls : d # c => pc'[d] = pc[d]
    BY <1>8 DEF Receive, Answered, Goto, TypeInv
  <2> QED BY <2>1, <2>2 DEF LoopInv
<1>9. CASE TimeOut(c)
  BY <1>9 DEF TimeOut, Answered, LoopInv, TypeInv, Goto, poolVars, minerVars, nodeVars,
       localVars, history, Channel
<1>10. CASE CheckCapacity(c)
  BY <1>10 DEF CheckCapacity, LoopInv, TypeInv, Goto, poolVars, minerVars, nodeVars,
       localVars, history, Channel
<1>11. CASE AddPriority(c)
  BY <1>11 DEF AddPriority, LoopInv, TypeInv, Goto, poolVars, minerVars, nodeVars,
       localVars, history, Channel
<1>12. CASE PushTransaction(c)
  BY <1>12 DEF PushTransaction, LoopInv, TypeInv, Goto, poolVars, minerVars, nodeVars,
       localVars, history, Channel
<1>13. CASE CountUp(c)
  BY <1>13 DEF CountUp, LoopInv, TypeInv, Goto, poolVars, minerVars, nodeVars, localVars,
       history, Channel
<1>14. CASE IncrementChainLength(c)
  BY <1>14 DEF IncrementChainLength, LoopInv, TypeInv, Goto, poolVars, minerVars, nodeVars,
       localVars, history, Channel
<1>15. CASE RemoveTransactions(c)
  BY <1>15 DEF RemoveTransactions, LoopInv, TypeInv, Goto, poolVars, minerVars, nodeVars,
       localVars, history, Channel
<1>16. CASE CountDown(c)
  BY <1>16 DEF CountDown, LoopInv, TypeInv, Goto, poolVars, minerVars, nodeVars, localVars,
       history, Channel
<1>17. CASE SubtractPriority(c)
  BY <1>17 DEF SubtractPriority, LoopInv, TypeInv, Goto, poolVars, minerVars, nodeVars,
       localVars, history, Channel
<1>18. CASE Notify(c)
  BY <1>18 DEF Notify, LoopInv, TypeInv, Goto, poolVars, minerVars, nodeVars, localVars,
       history, Channel
<1>19. CASE GenerateCoinbaseTransaction(c)
  BY <1>19 DEF GenerateCoinbaseTransaction, LoopInv, TypeInv, Goto, poolVars, minerVars,
       nodeVars, localVars, history, Channel
<1>20. CASE CalculateNonce(c)
  BY <1>20 DEF CalculateNonce, LoopInv, TypeInv, Goto, poolVars, minerVars, nodeVars,
       localVars, history, Channel
<1>21. CASE HandleMinerBlock(c)
  BY <1>21 DEF HandleMinerBlock, LoopInv, TypeInv, Goto, poolVars, minerVars, nodeVars,
       localVars, history, Channel
<1> QED BY <1>1, <1>2, <1>3, <1>4, <1>5, <1>6, <1>7, <1>8, <1>9, <1>10, <1>11, <1>12, <1>13,
     <1>14, <1>15, <1>16, <1>17, <1>18, <1>19, <1>20, <1>21 DEF Step

\* Every step of a call keeps AppliedInv.
LEMMA AppliedStep ==
    ASSUME TypeInv, AppliedInv, NEW c \in Calls, Step(c)
    PROVE  AppliedInv'
<1>1. CASE BroadcastTransaction(c)
  BY <1>1 DEF BroadcastTransaction, AppliedInv, TypeInv, Goto, poolVars, minerVars,
       nodeVars, localVars, history, Ending
<1>2. CASE ForwardTransaction(c)
  BY <1>2 DEF ForwardTransaction, AppliedInv, TypeInv, Goto, poolVars, minerVars, nodeVars,
       localVars, history, Ending
<1>3. CASE WitnessesMissing(c)
  BY <1>3 DEF WitnessesMissing, AppliedInv, TypeInv, Goto, poolVars, minerVars, nodeVars,
       localVars, history, Ending
<1>4. CASE ForwardBlock(c)
  BY <1>4 DEF ForwardBlock, AppliedInv, TypeInv, Goto, poolVars, minerVars, nodeVars,
       localVars, history, Ending
<1>5. CASE FundingRequest(c)
  BY <1>5 DEF FundingRequest, AppliedInv, TypeInv, Goto, poolVars, minerVars, nodeVars,
       localVars, history, Ending
<1>6. CASE Mine(c)
  BY <1>6 DEF Mine, AppliedInv, TypeInv, Goto, poolVars, minerVars, nodeVars, localVars,
       history, Ending
<1>7. CASE Ask(c)
  BY <1>7 DEF Ask, AppliedInv, TypeInv, Goto, poolVars, minerVars, nodeVars, localVars,
       history, Ending
<1>8. CASE Receive(c)
  BY <1>8 DEF Receive, Answered, AppliedInv, TypeInv, Goto, poolVars, minerVars, nodeVars,
       localVars, history, Ending
<1>9. CASE TimeOut(c)
  BY <1>9 DEF TimeOut, Answered, AppliedInv, TypeInv, Goto, poolVars, minerVars, nodeVars,
       localVars, history, Ending
<1>10. CASE CheckCapacity(c)
  BY <1>10 DEF CheckCapacity, AppliedInv, TypeInv, Goto, poolVars, minerVars, nodeVars,
       localVars, history, Ending
<1>11. CASE AddPriority(c)
  BY <1>11 DEF AddPriority, AppliedInv, TypeInv, Goto, poolVars, minerVars, nodeVars,
       localVars, history, Ending
<1>12. CASE PushTransaction(c)
  BY <1>12 DEF PushTransaction, AppliedInv, TypeInv, Goto, poolVars, minerVars, nodeVars,
       localVars, history, Ending
<1>13. CASE CountUp(c)
  BY <1>13 DEF CountUp, AppliedInv, TypeInv, Goto, poolVars, minerVars, nodeVars, localVars,
       history, Ending
<1>14. CASE IncrementChainLength(c)
  BY <1>14 DEF IncrementChainLength, AppliedInv, TypeInv, Goto, poolVars, minerVars,
       nodeVars, localVars, history, Ending
<1>15. CASE RemoveTransactions(c)
  BY <1>15 DEF RemoveTransactions, AppliedInv, TypeInv, Goto, poolVars, minerVars, nodeVars,
       localVars, history, Ending
<1>16. CASE CountDown(c)
  BY <1>16 DEF CountDown, AppliedInv, TypeInv, Goto, poolVars, minerVars, nodeVars,
       localVars, history, Ending
<1>17. CASE SubtractPriority(c)
  BY <1>17 DEF SubtractPriority, AppliedInv, TypeInv, Goto, poolVars, minerVars, nodeVars,
       localVars, history, Ending
<1>18. CASE Notify(c)
  BY <1>18 DEF Notify, AppliedInv, TypeInv, Goto, poolVars, minerVars, nodeVars, localVars,
       history, Ending
<1>19. CASE GenerateCoinbaseTransaction(c)
  BY <1>19 DEF GenerateCoinbaseTransaction, AppliedInv, TypeInv, Goto, poolVars, minerVars,
       nodeVars, localVars, history, Ending
<1>20. CASE CalculateNonce(c)
  BY <1>20 DEF CalculateNonce, AppliedInv, TypeInv, Goto, poolVars, minerVars, nodeVars,
       localVars, history, Ending
<1>21. CASE HandleMinerBlock(c)
  BY <1>21 DEF HandleMinerBlock, AppliedInv, TypeInv, Goto, poolVars, minerVars, nodeVars,
       localVars, history, Ending
<1> QED BY <1>1, <1>2, <1>3, <1>4, <1>5, <1>6, <1>7, <1>8, <1>9, <1>10, <1>11, <1>12, <1>13,
     <1>14, <1>15, <1>16, <1>17, <1>18, <1>19, <1>20, <1>21 DEF Step

\* NothingLost says the same for all of them at once.
LEMMA LostIsLost == NothingLost <=> LostInv
BY DEF NothingLost, LostInv, Added, Handled, Adder, Held

\* Most steps leave the pool and the transactions that were asked for alone.
LEMMA PoolQuiet ==
    ASSUME NEW c \in Calls, Step(c)
    PROVE  \/ UNCHANGED <<TxQ, applied, MiningPool>>
           \/ Mine(c) \/ PushTransaction(c) \/ RemoveTransactions(c)
BY DEF Step, BroadcastTransaction, ForwardTransaction, WitnessesMissing, ForwardBlock,
     FundingRequest, Ask, Receive, TimeOut, CheckCapacity, AddPriority, CountUp,
     IncrementChainLength, CountDown, SubtractPriority, Notify, GenerateCoinbaseTransaction,
     CalculateNonce, HandleMinerBlock, poolVars, minerVars, nodeVars, localVars, history

\* Every step of a call keeps NothingLost.
LEMMA LostStep ==
    ASSUME TypeInv, WhereInv, AppliedInv, LostInv, NEW c \in Calls, Step(c)
    PROVE  LostInv'
<1>1. CASE UNCHANGED <<TxQ, applied, MiningPool>>
  <2>1. \A d \in Calls : Asked(d)' = Asked(d)
    BY <1>1 DEF Asked
  <2> QED BY <1>1, <2>1 DEF LostInv, Added, Handled, Adder, Held, TypeInv
<1>2. CASE Mine(c)
  <2>1. \A d \in applied : Kind[d] = "mine" => FALSE
    <3> SUFFICES ASSUME NEW d \in applied, Kind[d] = "mine" PROVE FALSE
      OBVIOUS
    <3>1. d = c
      BY <1>2, CallsAssumption DEF Mine, TypeInv
    <3> QED BY <1>2, <3>1 DEF Mine, AppliedInv, Ending
  <2>2. \A d \in applied : Asked(d)' = Asked(d)
    BY <2>1 DEF Asked
  <2>3. TxQ' = TxQ /\ applied' = applied
    BY <1>2 DEF Mine, poolVars, minerVars, nodeVars, localVars, history
  <2> QED BY <2>2, <2>3 DEF LostInv, Added, Handled, Adder, Held
<1>3. CASE PushTransaction(c)
  <2>1. MiningPool' = MiningPool /\ applied' = applied \cup {c} /\ TxQ' = AddToHeap(TxQ,
       pri[c], Txs[c][1])
    BY <1>3 DEF PushTransaction, poolVars, minerVars, nodeVars, localVars, history
  <2>2. Adder(c) /\ pri[c] # 0
    BY <1>3 DEF PushTransaction, WhereInv, Adding, Adder
  <2>3. Txs[c][1] \in Transactions /\ ToSet(Txs[c]) = {Txs[c][1]}
    BY <2>2, CallTypes DEF Adder
  <2>4. PICK q, p, t, r : q = TxQ /\ p = pri[c] /\ t = Txs[c][1] /\ r = TxQ'
    OBVIOUS
  <2>5. q \in Seq(Node) /\ p \in 1..(Word - 1) /\ t \in Transactions
    <3>1. p \in Nat /\ p <= Word - 1 /\ p # 0 /\ Word \in Nat
      BY <2>2, <2>4, LocalTypes, WordType
    <3>2. p \in 1..(Word - 1)
      BY ONLY <3>1
    <3> QED BY <2>3, <2>4, <3>2, LocalTypes
  <2>6. Held(r) = Held(q) \cup {t}
    BY <2>1, <2>4, <2>5, AddToHeapAdds
  <2>7. Held(TxQ)' = Held(r)
    BY <2>4 DEF Held
  <2>8. \A d \in Calls : Asked(d)' = Asked(d)
    BY <2>1 DEF Asked
  <2>9. \A x : Added(x)' => Added(x) \/ x = t
    BY <2>1, <2>2, <2>3, <2>4 DEF Added, Adder
  <2>10. \A x : Handled(x) => Handled(x)'
    BY <2>1, <2>8 DEF Handled, Adder, TypeInv
  <2> QED BY <2>4, <2>6, <2>7, <2>9, <2>10 DEF LostInv
<1>4. CASE RemoveTransactions(c)
  <2>1. MiningPool' = MiningPool /\ applied' = applied \cup {c} /\ TxQ' =
       RemoveFromHeap(TxQ, Asked(c)).heap
    BY <1>4 DEF RemoveTransactions, poolVars, minerVars, nodeVars, localVars, history
  <2>2. ~Adder(c)
    BY <1>4 DEF RemoveTransactions, WhereInv, Removing, Adder
  <2>3. PICK q, ts, r : q = TxQ /\ ts = Asked(c) /\ r = TxQ'
    OBVIOUS
  <2>4. q \in Seq(Node) /\ ts \in Seq(Transactions)
    BY <2>3, CallTypes DEF Asked, TypeInv
  <2>5. Held(q) \ ToSet(ts) \subseteq Held(r)
    BY <2>1, <2>3, <2>4, RemoveFromHeapRemoves DEF Removed
  <2>6. Held(TxQ)' = Held(r)
    BY <2>3 DEF Held
  <2>7. \A d \in Calls : Asked(d)' = Asked(d)
    BY <2>1 DEF Asked
  <2>8. \A x : Added(x)' => Added(x)
    BY <2>1, <2>2 DEF Added, Adder
  <2>9. \A x : Handled(x) \/ x \in ToSet(ts) => Handled(x)'
    BY <2>1, <2>2, <2>3, <2>7 DEF Handled, Adder, TypeInv
  <2> QED BY <2>3, <2>5, <2>6, <2>8, <2>9 DEF LostInv
<1> QED BY <1>1, <1>2, <1>3, <1>4, PoolQuiet

\* What is due changes only for the call that takes a step.
LEMMA DueChanges ==
    ASSUME TypeInv, TypeInv', NEW c \in Calls,
           \A d \in Calls \ {c} : pc'[d] = pc[d] /\ num'[d] = num[d] /\ pri'[d] = pri[d]
    PROVE  /\ SumOver(CountDue, Calls) \in Int /\ SumOver(PriorityDue, Calls) \in Int
           /\ CountDue[c] \in Int /\ CountDue'[c] \in Int
           /\ PriorityDue[c] \in Int /\ PriorityDue'[c] \in Int
           /\ SumOver(CountDue', Calls) = SumOver(CountDue, Calls) - CountDue[c] + CountDue'[c]
           /\ SumOver(PriorityDue', Calls)
                = SumOver(PriorityDue, Calls) - PriorityDue[c] + PriorityDue'[c]
<1>1. PICK a, b, p, q : a = CountDue /\ b = CountDue' /\ p = PriorityDue /\ q = PriorityDue'
  OBVIOUS
<1>2. IsFiniteSet(Calls)
  BY CallsAssumption
<1>3. \A d \in Calls : a[d] \in Int /\ p[d] \in Int
  <2>1. \A d \in Calls : num[d] \in Nat /\ pri[d] \in Nat
    BY LocalTypes
  <2> QED BY <1>1, <2>1 DEF CountDue, PriorityDue
<1>4. \A d \in Calls : b[d] \in Int /\ q[d] \in Int
  <2>1. \A d \in Calls : num'[d] \in Nat /\ pri'[d] \in Words
    BY DEF TypeInv
  <2> QED BY <1>1, <2>1, WordType DEF CountDue, PriorityDue
<1>5. \A d \in Calls \ {c} : b[d] = a[d] /\ q[d] = p[d]
  BY <1>1 DEF CountDue, PriorityDue
<1>6. SumOver(b, Calls) = SumOver(a, Calls) - a[c] + b[c]
  BY ONLY c \in Calls, <1>2, <1>3, <1>4, <1>5, SumChange
<1>7. SumOver(q, Calls) = SumOver(p, Calls) - p[c] + q[c]
  BY ONLY c \in Calls, <1>2, <1>3, <1>4, <1>5, SumChange
<1>8. SumOver(a, Calls) \in Int /\ SumOver(p, Calls) \in Int
  BY ONLY <1>2, <1>3, SumType
<1> QED BY <1>1, <1>3, <1>4, <1>6, <1>7, <1>8

Due == {"push", "count", "subtract", "subtractPriority"}

\* A step of c leaves the local variables of the other calls alone.
LEMMA OthersStay ==
    ASSUME TypeInv, NEW c \in Calls, Step(c)
    PROVE  \A d \in Calls \ {c} : pc'[d] = pc[d] /\ num'[d] = num[d] /\ pri'[d] = pri[d]
<1>1. CASE BroadcastTransaction(c)
  BY <1>1 DEF BroadcastTransaction, Goto, TypeInv, poolVars, minerVars, nodeVars, localVars,
       history
<1>2. CASE ForwardTransaction(c)
  BY <1>2 DEF ForwardTransaction, Goto, TypeInv, poolVars, minerVars, nodeVars, localVars,
       history
<1>3. CASE WitnessesMissing(c)
  BY <1>3 DEF WitnessesMissing, Goto, TypeInv, poolVars, minerVars, nodeVars, localVars, history
<1>4. CASE ForwardBlock(c)
  BY <1>4 DEF ForwardBlock, Goto, TypeInv, poolVars, minerVars, nodeVars, localVars, history
<1>5. CASE FundingRequest(c)
  BY <1>5 DEF FundingRequest, Goto, TypeInv, poolVars, minerVars, nodeVars, localVars, history
<1>6. CASE Mine(c)
  BY <1>6 DEF Mine, Goto, TypeInv, poolVars, minerVars, nodeVars, localVars, history
<1>7. CASE Ask(c)
  BY <1>7 DEF Ask, Goto, TypeInv, poolVars, minerVars, nodeVars, localVars, history
<1>8. CASE Receive(c)
  BY <1>8 DEF Receive, Answered, Goto, TypeInv, poolVars, minerVars, nodeVars, localVars,
       history
<1>9. CASE TimeOut(c)
  BY <1>9 DEF TimeOut, Answered, Goto, TypeInv, poolVars, minerVars, nodeVars, localVars,
       history
<1>10. CASE CheckCapacity(c)
  BY <1>10 DEF CheckCapacity, Goto, TypeInv, poolVars, minerVars, nodeVars, localVars, history
<1>11. CASE AddPriority(c)
  BY <1>11 DEF AddPriority, Goto, TypeInv, poolVars, minerVars, nodeVars, localVars, history
<1>12. CASE PushTransaction(c)
  BY <1>12 DEF PushTransaction, Goto, TypeInv, poolVars, minerVars, nodeVars, localVars, history
<1>13. CASE CountUp(c)
  BY <1>13 DEF CountUp, Goto, TypeInv, poolVars, minerVars, nodeVars, localVars, history
<1>14. CASE IncrementChainLength(c)
  BY <1>14 DEF IncrementChainLength, Goto, TypeInv, poolVars, minerVars, nodeVars,
       localVars, history
<1>15. CASE RemoveTransactions(c)
  BY <1>15 DEF RemoveTransactions, Goto, TypeInv, poolVars, minerVars, nodeVars, localVars,
       history
<1>16. CASE CountDown(c)
  BY <1>16 DEF CountDown, Goto, TypeInv, poolVars, minerVars, nodeVars, localVars, history
<1>17. CASE SubtractPriority(c)
  BY <1>17 DEF SubtractPriority, Goto, TypeInv, poolVars, minerVars, nodeVars, localVars,
       history
<1>18. CASE Notify(c)
  BY <1>18 DEF Notify, ForgetLocals, Goto, TypeInv, poolVars, minerVars, nodeVars,
       localVars, history
<1>19. CASE GenerateCoinbaseTransaction(c)
  BY <1>19 DEF GenerateCoinbaseTransaction, Goto, TypeInv, poolVars, minerVars, nodeVars,
       localVars, history
<1>20. CASE CalculateNonce(c)
  BY <1>20 DEF CalculateNonce, Goto, TypeInv, poolVars, minerVars, nodeVars, localVars, history
<1>21. CASE HandleMinerBlock(c)
  BY <1>21 DEF HandleMinerBlock, Goto, TypeInv, poolVars, minerVars, nodeVars, localVars,
       history
<1> QED BY <1>1, <1>2, <1>3, <1>4, <1>5, <1>6, <1>7, <1>8, <1>9, <1>10, <1>11, <1>12, <1>13,
     <1>14, <1>15, <1>16, <1>17, <1>18, <1>19, <1>20, <1>21 DEF Step

\* Most steps change neither the counters nor the heap, and nothing is due for
\* the call before and after them.
LEMMA CountersQuiet ==
    ASSUME TypeInv, NEW c \in Calls, Step(c)
    PROVE  \/ UNCHANGED <<TxQ, Count, CurrentPriority>> /\ pc[c] \notin Due /\ pc'[c] \notin Due
           \/ AddPriority(c) \/ PushTransaction(c) \/ CountUp(c)
           \/ RemoveTransactions(c) \/ CountDown(c) \/ SubtractPriority(c)
<1>1. CASE BroadcastTransaction(c)
  BY <1>1 DEF BroadcastTransaction, Goto, TypeInv, Due, poolVars, minerVars, nodeVars,
       localVars, history
<1>2. CASE ForwardTransaction(c)
  BY <1>2 DEF ForwardTransaction, Goto, TypeInv, Due, poolVars, minerVars, nodeVars,
       localVars, history
<1>3. CASE WitnessesMissing(c)
  BY <1>3 DEF WitnessesMissing, Goto, TypeInv, Due, poolVars, minerVars, nodeVars,
       localVars, history
<1>4. CASE ForwardBlock(c)
  BY <1>4 DEF ForwardBlock, Goto, TypeInv, Due, poolVars, minerVars, nodeVars, localVars,
       history
<1>5. CASE FundingRequest(c)
  BY <1>5 DEF FundingRequest, Goto, TypeInv, Due, poolVars, minerVars, nodeVars, localVars,
       history
<1>6. CASE Mine(c)
  BY <1>6 DEF Mine, Goto, TypeInv, Due, poolVars, minerVars, nodeVars, localVars, history
<1>7. CASE Ask(c)
  BY <1>7 DEF Ask, Goto, TypeInv, Due, poolVars, minerVars, nodeVars, localVars, history
<1>8. CASE Receive(c)
  BY <1>8 DEF Receive, Answered, Goto, TypeInv, Due, poolVars, minerVars, nodeVars,
       localVars, history
<1>9. CASE TimeOut(c)
  BY <1>9 DEF TimeOut, Answered, Goto, TypeInv, Due, poolVars, minerVars, nodeVars,
       localVars, history
<1>10. CASE CheckCapacity(c)
  BY <1>10 DEF CheckCapacity, Goto, TypeInv, Due, poolVars, minerVars, nodeVars, localVars,
       history
<1>11. CASE IncrementChainLength(c)
  BY <1>11 DEF IncrementChainLength, Goto, TypeInv, Due, poolVars, minerVars, nodeVars,
       localVars, history
<1>12. CASE Notify(c)
  BY <1>12 DEF Notify, Goto, TypeInv, Due, poolVars, minerVars, nodeVars, localVars, history
<1>13. CASE GenerateCoinbaseTransaction(c)
  BY <1>13 DEF GenerateCoinbaseTransaction, Goto, TypeInv, Due, poolVars, minerVars,
       nodeVars, localVars, history
<1>14. CASE CalculateNonce(c)
  BY <1>14 DEF CalculateNonce, Goto, TypeInv, Due, poolVars, minerVars, nodeVars, localVars,
       history
<1>15. CASE HandleMinerBlock(c)
  BY <1>15 DEF HandleMinerBlock, Goto, TypeInv, Due, poolVars, minerVars, nodeVars,
       localVars, history
<1> QED BY <1>1, <1>2, <1>3, <1>4, <1>5, <1>6, <1>7, <1>8, <1>9, <1>10, <1>11, <1>12, <1>13,
     <1>14, <1>15 DEF Step

\* Every step of a call keeps CountersInv.
LEMMA CountersStep ==
    ASSUME TypeInv, TypeInv', WhereInv, CountersInv, NEW c \in Calls, Step(c)
    PROVE  CountersInv'
<1>1. PICK l, l2, t, t2, n, n2, p, p2, cs, cs2, ps, ps2, cd, cd2, pd, pd2 :
         /\ l = Len(TxQ) /\ l2 = Len(TxQ') /\ t = Total(TxQ) /\ t2 = Total(TxQ')
         /\ n = Count /\ n2 = Count' /\ p = CurrentPriority /\ p2 = CurrentPriority'
         /\ cs = SumOver(CountDue, Calls) /\ cs2 = SumOver(CountDue', Calls)
         /\ ps = SumOver(PriorityDue, Calls) /\ ps2 = SumOver(PriorityDue', Calls)
         /\ cd = CountDue[c] /\ cd2 = CountDue'[c] /\ pd = PriorityDue[c] /\ pd2 =
              PriorityDue'[c]
  OBVIOUS
<1>2. /\ cs \in Int /\ ps \in Int /\ cd \in Int /\ cd2 \in Int /\ pd \in Int /\ pd2 \in Int
      /\ cs2 = cs - cd + cd2 /\ ps2 = ps - pd + pd2
  BY <1>1, OthersStay, DueChanges
<1>3. l \in Int /\ t \in Int /\ Word \in Nat \ {0} /\ TxQ \in Seq(Node)
  BY <1>1, PrioritiesType, LocalTypes, WordType
<1>4. n = (l + cs) % Word /\ p = (t + ps) % Word
  BY <1>1 DEF CountersInv
<1>5. SUFFICES n2 = (l2 + cs2) % Word /\ p2 = (t2 + ps2) % Word
  BY <1>1 DEF CountersInv
<1>6. /\ pc[c] = "count" => cd = -1
      /\ pc[c] = "subtract" => cd = num[c]
      /\ pc[c] \notin {"count", "subtract"} => cd = 0
      /\ pc'[c] = "count" => cd2 = -1
      /\ pc'[c] = "subtract" => cd2 = num'[c]
      /\ pc'[c] \notin {"count", "subtract"} => cd2 = 0
  BY <1>1 DEF CountDue
<1>7. /\ pc[c] \in {"push", "subtract", "subtractPriority"} => pd = pri[c]
      /\ pc[c] \notin {"push", "subtract", "subtractPriority"} => pd = 0
      /\ pc'[c] \in {"push", "subtract", "subtractPriority"} => pd2 = pri'[c]
      /\ pc'[c] \notin {"push", "subtract", "subtractPriority"} => pd2 = 0
  BY <1>1 DEF PriorityDue
<1>8. num[c] \in Int /\ pri[c] \in Int /\ pc \in [Calls -> Labels]
  BY LocalTypes DEF TypeInv
<1>8a. PICK nc \in Int, rc \in Int : nc = num[c] /\ rc = pri[c]
  BY <1>8
<1>8b. PICK x \in Int, y \in Int : x = l + cs /\ y = t + ps
  BY <1>2, <1>3
<1>9. CASE UNCHANGED <<TxQ, Count, CurrentPriority>> /\ pc[c] \notin Due /\ pc'[c] \notin Due
  <2>1. cd = 0 /\ cd2 = 0 /\ pd = 0 /\ pd2 = 0
    BY <1>6, <1>7, <1>9 DEF Due
  <2>2. l2 = l /\ t2 = t /\ n2 = n /\ p2 = p
    BY <1>1, <1>9
  <2>3. cs2 = cs /\ ps2 = ps
    BY ONLY <1>2, <2>1
  <2> QED BY <1>4, <2>2, <2>3
<1>10. CASE AddPriority(c)
  <2>1. cd = 0 /\ cd2 = 0 /\ pd = 0 /\ pd2 = pri[c]
    BY <1>6, <1>7, <1>8, <1>10 DEF AddPriority, Goto, poolVars, minerVars, nodeVars,
         localVars, history
  <2>2. l2 = l /\ t2 = t /\ n2 = n /\ p2 = (p + pri[c]) % Word
    BY <1>1, <1>10 DEF AddPriority, poolVars, minerVars, nodeVars, localVars, history
  <2>3. cs2 = cs /\ t + ps2 = (t + ps) + pri[c]
    BY ONLY <1>2, <1>3, <1>8, <2>1
  <2>4. (t + ps) \in Int
    BY <1>2, <1>3
  <2>5. p2 = ((t + ps) + pri[c]) % Word
    BY <1>3, <1>4, <1>8, <2>2, <2>4, WordAdd
  <2> QED BY <1>4, <2>2, <2>3, <2>5
<1>11. CASE PushTransaction(c)
  <2>1. cd = 0 /\ cd2 = -1 /\ pd = pri[c] /\ pd2 = 0
    BY <1>6, <1>7, <1>8, <1>11 DEF PushTransaction, Goto
  <2>2. n2 = n /\ p2 = p
    BY <1>1, <1>11 DEF PushTransaction
  <2>3. l2 = l + 1 /\ t2 = t + pri[c]
    <3>1. Txs[c][1] \in Transactions /\ pri[c] # 0
      BY <1>11, CallTypes DEF PushTransaction, WhereInv, Adding
    <3>2. pri[c] \in 1..(Word - 1)
      <4>1. rc <= Word - 1 /\ rc \in Nat /\ rc # 0 /\ Word \in Nat
        BY <1>3, <1>8a, <3>1, LocalTypes
      <4>2. rc \in 1..(Word - 1)
        BY ONLY <4>1
      <4> QED BY <1>8a, <4>2
    <3>3. TxQ' = AddToHeap(TxQ, pri[c], Txs[c][1])
      BY <1>11 DEF PushTransaction
    <3>4. PICK q, r, tx : q = TxQ /\ r = pri[c] /\ tx = Txs[c][1]
      OBVIOUS
    <3>5. Len(AddToHeap(q, r, tx)) = Len(q) + 1 /\ Total(AddToHeap(q, r, tx)) = Total(q) + r
      BY <1>3, <3>1, <3>2, <3>4, AddToHeapAdds
    <3> QED BY <1>1, <3>3, <3>4, <3>5
  <2>4. l2 + cs2 = l + cs /\ t2 + ps2 = t + ps
    <3>1. cd = 0 /\ cd2 = -1 /\ pd = rc /\ pd2 = 0 /\ l2 = l + 1 /\ t2 = t + rc
      BY <1>8a, <2>1, <2>3
    <3> QED BY ONLY <1>2, <1>3, <3>1, rc \in Int
  <2> QED BY <1>4, <2>2, <2>4
<1>12. CASE CountUp(c)
  <2>1. cd = -1 /\ cd2 = 0 /\ pd = 0 /\ pd2 = 0
    BY <1>6, <1>7, <1>8, <1>12 DEF CountUp, Goto
  <2>2. l2 = l /\ t2 = t /\ n2 = (n + 1) % Word /\ p2 = p
    BY <1>1, <1>12 DEF CountUp
  <2>3. l + cs2 = x + 1 /\ ps2 = ps
    BY ONLY <1>2, <1>3, <1>8b, <2>1
  <2>4. PICK k \in Int : k = 1
    OBVIOUS
  <2>5. n2 = (x + 1) % Word
    <3>1. n2 = ((x % Word) + k) % Word
      BY <1>4, <1>8b, <2>2, <2>4
    <3>2. n2 = (x + k) % Word
      BY <1>3, <3>1, WordAdd
    <3> QED BY <2>4, <3>2
  <2> QED BY <1>4, <2>2, <2>3, <2>5
<1>13. CASE RemoveTransactions(c)
  <2>1. PICK rest : rest = RemoveFromHeap(TxQ, Asked(c))
    OBVIOUS
  <2>2. PICK m, tp : m = rest.removed /\ tp = rest.totalPriority
    OBVIOUS
  <2>3. /\ pc[c] = "remove" /\ pc'[c] = "subtract" /\ TxQ' = rest.heap
        /\ num'[c] = m /\ pri'[c] = tp % Word /\ n2 = n /\ p2 = p
    BY <1>1, <1>13, <2>1, <2>2 DEF RemoveTransactions, AmountRemoved, Goto, TypeInv
  <2>4. m \in Int /\ tp \in Int /\ l2 + m = l /\ t2 + tp = t /\ l2 \in Int /\ t2 \in Int
    <3>1. Asked(c) \in Seq(Transactions)
      BY CallTypes DEF Asked, TypeInv
    <3>2. PICK q, ts : q = TxQ /\ ts = Asked(c)
      OBVIOUS
    <3>3. rest \in Rest /\ Removed(q, ToSet(ts), rest)
      BY <1>3, <2>1, <3>1, <3>2, RemoveFromHeapRemoves
    <3>4. m \in Nat /\ tp \in Nat /\ rest.heap \in Seq(Node)
      BY <2>2, <3>3 DEF Rest
    <3>5. Len(rest.heap) \in Int /\ Total(rest.heap) \in Int
      BY <3>4, PrioritiesType
    <3> QED BY <1>1, <2>2, <2>3, <3>2, <3>3, <3>4, <3>5 DEF Removed
  <2>5. PICK tw : tw = tp % Word
    OBVIOUS
  <2>6. cd = 0 /\ cd2 = m /\ pd = 0 /\ pd2 = tw
    BY <1>6, <1>7, <2>3, <2>5
  <2>7. tw \in Int
    BY <2>4, <2>5, WordType, WordOf
  <2>8. /\ l2 + cs2 = l + cs /\ t2 + ps2 = tw + (t2 + ps)
        /\ t + ps = tp + (t2 + ps) /\ t2 + ps \in Int
    BY ONLY <1>2, <1>3, <2>4, <2>6, <2>7
  <2>9. (tw + (t2 + ps)) % Word = (tp + (t2 + ps)) % Word
    BY <1>3, <2>4, <2>5, <2>8, WordAdd
  <2> QED BY <1>4, <2>3, <2>8, <2>9
<1>14. CASE CountDown(c)
  <2>1. cd = num[c] /\ cd2 = 0 /\ pd = pri[c] /\ pd2 = pri[c]
    BY <1>6, <1>7, <1>8, <1>14 DEF CountDown, Goto, poolVars, minerVars, nodeVars,
         localVars, history
  <2>2. l2 = l /\ t2 = t /\ n2 = (n - num[c]) % Word /\ p2 = p
    BY <1>1, <1>14 DEF CountDown
  <2>3. PICK k \in Int : k = -nc
    OBVIOUS
  <2>4. n \in Int /\ n - nc = n + k
    <3>1. n \in Int
      BY <1>1, LocalTypes
    <3> QED BY ONLY <2>3, <3>1, nc \in Int
  <2>5. l + cs2 = x + k /\ ps2 = ps
    <3>1. cd = nc /\ cd2 = 0 /\ pd = pd2
      BY <1>8a, <2>1
    <3> QED BY ONLY <1>2, <1>3, <1>8b, <2>3, <3>1, nc \in Int
  <2>6. n2 = ((x % Word) + k) % Word
    BY <1>4, <1>8a, <1>8b, <2>2, <2>4
  <2>7. n2 = (x + k) % Word
    BY <1>3, <2>6, WordAdd
  <2> QED BY <1>4, <2>2, <2>5, <2>7
<1>15. CASE SubtractPriority(c)
  <2>1. cd = 0 /\ cd2 = 0 /\ pd = pri[c] /\ pd2 = 0
    BY <1>6, <1>7, <1>8, <1>15 DEF SubtractPriority, Goto
  <2>2. l2 = l /\ t2 = t /\ n2 = n /\ p2 = (p - pri[c]) % Word
    BY <1>1, <1>15 DEF SubtractPriority
  <2>3. PICK k \in Int : k = -rc
    OBVIOUS
  <2>4. p \in Int /\ p - rc = p + k
    <3>1. p \in Int
      BY <1>1, LocalTypes
    <3> QED BY ONLY <2>3, <3>1, rc \in Int
  <2>5. t + ps2 = y + k /\ cs2 = cs
    <3>1. cd = cd2 /\ pd = rc /\ pd2 = 0
      BY <1>8a, <2>1
    <3> QED BY ONLY <1>2, <1>3, <1>8b, <2>3, <3>1, rc \in Int
  <2>6. p2 = ((y % Word) + k) % Word
    BY <1>4, <1>8a, <1>8b, <2>2, <2>4
  <2>7. p2 = (y + k) % Word
    BY <1>3, <2>6, WordAdd
  <2> QED BY <1>4, <2>2, <2>5, <2>7
<1> QED BY <1>9, <1>10, <1>11, <1>12, <1>13, <1>14, <1>15, CountersQuiet

\* A coinbase takes at most the fees and the subsidy.
LEMMA CoinbaseBound ==
    ASSUME NothingMinted, OutputsFit, NEW ts \in Seq(Transactions), NEW s \in Nat,
           ts = <<>> \/ 100 + Amounts(Size, ts) < BlockSize,
           s <= Amounts(InputSum, ts), ChainLength \in Nat
    PROVE  (CalculateFees(ts, s) + CalculateMintingReward) % Word
             <= InitialSubsidy + Amounts(InputSum, ts) - Amounts(OutputSum, ts)
<1>1. PICK in, out, rwd, fees, sub :
         /\ in = Amounts(InputSum, ts) /\ out = Amounts(OutputSum, ts)
         /\ rwd = CalculateMintingReward /\ fees = CalculateFees(ts, s) /\ sub = InitialSubsidy
  OBVIOUS
<1>2. InputSum \in [Transactions -> Nat] /\ OutputSum \in [Transactions -> Nat]
  BY TransactionsAssumption
<1>3. in \in Nat /\ out \in Nat /\ out < Word
  BY <1>1, <1>2, AmountsNatural DEF OutputsFit
<1>4. out <= in
  <2>1. PICK D, a, b : D = DOMAIN ts /\ a = AmountsAt(OutputSum, ts) /\ b =
       AmountsAt(InputSum, ts)
    OBVIOUS
  <2>2. \A i \in D : ts[i] \in Transactions
    BY <2>1
  <2>3. IsFiniteSet(D) /\ \A i \in D : a[i] = OutputSum[ts[i]] /\ OutputSum[ts[i]] \in Nat
    BY <1>2, <2>1, AmountsType
  <2>4. \A i \in D : b[i] = InputSum[ts[i]] /\ InputSum[ts[i]] \in Nat
    BY <1>2, <2>1, AmountsType
  <2>5. \A i \in D : a[i] \in Int /\ b[i] \in Int /\ a[i] <= b[i]
    BY <2>2, <2>3, <2>4 DEF NothingMinted
  <2>6. SumOver(a, D) <= SumOver(b, D)
    BY ONLY <2>3, <2>5, SumLess
  <2> QED BY <1>1, <2>1, <2>6, AmountsIsSum
<1>5. rwd \in Nat /\ rwd <= sub /\ sub \in Nat
  BY <1>1, RewardBound, ConfigAssumption
<1>6. Word \in Nat /\ Word > 0
  BY WordType
<1>7. out % Word = out
  BY ONLY <1>3, <1>6
<1>8. fees = IF s > out THEN s - out ELSE 0
  BY <1>1, <1>7 DEF CalculateFees
<1>9. s <= in
  BY <1>1
<1>10. fees \in Nat /\ fees + rwd \in Nat /\ fees + rwd <= sub + in - out
  BY ONLY <1>3, <1>4, <1>5, <1>8, <1>9, s \in Nat
<1>11. (fees + rwd) % Word <= fees + rwd
  <2>1. PICK x \in Nat : x = fees + rwd
    BY <1>10
  <2>2. x % Word <= x
    BY ONLY <1>6, x \in Nat, Z3
  <2> QED BY <2>1, <2>2
<1>12. PICK r : r = (fees + rwd) % Word
  OBVIOUS
<1>13. r \in Int
  BY <1>6, <1>10, <1>12
<1>14. r <= sub + in - out
  BY ONLY <1>3, <1>5, <1>10, <1>11, <1>12, <1>13
<1> QED BY <1>1, <1>12, <1>14

\* A step that is not one of Mine's leaves its variables alone.
BlockFrame(c) ==
    /\ UNCHANGED <<MiningPool, loop, coinbase>>
    /\ pc'[c] \notin {"absent", "start", "coinbase"}
    /\ pc'[c] \in {"nonce", "send"} => pc[c] \in {"nonce", "send"}
    /\ \A d \in Calls \ {c} : pc'[d] = pc[d] /\ sum'[d] = sum[d]

\* Most steps are of this kind.
LEMMA BlockQuiet ==
    ASSUME TypeInv, NEW c \in Calls, Step(c)
    PROVE  BlockFrame(c) \/ Mine(c) \/ Ask(c) \/ Receive(c) \/ TimeOut(c) \/
         GenerateCoinbaseTransaction(c)
<1>1. CASE BroadcastTransaction(c)
  BY <1>1 DEF BlockFrame, BroadcastTransaction, Goto, TypeInv, poolVars, minerVars,
       nodeVars, localVars, history
<1>2. CASE ForwardTransaction(c)
  BY <1>2 DEF BlockFrame, ForwardTransaction, Goto, TypeInv, poolVars, minerVars, nodeVars,
       localVars, history
<1>3. CASE WitnessesMissing(c)
  BY <1>3 DEF BlockFrame, WitnessesMissing, Goto, TypeInv, poolVars, minerVars, nodeVars,
       localVars, history
<1>4. CASE ForwardBlock(c)
  BY <1>4 DEF BlockFrame, ForwardBlock, Goto, TypeInv, poolVars, minerVars, nodeVars,
       localVars, history
<1>5. CASE FundingRequest(c)
  BY <1>5 DEF BlockFrame, FundingRequest, Goto, TypeInv, poolVars, minerVars, nodeVars,
       localVars, history
<1>6. CASE CheckCapacity(c)
  BY <1>6 DEF BlockFrame, CheckCapacity, Goto, TypeInv, poolVars, minerVars, nodeVars,
       localVars, history
<1>7. CASE AddPriority(c)
  BY <1>7 DEF BlockFrame, AddPriority, Goto, TypeInv, poolVars, minerVars, nodeVars,
       localVars, history
<1>8. CASE PushTransaction(c)
  BY <1>8 DEF BlockFrame, PushTransaction, Goto, TypeInv, poolVars, minerVars, nodeVars,
       localVars, history
<1>9. CASE CountUp(c)
  BY <1>9 DEF BlockFrame, CountUp, Goto, TypeInv, poolVars, minerVars, nodeVars, localVars,
       history
<1>10. CASE IncrementChainLength(c)
  BY <1>10 DEF BlockFrame, IncrementChainLength, Goto, TypeInv, poolVars, minerVars,
       nodeVars, localVars, history
<1>11. CASE RemoveTransactions(c)
  BY <1>11 DEF BlockFrame, RemoveTransactions, Goto, TypeInv, poolVars, minerVars, nodeVars,
       localVars, history
<1>12. CASE CountDown(c)
  BY <1>12 DEF BlockFrame, CountDown, Goto, TypeInv, poolVars, minerVars, nodeVars,
       localVars, history
<1>13. CASE SubtractPriority(c)
  BY <1>13 DEF BlockFrame, SubtractPriority, Goto, TypeInv, poolVars, minerVars, nodeVars,
       localVars, history
<1>14. CASE Notify(c)
  BY <1>14 DEF BlockFrame, Notify, ForgetLocals, Goto, TypeInv, poolVars, minerVars,
       nodeVars, localVars, history
<1>15. CASE CalculateNonce(c)
  BY <1>15 DEF BlockFrame, CalculateNonce, Goto, TypeInv, poolVars, minerVars, nodeVars,
       localVars, history
<1>16. CASE HandleMinerBlock(c)
  BY <1>16 DEF BlockFrame, HandleMinerBlock, Goto, TypeInv, poolVars, minerVars, nodeVars,
       localVars, history
<1> QED BY <1>1, <1>2, <1>3, <1>4, <1>5, <1>6, <1>7, <1>8, <1>9, <1>10, <1>11, <1>12, <1>13,
     <1>14, <1>15, <1>16 DEF Step

\* Nobody else mines.
LEMMA OneMiner ==
    ASSUME NEW c \in Calls, NEW d \in Calls, Kind[c] = "mine", Kind[d] = "mine"
    PROVE  c = d
BY CallsAssumption

\* Every step of a call keeps BlockInv.
LEMMA BlockStep ==
    ASSUME SizesFit, NothingMinted, OutputsFit, TypeInv, WhereInv, LoopInv, BlockInv,
           NEW c \in Calls, Step(c)
    PROVE  BlockInv'
<1> USE DEF Small, AnswerSmall, SumSmall, Modest
<1>1. CASE BlockFrame(c)
  <2>1. Small' 
    BY <1>1 DEF BlockFrame, BlockInv
  <2>2. AnswerSmall'
    BY <1>1 DEF BlockFrame, BlockInv, Answers
  <2>3. SumSmall'
    BY <1>1 DEF BlockFrame, BlockInv
  <2>4. Modest'
    BY <1>1 DEF BlockFrame, BlockInv
  <2> QED BY <2>1, <2>2, <2>3, <2>4 DEF BlockInv
<1>2. CASE Mine(c)
  <2>1. Kind[c] = "mine" /\ pc[c] = "start" /\ pc'[c] \in {"ask", "done"}
    BY <1>2 DEF Mine, Goto, TypeInv
  <2>2. loop' = loop /\ sum' = sum /\ \A d \in Calls \ {c} : pc'[d] = pc[d]
    BY <1>2 DEF Mine, Goto, TypeInv, poolVars, minerVars, nodeVars, localVars, history
  <2>3. \A d \in Calls : Kind[d] = "mine" => d = c
    BY <2>1, OneMiner
  <2>4. Small'
    <3>1. CASE MiningPool' = MiningPool
      BY <3>1 DEF BlockInv
    <3>2. CASE MiningPool' = NewMiningPool
      <4>1. NewMiningPool = <<>> \/ 100 + Amounts(Size, NewMiningPool) < BlockSize
        BY MiningPoolFits DEF TypeInv
      <4> QED BY <3>2, <4>1
    <3> QED BY <1>2, <3>1, <3>2 DEF Mine
  <2>5. AnswerSmall'
    BY <2>1, <2>2, <2>3 DEF BlockInv, Answers
  <2>6. SumSmall'
    BY <2>1, <2>2, <2>3 DEF BlockInv, WhereInv, Mining
  <2>7. Modest'
    BY <2>1, <2>2, <2>3 DEF BlockInv
  <2> QED BY <2>4, <2>5, <2>6, <2>7 DEF BlockInv
<1>3. CASE Ask(c)
  <2>1. /\ UNCHANGED <<MiningPool, coinbase, sum>>
        /\ pc[c] = "ask" /\ pc' = [pc EXCEPT ![c] = "wait"]
    BY <1>3 DEF Ask, Goto, poolVars, minerVars, nodeVars, localVars, history
  <2>2. PICK s \in GetInputSums(Asked(c)) : loop' = [chan |-> Channel(c), asker |-> c, sums
       |-> s]
    BY <1>3 DEF Ask
  <2>3. Asked(c) \in Seq(Transactions)
    BY CallTypes DEF Asked, TypeInv
  <2>4. s <= Amounts(InputSum, Asked(c))
    BY <2>2, <2>3, ReportedSums
  <2>5. loop'.asker = c /\ loop'.sums = s /\ pc'[c] = "wait"
    BY <2>1, <2>2 DEF TypeInv
  <2>6. AnswerSmall'
    BY <2>1, <2>4, <2>5 DEF Asked
  <2>7. Small' /\ SumSmall' /\ Modest'
    BY <2>1 DEF BlockInv, TypeInv
  <2> QED BY <2>6, <2>7 DEF BlockInv
<1>4. CASE Receive(c)
  <2>1. /\ UNCHANGED <<MiningPool, coinbase>> /\ loop' = Select
        /\ pc[c] = "wait" /\ pc'[c] \in {"coinbase", "done", "check"}
        /\ pc'[c] = "coinbase" => Kind[c] = "mine"
        /\ sum'[c] = loop.sums
        /\ \A d \in Calls \ {c} : pc'[d] = pc[d] /\ sum'[d] = sum[d]
    BY <1>4 DEF Receive, Answered, Goto, TypeInv, poolVars, minerVars, nodeVars, localVars,
         history
  <2>2. loop \in Answers /\ loop.asker = c
    BY <2>1 DEF LoopInv
  <2>3. Small'
    BY <2>1 DEF BlockInv
  <2>4. AnswerSmall'
    BY <2>1 DEF Answers, Select
  <2>5. SumSmall'
    BY <2>1, <2>2 DEF BlockInv
  <2>6. Modest'
    BY <2>1 DEF BlockInv
  <2> QED BY <2>3, <2>4, <2>5, <2>6 DEF BlockInv
<1>5. CASE TimeOut(c)
  <2>1. /\ UNCHANGED <<MiningPool, coinbase, loop>>
        /\ pc[c] = "wait" /\ pc'[c] \in {"coinbase", "done", "check"}
        /\ sum'[c] = 0
        /\ \A d \in Calls \ {c} : pc'[d] = pc[d] /\ sum'[d] = sum[d]
    BY <1>5 DEF TimeOut, Answered, Goto, TypeInv, poolVars, minerVars, nodeVars, localVars,
         history
  <2>2. Small'
    BY <2>1 DEF BlockInv
  <2>3. AnswerSmall'
    BY <2>1 DEF BlockInv, Answers
  <2>4. SumSmall'
    <3>1. InputSum \in [Transactions -> Nat] /\ MiningPool \in Seq(Transactions)
      BY TransactionsAssumption DEF TypeInv
    <3>2. Amounts(InputSum, MiningPool) \in Nat
      BY <3>1, AmountsNatural
    <3> QED BY <2>1, <3>2 DEF BlockInv
  <2>5. Modest'
    BY <2>1 DEF BlockInv
  <2> QED BY <2>2, <2>3, <2>4, <2>5 DEF BlockInv
<1>6. CASE GenerateCoinbaseTransaction(c)
  <2>1. /\ UNCHANGED <<MiningPool, loop, sum>>
        /\ pc[c] = "coinbase" /\ pc'[c] = "nonce"
        /\ coinbase' = (CalculateFees(MiningPool, sum[c]) + CalculateMintingReward) % Word
        /\ \A d \in Calls \ {c} : pc'[d] = pc[d]
    BY <1>6 DEF GenerateCoinbaseTransaction, Goto, TypeInv, poolVars, minerVars, nodeVars,
         localVars, history
  <2>2. Kind[c] = "mine"
    BY <2>1 DEF WhereInv, Mining
  <2>3. \A d \in Calls : Kind[d] = "mine" => d = c
    BY <2>2, OneMiner
  <2>4. coinbase' <= InitialSubsidy + Amounts(InputSum, MiningPool) - Amounts(OutputSum,
       MiningPool)
    <3>1. PICK ts, s : ts = MiningPool /\ s = sum[c]
      OBVIOUS
    <3>2. ts \in Seq(Transactions) /\ s \in Nat /\ ChainLength \in Nat
      BY <3>1, LocalTypes
    <3>3. ts = <<>> \/ 100 + Amounts(Size, ts) < BlockSize
      BY <3>1 DEF BlockInv
    <3>4. s <= Amounts(InputSum, ts)
      BY <2>1, <3>1 DEF BlockInv
    <3>5. (CalculateFees(ts, s) + CalculateMintingReward) % Word
             <= InitialSubsidy + Amounts(InputSum, ts) - Amounts(OutputSum, ts)
      BY <3>2, <3>3, <3>4, CoinbaseBound
    <3> QED BY <2>1, <3>1, <3>5
  <2>5. Small'
    BY <2>1 DEF BlockInv
  <2>6. AnswerSmall'
    BY <2>1 DEF BlockInv, Answers
  <2>7. SumSmall'
    BY <2>1 DEF BlockInv
  <2>8. Modest'
    BY <2>1, <2>3, <2>4
  <2> QED BY <2>5, <2>6, <2>7, <2>8 DEF BlockInv
<1> QED BY <1>1, <1>2, <1>3, <1>4, <1>5, <1>6, BlockQuiet

-----------------------------------------------------------------------------
(* The theorems                                                            *)

\* The invariant holds initially.
LEMMA InitHolds == Init => MInv
<1> SUFFICES ASSUME Init PROVE MInv
  OBVIOUS
<1>1. TypeInv
  BY InitType
<1>2. \A c \in Calls : pc[c] \in {"start", "absent"}
  BY DEF Init
<1>3. WhereInv /\ LoopInv
  BY <1>2 DEF WhereInv, LoopInv, Adding, Removing, Mining
<1>4. applied = {}
  BY DEF Init
<1>5. PICK added : added = FoldLeft(AddInitial, <<>>, InitialPool)
  OBVIOUS
<1>6. /\ added \in Seq(Node) /\ Held(added) = ToSet(InitialPool) /\ TxQ = added
      /\ Count = Len(added) % Word /\ CurrentPriority = Total(added) % Word
  BY <1>5, InitialHeap DEF Init
<1>7. LostInv
  BY <1>4, <1>6 DEF LostInv, Added
<1>8. SumOver(CountDue, Calls) = 0 /\ SumOver(PriorityDue, Calls) = 0
  <2>1. IsFiniteSet(Calls)
    BY CallsAssumption
  <2>2. \A c \in Calls : CountDue[c] = 0 /\ PriorityDue[c] = 0
    BY <1>2 DEF CountDue, PriorityDue
  <2> QED BY <2>1, <2>2, SumZero
<1>9. Len(added) + 0 = Len(added) /\ Total(added) + 0 = Total(added)
  BY <1>6, PrioritiesType
<1>10. CountersInv
  BY <1>6, <1>8, <1>9 DEF CountersInv
<1> QED BY <1>1, <1>3, <1>4, <1>7, <1>10 DEF MInv, AppliedInv

\* Only Active changes when the miner is started, and nothing in a stuttering step.
LEMMA NothingElse ==
    ASSUME StartMiner \/ UNCHANGED vars
    PROVE  /\ UNCHANGED <<TxQ, Count, CurrentPriority, MiningPool, ChainLength, coinbase>>
           /\ UNCHANGED <<SeenTransactions, mutex, loop, onChain, sum, num, pri, pc, applied>>
BY DEF StartMiner, vars, poolVars, minerVars, nodeVars, localVars, history

\* Every step keeps the invariant.
LEMMA StepKeeps == MInv /\ [Next]_vars => MInv'
<1> SUFFICES ASSUME MInv, [Next]_vars PROVE MInv'
  OBVIOUS
<1>1. CASE \E c \in Calls : Step(c)
  <2>1. PICK c \in Calls : Step(c)
    BY <1>1
  <2>2. TypeInv'
    BY <2>1, TypeStep DEF MInv
  <2>3. WhereInv'
    BY <2>1, WhereStep DEF MInv
  <2>4. LoopInv'
    BY <2>1, LoopStep DEF MInv
  <2>5. AppliedInv'
    BY <2>1, AppliedStep DEF MInv
  <2>6. LostInv'
    BY <2>1, LostStep DEF MInv
  <2>7. CountersInv'
    BY <2>1, <2>2, CountersStep DEF MInv
  <2> QED BY <2>2, <2>3, <2>4, <2>5, <2>6, <2>7 DEF MInv
<1>2. CASE StartMiner \/ UNCHANGED vars
  <2>1. TypeInv' /\ WhereInv' /\ AppliedInv'
    BY <1>2, NothingElse DEF MInv, TypeInv, WhereInv, AppliedInv
  <2>2. LoopInv'
    BY <1>2, NothingElse DEF MInv, LoopInv, Channel
  <2>3. LostInv'
    BY <1>2, NothingElse DEF MInv, LostInv, Added, Handled, Adder, Asked, Held
  <2>4. CountersInv'
    <3>1. CountDue' = CountDue /\ PriorityDue' = PriorityDue
      BY <1>2, NothingElse DEF CountDue, PriorityDue
    <3> QED BY <1>2, <3>1, NothingElse DEF MInv, CountersInv
  <2> QED BY <2>1, <2>2, <2>3, <2>4 DEF MInv
<1> QED BY <1>1, <1>2 DEF Next

\* The inductive invariant of the pool, the loop and the calls.
THEOREM MinerInvariance == Spec => []MInv
BY InitHolds, StepKeeps, PTL DEF Spec

\* TypeOK always: a priority is never 0 and never wraps to 0, whatever input
\* sums were reported (CalculatePriority), and all the counters stay words.
THEOREM TypesAreKept == Spec => []TypeOK
<1>1. MInv => TypeOK
  BY DEF MInv, TypeInv, TypeOK, Node, Words, Answers
<1> QED BY <1>1, MinerInvariance, PTL

\* CountersAgree always, for any number of calls of Add and CheckTransactions
\* in any interleaving of their atomic updates, also when a counter wraps.
THEOREM CountersAreRight == Spec => []CountersAgree
<1>1. MInv => CountersAgree
  <2> SUFFICES ASSUME MInv,
                      \A c \in Calls :
                          pc[c] \notin {"push", "count", "subtract", "subtractPriority"}
               PROVE  Count = Len(TxQ) % Word /\ CurrentPriority = Total(TxQ) % Word
    BY DEF CountersAgree
  <2>1. IsFiniteSet(Calls)
    BY CallsAssumption
  <2>2. \A c \in Calls : CountDue[c] = 0 /\ PriorityDue[c] = 0
    BY DEF CountDue, PriorityDue
  <2>3. SumOver(CountDue, Calls) = 0 /\ SumOver(PriorityDue, Calls) = 0
    BY <2>1, <2>2, SumZero
  <2>4. TxQ \in Seq(Node)
    BY DEF MInv, TypeInv
  <2>5. Len(TxQ) + 0 = Len(TxQ) /\ Total(TxQ) + 0 = Total(TxQ)
    BY <2>4, PrioritiesType
  <2> QED BY <2>3, <2>5 DEF MInv, CountersInv
<1> QED BY <1>1, MinerInvariance, PTL

\* NothingLost always: heap.Remove and heap.Init keep every node that no block
\* was handled for, for heaps of every size.
THEOREM NoTransactionIsLost == Spec => []NothingLost
<1>1. MInv => NothingLost
  BY LostIsLost DEF MInv
<1> QED BY <1>1, MinerInvariance, PTL

\* AnswersMatch always: over the shared channels InputSums and
\* ReceiveTransactionFromWallet an answer reaches the call that asked.
THEOREM AnswersReachTheAsker == Spec => []AnswersMatch
<1>1. MInv => AnswersMatch
  BY DEF MInv, LoopInv, AnswersMatch
<1> QED BY <1>1, MinerInvariance, PTL

\* BlockIsModest always, if the uint32 sums of a block do not wrap and no
\* transaction in the pool has more outputs than inputs: with late, missing and
\* partial input sums, and for every order of the pool.
THEOREM BlocksAreModest ==
    ASSUME SizesFit, NothingMinted, OutputsFit
    PROVE  Spec => []BlockIsModest
<1>1. Init => BlockInv
  BY DEF Init, BlockInv, Small, AnswerSmall, SumSmall, Modest, Answers, Select
<1>2. MInv /\ BlockInv /\ [Next]_vars => BlockInv'
  <2> SUFFICES ASSUME MInv, BlockInv, [Next]_vars PROVE BlockInv'
    OBVIOUS
  <2>1. CASE \E c \in Calls : Step(c)
    BY <2>1, BlockStep DEF MInv
  <2>2. CASE StartMiner \/ UNCHANGED vars
    BY <2>2, NothingElse DEF BlockInv, Small, AnswerSmall, SumSmall, Modest
  <2> QED BY <2>1, <2>2 DEF Next
<1>3. BlockInv => BlockIsModest
  BY DEF BlockInv, Small, Modest, BlockIsModest
<1> QED BY <1>1, <1>2, <1>3, MinerInvariance, PTL DEF Spec
=============================================================================
