-------------------------- MODULE BlockChainProofs --------------------------
(***************************************************************************)
(* Proofs about BlockChain, for every set of blocks, transactions and      *)
(* coins, every order of deliveries and every value of the bounds.         *)
(*                                                                         *)
(* Types hold always, and so do the records of the active chain            *)
(* (RecordInv: the chains of LastHash and of every unsafe hash are in the  *)
(* records, so that a fork that leads back to an unsafe hash is recorded   *)
(* down to the genesis block), the heights of rooted chains and what       *)
(* follows from them.  The other results hold up to the first fork that    *)
(* is adopted: OnlyExtends says that the active chain changes by an append *)
(* only.  handleFork stores the blocks it has just undone and not those of *)
(* the other branch, so the coins, the balance and the contents of undo    *)
(* blocks follow the active chain no further.                              *)
(*                                                                         *)
(* The inductive invariant for the coins is Stage(CoinDB, U, {}), where U  *)
(* is the set of unspent outputs of the active chain: the coins in the     *)
(* cache that are not marked spent are U, each is in the record of its     *)
(* transaction, and a record holds besides them only spent coins that no   *)
(* flush has taken from it yet.  The third parameter names the outputs     *)
(* that a block under way has put into the cache and not yet into a        *)
(* record.                                                                 *)
(*                                                                         *)
(* What loops compute is written with folds.  Each is an instance of       *)
(* FoldRules, whose rules assume induction over the indices or over a      *)
(* finite set (Inductive, AllSubsetsInduct); Induct and InductFinite prove *)
(* those.                                                                  *)
(***************************************************************************)
EXTENDS BlockChain, SetSums

Outs == INSTANCE FoldRules WITH op <- AppendOutputs
Ins == INSTANCE FoldRules WITH op <- AppendInputs
Spends == INSTANCE FoldRules WITH op <- Spend
Backs == INSTANCE FoldRules WITH op <- StepBack
Removals == INSTANCE FoldRules WITH op <- RemoveIndex
Marks == INSTANCE FoldRules WITH op <- SpendInput
BlockMarks == INSTANCE FoldRules WITH op <- SpendInputs
CoinStores == INSTANCE FoldRules WITH op <- StoreCoin
RecordStores == INSTANCE FoldRules WITH op <- StoreInDB
Erasures == INSTANCE FoldRules WITH op <- EraseTransaction
Restores == INSTANCE FoldRules WITH op <- RestoreEntry
Undos == INSTANCE FoldRules WITH op <- UndoPair
BlockStores == INSTANCE FoldRules WITH op <- StoreAgain
Counts == INSTANCE FoldRules WITH op <- AppendRecord

\* Induction, as the rules of FoldRules assume it.
LEMMA Induct ==
    /\ Outs!Inductive /\ Ins!Inductive /\ Spends!Inductive /\ Backs!Inductive
    /\ Marks!Inductive /\ BlockMarks!Inductive /\ CoinStores!Inductive /\ RecordStores!Inductive
    /\ Erasures!Inductive /\ Restores!Inductive /\ Undos!Inductive /\ BlockStores!Inductive
<1>1. ASSUME NEW n \in Nat, NEW P \in SUBSET (SUBSET (1..n)),
             \A T \in SUBSET (1..n) : (\A U \in SUBSET T : U # T => U \in P) => T \in P
      PROVE  P = SUBSET (1..n)
  BY <1>1, IndicesFinite, SubsetInduction
<1> QED BY <1>1, LeastNumber
     DEF Outs!Inductive, Ins!Inductive, Spends!Inductive, Backs!Inductive,
         Marks!Inductive, BlockMarks!Inductive, CoinStores!Inductive, RecordStores!Inductive,
         Erasures!Inductive, Restores!Inductive, Undos!Inductive, BlockStores!Inductive,
         Outs!SubsetsInduct, Ins!SubsetsInduct, Spends!SubsetsInduct, Backs!SubsetsInduct,
         Marks!SubsetsInduct, BlockMarks!SubsetsInduct, CoinStores!SubsetsInduct,
         RecordStores!SubsetsInduct, Erasures!SubsetsInduct, Restores!SubsetsInduct,
         Undos!SubsetsInduct, BlockStores!SubsetsInduct

\* Induction on the subsets of a finite set.
LEMMA InductFinite ==
    ASSUME NEW S, IsFiniteSet(S)
    PROVE  Removals!AllSubsetsInduct(S) /\ Counts!AllSubsetsInduct(S)
<1>1. ASSUME NEW V \in SUBSET S, NEW P \in SUBSET (SUBSET V),
             \A T \in SUBSET V : (\A U \in SUBSET T : U # T => U \in P) => T \in P
      PROVE  P = SUBSET V
  <2>1. IsFiniteSet(V)
    BY FS_Subset
  <2> QED BY <1>1, <2>1, SubsetInduction
<1> QED BY <1>1 DEF Removals!AllSubsetsInduct, Counts!AllSubsetsInduct,
                    Removals!SubsetsInduct, Counts!SubsetsInduct

-----------------------------------------------------------------------------
(* The chain of a block                                                    *)

\* p leads from the genesis block to h, each block the parent of the next.
Path(p, h) ==
    /\ p \in Seq(Hashes) /\ Len(p) >= 1
    /\ p[1] = Genesis /\ p[Len(p)] = h
    /\ \A k \in 1..(Len(p) - 1) : PreviousHash[p[k + 1]] = p[k]

\* A path grows by a child of its last block.
LEMMA PathGrows ==
    ASSUME NEW h \in Hashes, h # Genesis, NEW p, Path(p, PreviousHash[h])
    PROVE  Path(Append(p, h), h)
<1>1. PICK q : q = Append(p, h)
  OBVIOUS
<1>2. PICK n \in Nat : n = Len(p) /\ n >= 1
  BY DEF Path
<1>3. /\ q \in Seq(Hashes) /\ Len(q) = n + 1 /\ q[n + 1] = h
      /\ \A k \in 1..n : q[k] = p[k]
  BY <1>1, <1>2 DEF Path
<1>4. q[1] = Genesis
  BY <1>2, <1>3 DEF Path
<1>5. ASSUME NEW k \in 1..n PROVE PreviousHash[q[k + 1]] = q[k]
  <2>1. CASE k = n
    BY <1>2, <1>3, <2>1 DEF Path
  <2>2. CASE k < n
    BY <1>2, <1>3, <2>2 DEF Path
  <2> QED BY <2>1, <2>2
<1> QED BY <1>1, <1>2, <1>3, <1>4, <1>5 DEF Path

\* Every block has a path.
LEMMA PathExists ==
    ASSUME NEW h \in Hashes
    PROVE  \E p : Path(p, h)
<1> DEFINE S == {g \in Hashes : ~ \E p : Path(p, g)}
<1>1. ASSUME S # {} PROVE FALSE
  <2>1. PICK g \in S : PreviousHash[g] \notin S
    BY <1>1, HashesAssumption
  <2>2. CASE g = Genesis
    <3>1. PICK p : p = <<Genesis>>
      OBVIOUS
    <3>2. p \in Seq(Hashes) /\ Len(p) = 1 /\ p[1] = Genesis
      BY <3>1, BlocksAssumption
    <3>3. Path(p, Genesis)
      BY <3>2 DEF Path
    <3> QED BY <2>1, <2>2, <3>3
  <2>3. CASE g # Genesis
    <3>1. PreviousHash[g] \in Hashes
      BY <2>1, <2>3, BlocksAssumption
    <3>2. PICK p : Path(p, PreviousHash[g])
      BY <2>1, <3>1
    <3>3. Path(Append(p, g), g)
      BY <2>1, <2>3, <3>2, PathGrows
    <3> QED BY <2>1, <3>3
  <2> QED BY <2>2, <2>3
<1> QED BY <1>1

\* Without its last block, the path of h is one of its parent.
LEMMA PathShrinks ==
    ASSUME NEW h \in Hashes, h # Genesis, NEW p, Path(p, h)
    PROVE  \E q : Path(q, PreviousHash[h]) /\ p = Append(q, h)
<1>1. PICK n \in Nat : n = Len(p) /\ n >= 1
  BY DEF Path
<1>2. n # 1
  BY <1>1 DEF Path
<1>3. PICK q : q = [k \in 1..(n - 1) |-> p[k]]
  OBVIOUS
<1>4. q \in Seq(Hashes) /\ Len(q) = n - 1
  BY <1>1, <1>2, <1>3 DEF Path
<1>5. Path(q, PreviousHash[h])
  <2>1. q[1] = Genesis
    BY <1>1, <1>2, <1>3 DEF Path
  <2>2. q[n - 1] = PreviousHash[h]
    BY <1>1, <1>2, <1>3 DEF Path
  <2>3. ASSUME NEW k \in 1..(n - 2) PROVE PreviousHash[q[k + 1]] = q[k]
    BY <1>1, <1>2, <1>3 DEF Path
  <2> QED BY <1>1, <1>2, <1>4, <2>1, <2>2, <2>3 DEF Path
<1>6. p = Append(q, h)
  <2>1. Append(q, h) \in Seq(Hashes) /\ Len(Append(q, h)) = n
    BY <1>2, <1>4
  <2>2. ASSUME NEW k \in 1..n PROVE p[k] = Append(q, h)[k]
    BY <1>1, <1>3, <1>4 DEF Path
  <2> QED BY <1>1, <2>1, <2>2 DEF Path
<1> QED BY <1>5, <1>6

\* The genesis block is its own path.
LEMMA PathOfGenesis ==
    ASSUME NEW p, Path(p, Genesis)
    PROVE  p = <<Genesis>>
<1>1. PICK n \in Nat : n = Len(p) /\ n >= 1
  BY DEF Path
<1>2. n = 1
  <2> SUFFICES ASSUME n # 1 PROVE FALSE
    OBVIOUS
  <2>1. n - 1 \in 1..(n - 1) /\ p[n - 1] \in Hashes /\ (n - 1) + 1 = n
    BY <1>1 DEF Path
  <2>2. PreviousHash[p[(n - 1) + 1]] = p[n - 1]
    BY <1>1, <2>1 DEF Path
  <2>3. PreviousHash[Genesis] = p[n - 1]
    BY <1>1, <2>1, <2>2 DEF Path
  <2> QED BY <2>1, <2>3, BlocksAssumption
<1>3. p \in Seq(Hashes) /\ Len(p) = 1 /\ p[1] = Genesis
  BY <1>1, <1>2 DEF Path
<1>4. <<Genesis>> \in Seq(Hashes) /\ Len(<<Genesis>>) = 1 /\ <<Genesis>>[1] = Genesis
  BY BlocksAssumption
<1> QED BY <1>3, <1>4

\* A block has one path only.
LEMMA PathUnique ==
    ASSUME NEW h \in Hashes, NEW p, NEW q, Path(p, h), Path(q, h)
    PROVE  p = q
<1> DEFINE S == {g \in Hashes : \E r, s : Path(r, g) /\ Path(s, g) /\ r # s}
<1>1. ASSUME S # {} PROVE FALSE
  <2>1. PICK g \in S : PreviousHash[g] \notin S
    BY <1>1, HashesAssumption
  <2>2. PICK r, s : Path(r, g) /\ Path(s, g) /\ r # s
    BY <2>1
  <2>3. CASE g = Genesis
    BY <2>2, <2>3, PathOfGenesis
  <2>4. CASE g # Genesis
    <3>1. PreviousHash[g] \in Hashes
      BY <2>1, <2>4, BlocksAssumption
    <3>2. PICK r1 : Path(r1, PreviousHash[g]) /\ r = Append(r1, g)
      BY <2>1, <2>2, <2>4, PathShrinks
    <3>3. PICK s1 : Path(s1, PreviousHash[g]) /\ s = Append(s1, g)
      BY <2>1, <2>2, <2>4, PathShrinks
    <3>4. r1 = s1
      BY <2>1, <3>1, <3>2, <3>3
    <3> QED BY <2>2, <3>2, <3>3, <3>4
  <2> QED BY <2>3, <2>4
<1> QED BY <1>1

\* ChainOf is what its definition says.
LEMMA ChainUnfolds ==
    ChainOf = [h \in Hashes |-> IF h = Genesis THEN <<h>>
                                ELSE Append(ChainOf[PreviousHash[h]], h)]
<1> DEFINE Is(f) == f = [h \in Hashes |-> IF h = Genesis THEN <<h>>
                                          ELSE Append(f[PreviousHash[h]], h)]
<1>1. PICK g : g = [h \in Hashes |-> CHOOSE p : Path(p, h)]
  OBVIOUS
<1>2. \A h \in Hashes : Path(g[h], h)
  BY <1>1, PathExists
<1>3. ASSUME NEW h \in Hashes
      PROVE  g[h] = IF h = Genesis THEN <<h>> ELSE Append(g[PreviousHash[h]], h)
  <2>1. CASE h = Genesis
    BY <1>2, <2>1, PathOfGenesis
  <2>2. CASE h # Genesis
    <3>1. PreviousHash[h] \in Hashes
      BY <2>2, BlocksAssumption
    <3>2. Path(Append(g[PreviousHash[h]], h), h)
      BY <1>2, <2>2, <3>1, PathGrows
    <3>3. g[h] = Append(g[PreviousHash[h]], h)
      BY <1>2, <3>2, PathUnique
    <3> QED BY <2>2, <3>3
  <2> QED BY <2>1, <2>2
<1>4. DOMAIN g = Hashes /\ g = [h \in Hashes |-> g[h]]
  BY <1>1
<1>5. Is(g)
  BY <1>3, <1>4
<1>6. ChainOf = CHOOSE f : Is(f)
  BY DEF ChainOf
<1> HIDE DEF Is
<1>7. Is(ChainOf)
  BY <1>5, <1>6
<1> QED BY <1>7 DEF Is

\* The chain of the genesis block, and of any other block.
LEMMA ChainSteps ==
    /\ ChainOf[Genesis] = <<Genesis>>
    /\ \A h \in Hashes : h # Genesis =>
          PreviousHash[h] \in Hashes /\ ChainOf[h] = Append(ChainOf[PreviousHash[h]], h)
BY ChainUnfolds, BlocksAssumption

\* The chain of a block leads to it.
LEMMA ChainIsPath ==
    ASSUME NEW h \in Hashes
    PROVE  Path(ChainOf[h], h)
<1> DEFINE S == {g \in Hashes : ~Path(ChainOf[g], g)}
<1>1. ASSUME S # {} PROVE FALSE
  <2>1. PICK g \in S : PreviousHash[g] \notin S
    BY <1>1, HashesAssumption
  <2>2. CASE g = Genesis
    <3>1. PICK p : Path(p, Genesis)
      BY PathExists, BlocksAssumption
    <3> QED BY <2>1, <2>2, <3>1, PathOfGenesis, ChainSteps
  <2>3. CASE g # Genesis
    BY <2>1, <2>3, ChainSteps, PathGrows
  <2> QED BY <2>2, <2>3
<1> QED BY <1>1

\* What lies below a block of a chain is the chain of that block.
LEMMA ChainBelow ==
    ASSUME NEW h \in Hashes, NEW k \in 1..Len(ChainOf[h])
    PROVE  Len(ChainOf[ChainOf[h][k]]) = k
<1> DEFINE S == {g \in Hashes : \E i \in 1..Len(ChainOf[g]) : Len(ChainOf[ChainOf[g][i]]) # i}
<1>1. ASSUME S # {} PROVE FALSE
  <2>1. PICK g \in S : PreviousHash[g] \notin S
    BY <1>1, HashesAssumption
  <2>2. PICK i \in 1..Len(ChainOf[g]) : Len(ChainOf[ChainOf[g][i]]) # i
    BY <2>1
  <2>3. CASE i = Len(ChainOf[g])
    <3>1. ChainOf[g][i] = g
      BY <2>1, <2>3, ChainIsPath DEF Path
    <3> QED BY <2>2, <2>3, <3>1
  <2>4. CASE i # Len(ChainOf[g])
    <3>1. PICK n \in Nat : n = Len(ChainOf[g]) /\ n > i /\ i \in 1..n
      BY <2>1, <2>2, <2>4, ChainIsPath DEF Path
    <3>2. g # Genesis
      <4> SUFFICES ASSUME g = Genesis PROVE FALSE
        OBVIOUS
      <4>1. Len(<<Genesis>>) = 1
        OBVIOUS
      <4>2. ChainOf[Genesis] = <<Genesis>>
        BY ChainSteps
      <4>3. n = 1
        BY <3>1, <4>1, <4>2
      <4> QED BY ONLY <3>1, <4>3, n \in Nat
    <3>3. PICK c : c = ChainOf[PreviousHash[g]]
      OBVIOUS
    <3>4. PreviousHash[g] \in Hashes /\ ChainOf[g] = Append(c, g)
      BY <2>1, <3>2, <3>3, ChainSteps
    <3>5. c \in Seq(Hashes)
      BY <3>3, <3>4, ChainIsPath DEF Path
    <3>6. Len(c) = n - 1 /\ i \in 1..Len(c) /\ ChainOf[g][i] = c[i]
      BY <2>2, <3>1, <3>4, <3>5
    <3> QED BY <2>1, <2>2, <3>3, <3>4, <3>6
  <2> QED BY <2>3, <2>4
<1> QED BY <1>1

-----------------------------------------------------------------------------
(* Outputs, inputs and the unspent outputs                                 *)

\* The coins are the outputs of the transactions.
LEMMA CoinsAre ==
    /\ \A cl : cl \in Coins <=>
          \E tx \in DOMAIN Inputs : \E i \in 0..(Outputs[tx] - 1) : cl = <<tx, i>>
    /\ \A tx \in DOMAIN Inputs :
          /\ TransactionOutputs(tx) \in Seq(Coins)
          /\ Len(TransactionOutputs(tx)) = Outputs[tx]
          /\ \A cl : cl \in ToSet(TransactionOutputs(tx)) <=>
                \E i \in 0..(Outputs[tx] - 1) : cl = <<tx, i>>
<1>1. ASSUME NEW tx \in DOMAIN Inputs
      PROVE  /\ Outputs[tx] \in Nat
             /\ DOMAIN TransactionOutputs(tx) = 1..Outputs[tx]
             /\ \A i \in 1..Outputs[tx] : TransactionOutputs(tx)[i] = <<tx, i - 1>>
  BY BlocksAssumption DEF TransactionOutputs
<1>2. ASSUME NEW tx \in DOMAIN Inputs, NEW cl
      PROVE  cl \in ToSet(TransactionOutputs(tx)) <=>
                \E i \in 0..(Outputs[tx] - 1) : cl = <<tx, i>>
  <2>1. ASSUME NEW i \in 1..Outputs[tx], cl = TransactionOutputs(tx)[i]
        PROVE  \E j \in 0..(Outputs[tx] - 1) : cl = <<tx, j>>
    <3>1. i - 1 \in 0..(Outputs[tx] - 1) /\ cl = <<tx, i - 1>>
      BY <1>1, <2>1
    <3> QED BY <3>1
  <2>2. ASSUME NEW j \in 0..(Outputs[tx] - 1), cl = <<tx, j>>
        PROVE  \E i \in 1..Outputs[tx] : cl = TransactionOutputs(tx)[i]
    <3>1. j + 1 \in 1..Outputs[tx] /\ (j + 1) - 1 = j
      BY <1>1
    <3> QED BY <1>1, <2>2, <3>1
  <2> QED BY <1>1, <2>1, <2>2 DEF ToSet
<1>3. ASSUME NEW cl
      PROVE  cl \in Coins <=>
                \E tx \in DOMAIN Inputs : \E i \in 0..(Outputs[tx] - 1) : cl = <<tx, i>>
  BY <1>2 DEF Coins
<1>4. ASSUME NEW tx \in DOMAIN Inputs
      PROVE  TransactionOutputs(tx) \in Seq(Coins) /\ Len(TransactionOutputs(tx)) = Outputs[tx]
  <2>1. ASSUME NEW i \in 1..Outputs[tx] PROVE <<tx, i - 1>> \in Coins
    <3>1. i - 1 \in 0..(Outputs[tx] - 1)
      BY <1>1
    <3> QED BY <1>3, <3>1
  <2>2. [i \in 1..Outputs[tx] |-> <<tx, i - 1>>] \in [1..Outputs[tx] -> Coins]
    BY <2>1
  <2>3. PICK n \in Nat : n = Outputs[tx]
    BY <1>1
  <2>4. TransactionOutputs(tx) \in [1..n -> Coins]
    BY <2>2, <2>3 DEF TransactionOutputs
  <2>5. TransactionOutputs(tx) \in Seq(Coins) /\ Len(TransactionOutputs(tx)) = n
    BY ONLY <2>4, n \in Nat
  <2> QED BY <2>3, <2>5
<1> QED BY <1>2, <1>3, <1>4

\* The elements of two sequences one after the other.
LEMMA ToSetConcat ==
    ASSUME NEW S, NEW s \in Seq(S), NEW t \in Seq(S)
    PROVE  s \o t \in Seq(S) /\ ToSet(s \o t) = ToSet(s) \cup ToSet(t)
<1>1. s \o t \in Seq(S) /\ Len(s \o t) = Len(s) + Len(t)
  OBVIOUS
<1>2. ASSUME NEW i \in 1..(Len(s) + Len(t)) PROVE (s \o t)[i] \in ToSet(s) \cup ToSet(t)
  <2>1. CASE i <= Len(s)
    BY <2>1 DEF ToSet
  <2>2. CASE i > Len(s)
    <3>1. (s \o t)[i] = t[i - Len(s)] /\ i - Len(s) \in 1..Len(t)
      BY <2>2
    <3> QED BY <3>1 DEF ToSet
  <2> QED BY <2>1, <2>2
<1>3. ASSUME NEW i \in 1..Len(s) PROVE s[i] \in ToSet(s \o t)
  <2>1. i \in 1..(Len(s) + Len(t)) /\ (s \o t)[i] = s[i]
    OBVIOUS
  <2> QED BY <1>1, <2>1 DEF ToSet
<1>4. ASSUME NEW i \in 1..Len(t) PROVE t[i] \in ToSet(s \o t)
  <2>1. i + Len(s) \in 1..(Len(s) + Len(t)) /\ (s \o t)[i + Len(s)] = t[i]
    OBVIOUS
  <2> QED BY <1>1, <2>1 DEF ToSet
<1>5. ToSet(s \o t) \subseteq ToSet(s) \cup ToSet(t)
  BY <1>1, <1>2 DEF ToSet
<1>6. ToSet(s) \subseteq ToSet(s \o t) /\ ToSet(t) \subseteq ToSet(s \o t)
  <2>1. ToSet(s) = {s[i] : i \in 1..Len(s)} /\ ToSet(t) = {t[i] : i \in 1..Len(t)}
    BY DEF ToSet
  <2> QED BY <1>3, <1>4, <2>1
<1> QED BY <1>1, <1>5, <1>6

\* The outputs of a list of transactions are those of its transactions.
LEMMA OutputsAre ==
    ASSUME NEW txs \in Seq(DOMAIN Inputs)
    PROVE  /\ OutputsOf(txs) \in Seq(Coins)
           /\ \A cl : cl \in ToSet(OutputsOf(txs)) <=>
                 \E j \in 1..Len(txs) : cl \in ToSet(TransactionOutputs(txs[j]))
<1>1. PICK n \in Nat : n = Len(txs)
  OBVIOUS
<1> DEFINE J(k) == {s \in Seq(Coins) : \A cl : cl \in ToSet(s) <=>
                        \E j \in 1..k : cl \in ToSet(TransactionOutputs(txs[j]))}
<1>2. PICK I : I = [k \in 0..n |-> J(k)]
  OBVIOUS
<1>3. <<>> \in I[0]
  <2>1. <<>> \in Seq(Coins) /\ ToSet(<<>>) = {}
    BY DEF ToSet
  <2> QED BY <1>2, <2>1
<1>4. ASSUME NEW k \in 1..Len(txs), NEW a \in I[k - 1]
      PROVE  AppendOutputs(a, txs[k]) \in I[k]
  <2>0. k - 1 \in 0..n /\ k \in 0..n /\ a \in J(k - 1) /\ I[k] = J(k)
    <3>1. k - 1 \in 0..n /\ k \in 0..n
      BY <1>1
    <3> QED BY <1>2, <3>1
  <2>1. PICK o : o = TransactionOutputs(txs[k])
    OBVIOUS
  <2>2. a \in Seq(Coins) /\ o \in Seq(Coins)
    BY <2>0, <2>1, CoinsAre
  <2>3. a \o o \in Seq(Coins) /\ ToSet(a \o o) = ToSet(a) \cup ToSet(o)
    BY <2>2, ToSetConcat
  <2>4. \A cl : cl \in ToSet(a) <=> \E j \in 1..(k - 1) : cl \in ToSet(TransactionOutputs(txs[j]))
    BY <2>0
  <2>5. ASSUME NEW cl
        PROVE  cl \in ToSet(a \o o) <=> \E j \in 1..k : cl \in ToSet(TransactionOutputs(txs[j]))
    <3>1. 1..k = 1..(k - 1) \cup {k}
      OBVIOUS
    <3>2. cl \in ToSet(a \o o) <=> cl \in ToSet(a) \/ cl \in ToSet(TransactionOutputs(txs[k]))
      BY <2>1, <2>3
    <3>3. cl \in ToSet(a) <=> \E j \in 1..(k - 1) : cl \in ToSet(TransactionOutputs(txs[j]))
      BY <2>4
    <3> HIDE DEF J
    <3> QED BY <3>1, <3>2, <3>3, Zenon
  <2>6. a \o o \in J(k)
    BY <2>3, <2>5
  <2> QED BY <2>0, <2>1, <2>6 DEF AppendOutputs
<1>5. Outs!Fold(<<>>, txs) \in I[Len(txs)]
  BY <1>3, <1>4, Outs!FoldSteps, Induct
<1>6. OutputsOf(txs) = Outs!Fold(<<>>, txs)
  BY DEF OutputsOf, Outs!Fold, Outs!At, Outs!Steps, Outs!Greatest,
         FoldLeft, MapThenFoldSet, Max
<1> QED BY <1>1, <1>2, <1>5, <1>6

\* What a list of transactions spends is what its transactions spend.
LEMMA InputsAre ==
    ASSUME NEW txs \in Seq(DOMAIN Inputs)
    PROVE  /\ InputsOf(txs) \in Seq((DOMAIN Inputs) \X Nat)
           /\ \A cl : cl \in ToSet(InputsOf(txs)) <=>
                 \E j \in 1..Len(txs) : cl \in ToSet(Inputs[txs[j]])
<1>1. PICK n \in Nat : n = Len(txs)
  OBVIOUS
<1>2. PICK C : C = (DOMAIN Inputs) \X Nat
  OBVIOUS
<1> DEFINE J(k) == {s \in Seq(C) : \A cl : cl \in ToSet(s) <=>
                        \E j \in 1..k : cl \in ToSet(Inputs[txs[j]])}
<1>3. PICK I : I = [k \in 0..n |-> J(k)]
  OBVIOUS
<1>4. <<>> \in I[0]
  <2>1. <<>> \in Seq(C) /\ ToSet(<<>>) = {}
    BY DEF ToSet
  <2> QED BY <1>3, <2>1
<1>5. ASSUME NEW k \in 1..Len(txs), NEW a \in I[k - 1]
      PROVE  AppendInputs(a, txs[k]) \in I[k]
  <2>0. k - 1 \in 0..n /\ k \in 0..n /\ a \in J(k - 1) /\ I[k] = J(k)
    <3>1. k - 1 \in 0..n /\ k \in 0..n
      BY <1>1
    <3> QED BY <1>3, <3>1
  <2>1. PICK o : o = Inputs[txs[k]]
    OBVIOUS
  <2>2. a \in Seq(C) /\ o \in Seq(C)
    BY <1>2, <2>0, <2>1, BlocksAssumption
  <2>3. a \o o \in Seq(C) /\ ToSet(a \o o) = ToSet(a) \cup ToSet(o)
    BY <2>2, ToSetConcat
  <2>4. \A cl : cl \in ToSet(a) <=> \E j \in 1..(k - 1) : cl \in ToSet(Inputs[txs[j]])
    BY <2>0
  <2>5. ASSUME NEW cl
        PROVE  cl \in ToSet(a \o o) <=> \E j \in 1..k : cl \in ToSet(Inputs[txs[j]])
    <3>1. 1..k = 1..(k - 1) \cup {k}
      OBVIOUS
    <3>2. cl \in ToSet(a \o o) <=> cl \in ToSet(a) \/ cl \in ToSet(Inputs[txs[k]])
      BY <2>1, <2>3
    <3>3. cl \in ToSet(a) <=> \E j \in 1..(k - 1) : cl \in ToSet(Inputs[txs[j]])
      BY <2>4
    <3> HIDE DEF J
    <3> QED BY <3>1, <3>2, <3>3, Zenon
  <2>6. a \o o \in J(k)
    BY <2>3, <2>5
  <2> QED BY <2>0, <2>1, <2>6 DEF AppendInputs
<1>6. Ins!Fold(<<>>, txs) \in I[Len(txs)]
  BY <1>4, <1>5, Ins!FoldSteps, Induct
<1>7. InputsOf(txs) = Ins!Fold(<<>>, txs)
  BY DEF InputsOf, Ins!Fold, Ins!At, Ins!Steps, Ins!Greatest,
         FoldLeft, MapThenFoldSet, Max
<1> QED BY <1>1, <1>2, <1>3, <1>6, <1>7

\* The unspent outputs of a chain, block by block.
LEMMA UtxoSteps ==
    /\ Utxo(ChainOf[Genesis]) = Spend({}, Genesis)
    /\ \A h \in Hashes : h # Genesis =>
          Utxo(ChainOf[h]) = Spend(Utxo(ChainOf[PreviousHash[h]]), h)
<1>1. ASSUME NEW c PROVE Utxo(c) = Spends!Fold({}, c)
  BY DEF Utxo, Spends!Fold, Spends!At, Spends!Steps, Spends!Greatest,
         FoldLeft, MapThenFoldSet, Max
<1>2. Utxo(ChainOf[Genesis]) = Spend({}, Genesis)
  <2>1. <<Genesis>> = Append(<<>>, Genesis) /\ <<>> \in Seq(Hashes) /\ Genesis \in Hashes
    BY BlocksAssumption
  <2>2. Spends!Fold({}, Append(<<>>, Genesis)) = Spend(Spends!Fold({}, <<>>), Genesis)
    <3>1. Spends!Inductive
      BY Induct
    <3>2. PICK e \in Seq(Hashes), g \in Hashes : e = <<>> /\ g = Genesis
      BY <2>1
    <3>3. Spends!Fold({}, Append(e, g)) = Spend(Spends!Fold({}, e), g)
      BY ONLY <3>1, e \in Seq(Hashes), g \in Hashes, Spends!FoldAppend
    <3> QED BY <3>2, <3>3
  <2>3. Spends!Fold({}, <<>>) = {}
    BY Spends!FoldEmpty, Induct
  <2> QED BY <1>1, <2>1, <2>2, <2>3, ChainSteps
<1>3. ASSUME NEW h \in Hashes, h # Genesis
      PROVE  Utxo(ChainOf[h]) = Spend(Utxo(ChainOf[PreviousHash[h]]), h)
  <2>1. PICK c : c = ChainOf[PreviousHash[h]]
    OBVIOUS
  <2>2. c \in Seq(Hashes) /\ ChainOf[h] = Append(c, h)
    BY <1>3, <2>1, ChainSteps, ChainIsPath DEF Path
  <2>3. Spends!Fold({}, Append(c, h)) = Spend(Spends!Fold({}, c), h)
    <3>1. Spends!Inductive
      BY Induct
    <3> QED BY ONLY <2>2, <3>1, h \in Hashes, Spends!FoldAppend
  <2> QED BY <1>1, <2>1, <2>2, <2>3
<1> QED BY <1>2, <1>3

-----------------------------------------------------------------------------
(* Walking back along the records                                          *)

\* Back counts the steps down.
LEMMA BackSteps ==
    ASSUME NEW db, DOMAIN db \subseteq Hashes, NEW h \in Hashes \cup {NoHash}
    PROVE  /\ Back(db, h, 0) = h
           /\ \A n \in Nat : /\ Back(db, h, n) \in Hashes \cup {NoHash}
                             /\ Back(db, h, n + 1) = RecordedParent(db, Back(db, h, n))
<1>1. PICK base : base = [db |-> db, hash |-> h]
  OBVIOUS
<1>2. ASSUME NEW n PROVE Back(db, h, n) = Backs!Fold(base, [i \in 1..n |-> i]).hash
  BY <1>1 DEF Back, Backs!Fold, Backs!At, Backs!Steps, Backs!Greatest,
         FoldLeft, MapThenFoldSet, Max
<1>3. Back(db, h, 0) = h
  <2>1. [i \in 1..0 |-> i] = <<>>
    OBVIOUS
  <2>2. Backs!Fold(base, <<>>) = base
    BY Backs!FoldEmpty, Induct
  <2>3. Back(db, h, 0) = Backs!Fold(base, [i \in 1..0 |-> i]).hash
    BY <1>2
  <2>4. Back(db, h, 0) = base.hash
    BY <2>1, <2>2, <2>3
  <2> QED BY <1>1, <2>4
<1> DEFINE R == [db : {db}, hash : Hashes \cup {NoHash}]
<1>4. ASSUME NEW n \in Nat PROVE Backs!Fold(base, [i \in 1..n |-> i]) \in R
  <2>1. PICK s : s = [i \in 1..n |-> i]
    OBVIOUS
  <2>2. s \in Seq(Nat) /\ Len(s) = n
    BY <2>1
  <2>3. PICK I : I = [k \in 0..n |-> R]
    OBVIOUS
  <2>4. base \in I[0]
    BY <1>1, <2>3
  <2>5. ASSUME NEW k \in 1..n, NEW a \in I[k - 1] PROVE StepBack(a, s[k]) \in I[k]
    <3>1. a \in R /\ I[k] = R
      <4>1. k - 1 \in 0..n /\ k \in 0..n
        OBVIOUS
      <4> QED BY <2>3, <4>1
    <3>2. RecordedParent(a.db, a.hash) \in Hashes \cup {NoHash}
      BY <3>1, BlocksAssumption DEF RecordedParent
    <3>3. StepBack(a, s[k]) \in R
      BY <3>1, <3>2 DEF StepBack
    <3> QED BY <3>1, <3>3
  <2>6. Backs!Fold(base, s) \in I[Len(s)]
    BY <2>2, <2>4, <2>5, Backs!FoldSteps, Induct
  <2> QED BY <2>1, <2>2, <2>3, <2>6
<1>5. ASSUME NEW n \in Nat
      PROVE  Back(db, h, n + 1) = RecordedParent(db, Back(db, h, n))
  <2>1. PICK s, t : s = [i \in 1..n |-> i] /\ t = [i \in 1..(n + 1) |-> i]
    OBVIOUS
  <2>2. s \in Seq(Nat) /\ n + 1 \in Nat /\ t = Append(s, n + 1)
    BY <2>1
  <2>3. PICK m : m = n + 1
    OBVIOUS
  <2>4. Backs!Fold(base, Append(s, m)) = StepBack(Backs!Fold(base, s), m)
    BY <2>2, <2>3, Backs!FoldAppend, Induct
  <2>5. PICK a : a = Backs!Fold(base, s)
    OBVIOUS
  <2>6. a \in R /\ a.hash = Back(db, h, n)
    BY <1>2, <1>4, <2>1, <2>5
  <2>7. Back(db, h, m) = StepBack(a, m).hash
    <3>1. Back(db, h, m) = Backs!Fold(base, [i \in 1..m |-> i]).hash
      BY <1>2
    <3>2. [i \in 1..m |-> i] = t
      BY <2>1, <2>3
    <3> QED BY <2>2, <2>3, <2>4, <2>5, <3>1, <3>2
  <2>8. StepBack(a, m).hash = RecordedParent(db, a.hash)
    BY <2>6 DEF StepBack
  <2> QED BY <2>3, <2>6, <2>7, <2>8
<1>6. ASSUME NEW n \in Nat PROVE Back(db, h, n) \in Hashes \cup {NoHash}
  BY <1>2, <1>4
<1> QED BY <1>3, <1>5, <1>6

-----------------------------------------------------------------------------
(* The coin database: its type                                             *)

\* Maps are finite: from coins to spent or not, from transactions to records.
Finite(S) == {T \in SUBSET S : IsFiniteSet(T)}
Caches == UNION {[D -> BOOLEAN] : D \in Finite(Coins)}
Records == UNION {[D -> CoinRecords] : D \in Finite(DOMAIN Inputs)}
CoinDBs == [mainCache : Caches, mainCacheSize : 0..(Word - 1), db : Records]

\* What the elements of these sets are.
LEMMA CacheIs ==
    ASSUME NEW f
    PROVE  f \in Caches <=> /\ f \in [DOMAIN f -> BOOLEAN]
                            /\ DOMAIN f \subseteq Coins /\ IsFiniteSet(DOMAIN f)
BY DEF Caches, Finite

\* So with the records of the database.
LEMMA RecordsAre ==
    ASSUME NEW f
    PROVE  f \in Records <=> /\ f \in [DOMAIN f -> CoinRecords]
                             /\ DOMAIN f \subseteq DOMAIN Inputs /\ IsFiniteSet(DOMAIN f)
BY DEF Records, Finite

\* The parts of a coin database.
LEMMA CoinDBIs ==
    ASSUME NEW c \in CoinDBs
    PROVE  /\ c.mainCache \in Caches /\ c.mainCacheSize \in 0..(Word - 1) /\ c.db \in Records
           /\ c = [mainCache |-> c.mainCache, mainCacheSize |-> c.mainCacheSize, db |-> c.db]
BY DEF CoinDBs

\* A coin database is made of its parts.
LEMMA CoinDBMade ==
    ASSUME NEW m \in Caches, NEW k \in 0..(Word - 1), NEW d \in Records
    PROVE  [mainCache |-> m, mainCacheSize |-> k, db |-> d] \in CoinDBs
BY DEF CoinDBs

\* An entry is added to a map or one is deleted.
LEMMA PutCache ==
    ASSUME NEW f \in Caches, NEW cl \in Coins, NEW v \in BOOLEAN
    PROVE  /\ PutInMap(f, cl, v) \in Caches
           /\ DOMAIN PutInMap(f, cl, v) = DOMAIN f \cup {cl}
           /\ PutInMap(f, cl, v)[cl] = v
           /\ \A x \in DOMAIN f : x # cl => PutInMap(f, cl, v)[x] = f[x]
<1>1. PICK g : g = PutInMap(f, cl, v)
  OBVIOUS
<1>2. /\ DOMAIN g = DOMAIN f \cup {cl} /\ g[cl] = v
      /\ \A x \in DOMAIN f : x # cl => g[x] = f[x]
  BY <1>1 DEF PutInMap
<1>3. g \in [DOMAIN f \cup {cl} -> BOOLEAN]
  BY <1>1, CacheIs DEF PutInMap
<1>4. IsFiniteSet(DOMAIN f \cup {cl}) /\ DOMAIN f \cup {cl} \subseteq Coins
  BY CacheIs, FS_AddElement
<1> QED BY <1>1, <1>2, <1>3, <1>4, CacheIs

\* So with the records.
LEMMA PutRecord ==
    ASSUME NEW f \in Records, NEW tx \in DOMAIN Inputs, NEW cr \in CoinRecords
    PROVE  /\ PutInMap(f, tx, cr) \in Records
           /\ DOMAIN PutInMap(f, tx, cr) = DOMAIN f \cup {tx}
           /\ PutInMap(f, tx, cr)[tx] = cr
           /\ \A x \in DOMAIN f : x # tx => PutInMap(f, tx, cr)[x] = f[x]
<1>1. PICK g : g = PutInMap(f, tx, cr)
  OBVIOUS
<1>2. /\ DOMAIN g = DOMAIN f \cup {tx} /\ g[tx] = cr
      /\ \A x \in DOMAIN f : x # tx => g[x] = f[x]
  BY <1>1 DEF PutInMap
<1>3. g \in [DOMAIN f \cup {tx} -> CoinRecords]
  BY <1>1, RecordsAre DEF PutInMap
<1>4. IsFiniteSet(DOMAIN f \cup {tx}) /\ DOMAIN f \cup {tx} \subseteq DOMAIN Inputs
  BY RecordsAre, FS_AddElement
<1> QED BY <1>1, <1>2, <1>3, <1>4, RecordsAre

\* What is left of a cache is a cache.
LEMMA RestrictCache ==
    ASSUME NEW f \in Caches, NEW S, S \subseteq DOMAIN f
    PROVE  /\ Restrict(f, S) \in Caches /\ DOMAIN Restrict(f, S) = S
           /\ \A x \in S : Restrict(f, S)[x] = f[x]
<1>1. Restrict(f, S) \in [S -> BOOLEAN] /\ \A x \in S : Restrict(f, S)[x] = f[x]
  BY CacheIs DEF Restrict
<1>2. IsFiniteSet(S) /\ S \subseteq Coins
  BY CacheIs, FS_Subset
<1> QED BY <1>1, <1>2, CacheIs

\* What is left of the records are records.
LEMMA DeleteRecord ==
    ASSUME NEW f \in Records, NEW tx
    PROVE  DeleteFromMap(f, tx) \in Records
<1>1. DeleteFromMap(f, tx) \in [DOMAIN f \ {tx} -> CoinRecords]
  BY RecordsAre DEF DeleteFromMap, Restrict
<1>2. IsFiniteSet(DOMAIN f \ {tx}) /\ DOMAIN f \ {tx} \subseteq DOMAIN Inputs
  BY RecordsAre, FS_Subset
<1> QED BY <1>1, <1>2, RecordsAre

-----------------------------------------------------------------------------
(* Records of coins                                                        *)

\* An output of a transaction, as its record lists it.
Entry == [index : Nat, coin : Coins]

\* No index is in a record twice.
Distinct(cr) == \A j, k \in DOMAIN cr : cr[j].index = cr[k].index => j = k

\* indexOf finds the index if it is there.
LEMMA IndexFound ==
    ASSUME NEW cr \in CoinRecords, NEW index
    PROVE  /\ indexOf(cr, index) \in 0..Len(cr)
           /\ indexOf(cr, index) > 0 => cr[indexOf(cr, index)].index = index
           /\ indexOf(cr, index) = 0 => \A k \in 1..Len(cr) : cr[k].index # index
<1>1. PICK n \in Nat : n = Len(cr)
  BY DEF CoinRecords
<1>2. PICK S : S = {k \in 1..n : cr[k].index = index}
  OBVIOUS
<1>3. indexOf(cr, index) = IF S # {} THEN Min(S) ELSE 0
  BY <1>1, <1>2 DEF indexOf, SelectInSeq
<1>4. CASE S = {}
  BY <1>1, <1>2, <1>3, <1>4
<1>5. CASE S # {}
  <2>1. S \in SUBSET Nat
    BY <1>2
  <2>2. \E m \in S : \A k \in S : m <= k
    BY <1>5, <2>1, LeastNumber
  <2>3. Min(S) \in S
    BY <2>2 DEF Min
  <2> QED BY <1>1, <1>2, <1>3, <1>5, <2>3
<1> QED BY <1>4, <1>5

\* One element is removed from a sequence.
LEMMA RemoveOne ==
    ASSUME NEW S, NEW s \in Seq(S), NEW i \in 1..Len(s)
    PROVE  /\ RemoveAt(s, i) \in Seq(S)
           /\ Len(RemoveAt(s, i)) = Len(s) - 1
           /\ \A k \in 1..(Len(s) - 1) : RemoveAt(s, i)[k] = IF k < i THEN s[k] ELSE s[k + 1]
<1>1. PICK n \in Nat : n = Len(s)
  OBVIOUS
<1>2. PICK a, b : a = SubSeq(s, 1, i - 1) /\ b = SubSeq(s, i + 1, n)
  OBVIOUS
<1>3. RemoveAt(s, i) = a \o b
  BY <1>1, <1>2 DEF RemoveAt
<1>4. a \in Seq(S) /\ Len(a) = i - 1 /\ \A k \in 1..(i - 1) : a[k] = s[k]
  BY <1>1, <1>2
<1>5. b \in Seq(S) /\ Len(b) = n - i /\ \A k \in 1..(n - i) : b[k] = s[k + i]
  <2>1. b \in Seq(S)
    BY <1>1, <1>2
  <2>2. Len(b) = n - i
    BY <1>1, <1>2
  <2>3. ASSUME NEW k \in 1..(n - i) PROVE b[k] = s[k + i]
    BY <1>1, <1>2
  <2> QED BY <2>1, <2>2, <2>3
<1>6. a \o b \in Seq(S) /\ Len(a \o b) = n - 1
  BY <1>1, <1>4, <1>5
<1>7. ASSUME NEW k \in 1..(n - 1)
      PROVE  (a \o b)[k] = IF k < i THEN s[k] ELSE s[k + 1]
  <2>1. CASE k < i
    BY <1>1, <1>4, <1>5, <2>1
  <2>2. CASE ~(k < i)
    <3>1. PICK m : m = k - (i - 1)
      OBVIOUS
    <3>2. m \in 1..(n - i) /\ m + i = k + 1
      BY <1>1, <2>2, <3>1
    <3>3. (a \o b)[k] = b[m]
      BY <1>1, <1>4, <1>5, <2>2, <3>1
    <3> QED BY <1>5, <2>2, <3>2, <3>3
  <2> QED BY <2>1, <2>2
<1> QED BY <1>1, <1>3, <1>6, <1>7

\* removeCoinFromRecord takes the index from a record and nothing else.
LEMMA RemoveCoin ==
    ASSUME NEW cr \in CoinRecords, NEW index
    PROVE  /\ removeCoinFromRecord(cr, index) \in CoinRecords
           /\ Distinct(cr) =>
                 /\ Distinct(removeCoinFromRecord(cr, index))
                 /\ ToSet(removeCoinFromRecord(cr, index))
                       = {e \in ToSet(cr) : e.index # index}
<1>1. PICK n \in Nat : n = Len(cr) /\ DOMAIN cr = 1..n
  BY DEF CoinRecords
<1>2. PICK i : i = indexOf(cr, index)
  OBVIOUS
<1>3. i \in 0..n /\ (i > 0 => cr[i].index = index)
      /\ (i = 0 => \A k \in 1..n : cr[k].index # index)
  BY <1>1, <1>2, IndexFound
<1>4. removeCoinFromRecord(cr, index) = IF i > 0 THEN RemoveAt(cr, i) ELSE cr
  <2>1. (\E k \in 1..Len(cr) : cr[k].index = index) <=> i > 0
    BY <1>1, <1>3
  <2> QED BY <1>2, <2>1 DEF removeCoinFromRecord, RemoveFirstMatch, indexOf
<1>5. CASE i = 0
  <2>1. removeCoinFromRecord(cr, index) = cr
    BY <1>4, <1>5
  <2>2. ToSet(cr) = {e \in ToSet(cr) : e.index # index}
    BY <1>1, <1>3, <1>5 DEF ToSet
  <2> QED BY <2>1, <2>2
<1>6. CASE i > 0
  <2>1. PICK r : r = RemoveAt(cr, i)
    OBVIOUS
  <2>2. /\ r \in CoinRecords /\ Len(r) = n - 1 /\ DOMAIN r = 1..(n - 1)
        /\ \A k \in 1..(n - 1) : r[k] = IF k < i THEN cr[k] ELSE cr[k + 1]
    <3>1. i \in 1..n
      BY <1>3, <1>6
    <3>2. /\ r \in CoinRecords /\ Len(r) = n - 1
          /\ \A k \in 1..(n - 1) : r[k] = IF k < i THEN cr[k] ELSE cr[k + 1]
      <4>1. cr \in Seq(Entry) /\ CoinRecords = Seq(Entry)
        BY DEF CoinRecords, Entry
      <4> QED BY <1>1, <2>1, <3>1, <4>1, RemoveOne
    <3> QED BY <3>2 DEF CoinRecords
  <2>3. ASSUME Distinct(cr) PROVE Distinct(r)
    <3>1. ASSUME NEW j \in 1..(n - 1), NEW k \in 1..(n - 1), r[j].index = r[k].index
          PROVE  j = k
      <4>1. PICK j1 \in 1..n : /\ r[j] = cr[j1]
                               /\ j1 = IF j < i THEN j ELSE j + 1
        BY <2>2
      <4>2. PICK k1 \in 1..n : /\ r[k] = cr[k1]
                               /\ k1 = IF k < i THEN k ELSE k + 1
        BY <2>2
      <4>3. j1 = k1
        BY <1>1, <2>3, <3>1, <4>1, <4>2 DEF Distinct
      <4> QED BY <1>3, <4>1, <4>2, <4>3
    <3> QED BY <2>2, <3>1 DEF Distinct
  <2>4. ASSUME Distinct(cr), NEW k \in 1..(n - 1)
        PROVE  \E m \in 1..n : r[k] = cr[m] /\ cr[m].index # index
    <3>1. PICK m \in 1..n : r[k] = cr[m] /\ m = IF k < i THEN k ELSE k + 1
      BY <2>2
    <3>2. m # i
      BY <1>3, <3>1
    <3>3. cr[m].index # cr[i].index
      BY <1>1, <1>3, <1>6, <2>4, <3>2 DEF Distinct
    <3> QED BY <1>3, <1>6, <3>1, <3>3
  <2>5. ASSUME NEW m \in 1..n, cr[m].index # index
        PROVE  \E k \in 1..(n - 1) : r[k] = cr[m]
    <3>1. m # i
      BY <1>3, <1>6, <2>5
    <3>2. CASE m < i
      <4>1. m \in 1..(n - 1)
        BY <1>3, <3>2
      <4> QED BY <2>2, <3>2, <4>1
    <3>3. CASE m > i
      <4>1. m - 1 \in 1..(n - 1) /\ (m - 1) + 1 = m /\ ~(m - 1 < i)
        BY <1>3, <1>6, <3>3
      <4>2. r[m - 1] = cr[(m - 1) + 1]
        BY <2>2, <4>1
      <4> QED BY <4>1, <4>2
    <3> QED BY <1>3, <3>1, <3>2, <3>3
  <2>6. ASSUME Distinct(cr) PROVE ToSet(r) = {e \in ToSet(cr) : e.index # index}
    <3>1. ToSet(r) = {r[k] : k \in 1..(n - 1)} /\ ToSet(cr) = {cr[k] : k \in 1..n}
      BY <1>1, <2>2 DEF ToSet
    <3> QED BY <2>4, <2>5, <2>6, <3>1
  <2> QED BY <1>4, <1>6, <2>1, <2>2, <2>3, <2>6
<1> QED BY <1>3, <1>5, <1>6

\* Several indices are removed.
LEMMA RemoveCoins ==
    ASSUME NEW cr \in CoinRecords, NEW S, IsFiniteSet(S)
    PROVE  /\ FoldSet(RemoveIndex, cr, S) \in CoinRecords
           /\ Distinct(cr) =>
                 /\ Distinct(FoldSet(RemoveIndex, cr, S))
                 /\ ToSet(FoldSet(RemoveIndex, cr, S)) = {e \in ToSet(cr) : e.index \notin S}
<1> DEFINE J(T) == {r \in CoinRecords : Distinct(cr) =>
                       Distinct(r) /\ ToSet(r) = {e \in ToSet(cr) : e.index \notin T}}
<1>1. PICK I : I = [T \in SUBSET S |-> J(T)]
  OBVIOUS
<1>2. cr \in I[{}]
  <2>1. cr \in J({})
    BY DEF ToSet
  <2> QED BY <1>1, <2>1
<1>3. ASSUME NEW T \in SUBSET S, NEW x \in S \ T, NEW a \in I[T]
      PROVE  RemoveIndex(x, a) \in I[T \cup {x}]
  <2>1. a \in J(T) /\ T \cup {x} \in SUBSET S
    BY <1>1
  <2>2. PICK r : r = removeCoinFromRecord(a, x)
    OBVIOUS
  <2>3. /\ r \in CoinRecords
        /\ Distinct(a) => Distinct(r) /\ ToSet(r) = {e \in ToSet(a) : e.index # x}
    BY <2>1, <2>2, RemoveCoin
  <2>4. ASSUME Distinct(cr)
        PROVE  Distinct(r) /\ ToSet(r) = {e \in ToSet(cr) : e.index \notin T \cup {x}}
    BY <2>1, <2>3, <2>4
  <2>5. r \in J(T \cup {x})
    BY <2>3, <2>4
  <2> HIDE DEF J
  <2> QED BY <1>1, <2>1, <2>2, <2>5 DEF RemoveIndex
<1>4. Removals!SetFold(cr, S) \in I[S]
  <2>1. Removals!AllSubsetsInduct(S)
    BY InductFinite
  <2> HIDE DEF J
  <2> QED BY ONLY <1>2, <1>3, <2>1, Removals!SetFoldSteps
<1>5. FoldSet(RemoveIndex, cr, S) = Removals!SetFold(cr, S)
  BY DEF Removals!SetFold, Removals!Elements, FoldSet, MapThenFoldSet
<1>6. Removals!SetFold(cr, S) \in J(S)
  BY <1>1, <1>4
<1> QED BY <1>5, <1>6

-----------------------------------------------------------------------------
(* Flushing the cache                                                      *)

\* The coins in the cache that are spent, and those that are not.
Spent(c) == {cl \in DOMAIN c.mainCache : c.mainCache[cl]}
Live(c) == {cl \in DOMAIN c.mainCache : ~c.mainCache[cl]}

\* Every record is of its own coins, which are all in the cache.
OwnRecords(c) ==
    \A tx \in DOMAIN Inputs :
       /\ Distinct(RecordOf(c, tx))
       /\ \A e \in ToSet(RecordOf(c, tx)) :
             e.coin = <<tx, e.index>> /\ e.coin \in DOMAIN c.mainCache

\* The record of tx that FlushMainCache writes.
Trimmed(c, tx) ==
    FoldSet(RemoveIndex, RecordOf(c, tx), {cl[2] : cl \in {x \in Spent(c) : x[1] = tx}})

\* RecordOf returns a record, an empty one if there is none.
LEMMA RecordOfType ==
    ASSUME NEW c \in CoinDBs, NEW tx
    PROVE  RecordOf(c, tx) \in CoinRecords
<1>1. <<>> \in CoinRecords
  BY DEF CoinRecords
<1>2. tx \in DOMAIN c.db => c.db[tx] \in CoinRecords
  BY CoinDBIs, RecordsAre
<1> QED BY <1>1, <1>2 DEF RecordOf

\* It has the entries of the old record that are not spent.
LEMMA TrimmedIs ==
    ASSUME NEW c \in CoinDBs, NEW tx
    PROVE  /\ Trimmed(c, tx) \in CoinRecords
           /\ Distinct(RecordOf(c, tx)) =>
                 /\ Distinct(Trimmed(c, tx))
                 /\ ToSet(Trimmed(c, tx))
                       = {e \in ToSet(RecordOf(c, tx)) : <<tx, e.index>> \notin Spent(c)}
<1>1. PICK S : S = {cl[2] : cl \in {x \in Spent(c) : x[1] = tx}}
  OBVIOUS
<1>2. IsFiniteSet(Spent(c)) /\ Spent(c) \subseteq Coins
  BY CoinDBIs, CacheIs, FS_Subset DEF Spent
<1>3. IsFiniteSet(S)
  <2>1. PICK W : W = {x \in Spent(c) : x[1] = tx}
    OBVIOUS
  <2>2. IsFiniteSet(W)
    BY <1>2, <2>1, FS_Subset
  <2>3. PICK f : f = [cl \in W |-> cl[2]]
    OBVIOUS
  <2>4. IsFiniteSet({f[x] : x \in W})
    BY <2>2, FiniteImage
  <2>5. {f[x] : x \in W} = S
    BY <1>1, <2>1, <2>3
  <2> QED BY <2>4, <2>5
<1>4. \A i : i \in S <=> <<tx, i>> \in Spent(c)
  <2>1. \A cl \in Spent(c) : cl = <<cl[1], cl[2]>>
    BY <1>2, CoinsAre
  <2>2. ASSUME NEW i \in S PROVE <<tx, i>> \in Spent(c)
    BY <1>1, <2>1
  <2>3. ASSUME NEW i, <<tx, i>> \in Spent(c) PROVE i \in S
    <3>1. PICK cl : cl = <<tx, i>>
      OBVIOUS
    <3>2. cl \in Spent(c) /\ cl[1] = tx /\ cl[2] = i
      BY <2>3, <3>1
    <3> QED BY <1>1, <3>2
  <2> QED BY <2>2, <2>3
<1>5. PICK cr, r : cr = RecordOf(c, tx) /\ r = FoldSet(RemoveIndex, cr, S)
  OBVIOUS
<1>6. cr \in CoinRecords
  BY <1>5, RecordOfType
<1>7. /\ r \in CoinRecords
      /\ Distinct(cr) => Distinct(r) /\ ToSet(r) = {e \in ToSet(cr) : e.index \notin S}
  BY <1>3, <1>5, <1>6, RemoveCoins
<1>8. r = Trimmed(c, tx)
  BY <1>1, <1>5 DEF Trimmed
<1>9. {e \in ToSet(cr) : e.index \notin S} = {e \in ToSet(cr) : <<tx, e.index>> \notin Spent(c)}
  BY <1>4
<1> QED BY <1>5, <1>7, <1>8, <1>9

\* What FlushMainCache leaves in cache and records.
LEMMA FlushIs ==
    ASSUME NEW c \in CoinDBs
    PROVE  /\ FlushMainCache(c) \in CoinDBs
           /\ DOMAIN FlushMainCache(c).mainCache = Live(c)
           /\ Live(FlushMainCache(c)) = Live(c)
           /\ \A tx : RecordOf(FlushMainCache(c), tx)
                         = IF tx \in {cl[1] : cl \in Spent(c)} THEN Trimmed(c, tx)
                           ELSE RecordOf(c, tx)
<1>1. PICK updated : updated = {cl[1] : cl \in Spent(c)}
  OBVIOUS
<1>2. PICK emptied : emptied = {tx \in updated : Trimmed(c, tx) = <<>>}
  OBVIOUS
<1>3. PICK D : D = (DOMAIN c.db \cup updated) \ emptied
  OBVIOUS
<1>4. PICK d : d = [tx \in D |-> IF tx \in updated THEN Trimmed(c, tx) ELSE c.db[tx]]
  OBVIOUS
<1>5. PICK m : m = Restrict(c.mainCache, DOMAIN c.mainCache \ Spent(c))
  OBVIOUS
<1>6. FlushMainCache(c) = [mainCache |-> m, mainCacheSize |-> 0, db |-> d]
  BY <1>1, <1>2, <1>3, <1>4, <1>5 DEF FlushMainCache, Spent, Trimmed
<1>7. DOMAIN c.mainCache \ Spent(c) = Live(c)
  BY CoinDBIs, CacheIs DEF Spent, Live
<1>8. m \in Caches /\ DOMAIN m = Live(c) /\ \A cl \in Live(c) : m[cl] = c.mainCache[cl]
  <2>1. Live(c) \subseteq DOMAIN c.mainCache
    BY DEF Live
  <2> QED BY <1>5, <1>7, <2>1, CoinDBIs, RestrictCache
<1>9. IsFiniteSet(updated) /\ updated \subseteq DOMAIN Inputs
  <2>1. IsFiniteSet(Spent(c)) /\ Spent(c) \subseteq Coins
    BY CoinDBIs, CacheIs, FS_Subset DEF Spent
  <2>2. PICK S : S = Spent(c)
    OBVIOUS
  <2>3. PICK f : f = [cl \in S |-> cl[1]]
    OBVIOUS
  <2>4. IsFiniteSet({f[x] : x \in S})
    BY <2>1, <2>2, FiniteImage
  <2>5. {f[x] : x \in S} = updated
    BY <1>1, <2>2, <2>3
  <2>6. \A cl \in S : cl[1] \in DOMAIN Inputs
    BY <2>1, <2>2, CoinsAre
  <2> QED BY <1>1, <2>2, <2>4, <2>5, <2>6
<1>10. d \in Records
  <2>1. c.db \in Records
    BY CoinDBIs
  <2>2. \A tx \in D : d[tx] \in CoinRecords
    BY <1>3, <1>4, <2>1, TrimmedIs, RecordsAre
  <2>3. IsFiniteSet(D) /\ D \subseteq DOMAIN Inputs
    <3>1. IsFiniteSet(DOMAIN c.db \cup updated)
      BY <1>9, <2>1, RecordsAre, FS_Union
    <3>2. IsFiniteSet(D)
      BY <1>3, <3>1, FS_Subset
    <3> QED BY <1>3, <1>9, <2>1, <3>2, RecordsAre
  <2> QED BY <1>4, <2>2, <2>3, RecordsAre
<1>11. FlushMainCache(c) \in CoinDBs
  <2>1. 0 \in 0..(Word - 1)
    BY CapacityAssumption
  <2> QED BY <1>6, <1>8, <1>10, <2>1, CoinDBMade
<1>12. Live(FlushMainCache(c)) = Live(c) /\ DOMAIN FlushMainCache(c).mainCache = Live(c)
  BY <1>6, <1>8 DEF Live
<1>13. ASSUME NEW tx
       PROVE  RecordOf(FlushMainCache(c), tx) = IF tx \in updated THEN Trimmed(c, tx)
                                                ELSE RecordOf(c, tx)
  <2>1. RecordOf(FlushMainCache(c), tx) = IF tx \in D THEN d[tx] ELSE <<>>
    BY <1>4, <1>6 DEF RecordOf
  <2> QED BY <1>2, <1>3, <1>4, <2>1 DEF RecordOf
<1> QED BY <1>1, <1>11, <1>12, <1>13

\* A flush takes the spent coins from the records, and no others.
LEMMA FlushKeeps ==
    ASSUME NEW c \in CoinDBs, OwnRecords(c)
    PROVE  /\ OwnRecords(FlushMainCache(c))
           /\ \A tx \in DOMAIN Inputs :
                 ToSet(RecordOf(FlushMainCache(c), tx))
                    = {e \in ToSet(RecordOf(c, tx)) : <<tx, e.index>> \notin Spent(c)}
<1>1. PICK r : r = FlushMainCache(c)
  OBVIOUS
<1>2. ASSUME NEW tx \in DOMAIN Inputs
      PROVE  /\ Distinct(RecordOf(r, tx))
             /\ ToSet(RecordOf(r, tx))
                   = {e \in ToSet(RecordOf(c, tx)) : <<tx, e.index>> \notin Spent(c)}
  <2>1. CASE tx \in {cl[1] : cl \in Spent(c)}
    <3>1. RecordOf(r, tx) = Trimmed(c, tx)
      BY <1>1, <2>1, FlushIs
    <3> QED BY <3>1, TrimmedIs DEF OwnRecords
  <2>2. CASE tx \notin {cl[1] : cl \in Spent(c)}
    <3>1. RecordOf(r, tx) = RecordOf(c, tx)
      BY <1>1, <2>2, FlushIs
    <3>2. \A i : <<tx, i>> \notin Spent(c)
      BY <2>2
    <3> QED BY <3>1, <3>2 DEF OwnRecords
  <2> QED BY <2>1, <2>2
<1>3. ASSUME NEW tx \in DOMAIN Inputs, NEW e \in ToSet(RecordOf(r, tx))
      PROVE  e.coin = <<tx, e.index>> /\ e.coin \in DOMAIN r.mainCache
  <2>1. e \in ToSet(RecordOf(c, tx)) /\ <<tx, e.index>> \notin Spent(c)
    BY <1>2, <1>3
  <2>2. e.coin = <<tx, e.index>> /\ e.coin \in DOMAIN c.mainCache
    BY <2>1 DEF OwnRecords
  <2>3. e.coin \in Live(c)
    BY <2>1, <2>2, CoinDBIs, CacheIs DEF Live, Spent
  <2> QED BY <1>1, <2>2, <2>3, FlushIs
<1> QED BY <1>1, <1>2, <1>3 DEF OwnRecords

-----------------------------------------------------------------------------
(* Every operation keeps the type                                          *)

\* Only the record of one transaction changes.
LEMMA PutDBType ==
    ASSUME NEW c \in CoinDBs, NEW tx \in DOMAIN Inputs, NEW cr \in CoinRecords
    PROVE  putRecordInDB(c, tx, cr) \in CoinDBs
<1>1. putRecordInDB(c, tx, cr) = [mainCache |-> c.mainCache, mainCacheSize |-> c.mainCacheSize,
                                  db |-> PutInMap(c.db, tx, cr)]
  BY CoinDBIs DEF putRecordInDB
<1>2. PutInMap(c.db, tx, cr) \in Records
  BY CoinDBIs, PutRecord
<1> QED BY <1>1, <1>2, CoinDBIs, CoinDBMade

\* Only the mark of one coin changes.
LEMMA MarkType ==
    ASSUME NEW c \in CoinDBs, NEW cl, cl \in DOMAIN c.mainCache, NEW v \in BOOLEAN
    PROVE  [c EXCEPT !.mainCache[cl] = v] \in CoinDBs
<1>1. PICK m : m = [c.mainCache EXCEPT ![cl] = v]
  OBVIOUS
<1>2. m \in Caches
  <2>1. c.mainCache \in Caches
    BY CoinDBIs
  <2>2. m \in [DOMAIN c.mainCache -> BOOLEAN]
    BY <1>1, <2>1, CacheIs
  <2> QED BY <2>1, <2>2, CacheIs
<1>3. [c EXCEPT !.mainCache[cl] = v]
        = [mainCache |-> m, mainCacheSize |-> c.mainCacheSize, db |-> c.db]
  BY <1>1, CoinDBIs
<1> QED BY <1>2, <1>3, CoinDBIs, CoinDBMade

\* Spending a coin keeps the types, in the cache or in the records.
LEMMA SpendCoinType ==
    ASSUME NEW c \in CoinDBs, NEW tx \in DOMAIN Inputs, NEW cl
    PROVE  SpendCoin(c, tx, cl) \in CoinDBs
<1>1. CASE cl \in DOMAIN c.mainCache
  BY <1>1, MarkType DEF SpendCoin
<1>2. CASE cl \notin DOMAIN c.mainCache
  <2>1. SpendCoin(c, tx, cl) = removeCoinFromDB(c, tx, cl)
    BY <1>2 DEF SpendCoin
  <2>2. CASE tx \notin DOMAIN c.db
    BY <2>1, <2>2 DEF removeCoinFromDB
  <2>3. CASE tx \in DOMAIN c.db /\ Len(c.db[tx]) <= 1
    <3>1. SpendCoin(c, tx, cl) = [mainCache |-> c.mainCache, mainCacheSize |-> c.mainCacheSize,
                                  db |-> DeleteFromMap(c.db, tx)]
      BY <2>1, <2>3, CoinDBIs DEF removeCoinFromDB, Without
    <3> QED BY <3>1, CoinDBIs, CoinDBMade, DeleteRecord
  <2>4. CASE tx \in DOMAIN c.db /\ ~(Len(c.db[tx]) <= 1)
    <3>1. c.db[tx] \in CoinRecords
      BY <2>4, CoinDBIs, RecordsAre
    <3>2. removeCoinFromRecord(c.db[tx], cl[2]) \in CoinRecords
      BY <3>1, RemoveCoin
    <3> QED BY <2>1, <2>4, <3>2, PutDBType DEF removeCoinFromDB
  <2> QED BY <2>2, <2>3, <2>4
<1> QED BY <1>1, <1>2

\* So does spending all inputs of a transaction.
LEMMA SpendInputsType ==
    ASSUME NEW c \in CoinDBs, NEW tx \in DOMAIN Inputs
    PROVE  SpendInputs(c, tx) \in CoinDBs
<1>1. PICK A, C, base : /\ A = [coinDB : CoinDBs, tx : {tx}] /\ C = (DOMAIN Inputs) \X Nat
                        /\ base = [coinDB |-> c, tx |-> tx]
  OBVIOUS
<1>2. base \in A /\ Inputs[tx] \in Seq(C)
  BY <1>1, BlocksAssumption
<1>3. ASSUME NEW a \in A, NEW cl \in C PROVE SpendInput(a, cl) \in A
  <2>1. a.coinDB \in CoinDBs /\ a.tx = tx /\ a = [coinDB |-> a.coinDB, tx |-> tx]
    BY <1>1
  <2>2. SpendInput(a, cl) = [coinDB |-> SpendCoin(a.coinDB, tx, cl), tx |-> tx]
    BY <2>1 DEF SpendInput
  <2>3. SpendCoin(a.coinDB, tx, cl) \in CoinDBs
    BY <2>1, SpendCoinType
  <2> QED BY <1>1, <2>2, <2>3
<1>4. Marks!Fold(base, Inputs[tx]) \in A
  <2>1. PICK s : s = Inputs[tx]
    OBVIOUS
  <2>2. Marks!Fold(base, s) \in A
    BY <1>2, <1>3, <2>1, Marks!FoldKeeps, Induct
  <2> QED BY <2>1, <2>2
<1>5. SpendInputs(c, tx) = Marks!Fold(base, Inputs[tx]).coinDB
  BY <1>1 DEF SpendInputs, Marks!Fold, Marks!At, Marks!Steps, Marks!Greatest,
              FoldLeft, MapThenFoldSet, Max
<1> QED BY <1>1, <1>4, <1>5

\* So does updateSpentCoins, for all transactions of a block.
LEMMA UpdateSpentType ==
    ASSUME NEW c \in CoinDBs, NEW txs \in Seq(DOMAIN Inputs)
    PROVE  updateSpentCoins(c, txs) \in CoinDBs
<1>1. PICK T : T = DOMAIN Inputs
  OBVIOUS
<1>2. \A a \in CoinDBs : \A tx \in T : SpendInputs(a, tx) \in CoinDBs
  BY <1>1, SpendInputsType
<1>3. BlockMarks!Fold(c, txs) \in CoinDBs
  BY <1>1, <1>2, BlockMarks!FoldKeeps, Induct
<1>4. updateSpentCoins(c, txs) = BlockMarks!Fold(c, txs)
  BY DEF updateSpentCoins, BlockMarks!Fold, BlockMarks!At, BlockMarks!Steps,
         BlockMarks!Greatest, FoldLeft, MapThenFoldSet, Max
<1> QED BY <1>3, <1>4

\* The range of a word.
LEMMA WordRange ==
    ASSUME NEW w \in Nat \ {0}, NEW a \in Int
    PROVE  a % w \in 0..(w - 1)
<1>1. PICK r : r = a % w
  OBVIOUS
<1>2. r \in Int /\ 0 <= r /\ r < w
  BY <1>1, WordOf
<1> QED BY <1>1, <1>2

\* StoreCoin puts a coin into the cache, flushed or not.
LEMMA StoreCoinIs ==
    ASSUME NEW c \in CoinDBs, NEW cl \in Coins
    PROVE  \E b \in {c, FlushMainCache(c)} :
              /\ StoreCoin(c, cl) \in CoinDBs
              /\ StoreCoin(c, cl).mainCache = PutInMap(b.mainCache, cl, FALSE)
              /\ StoreCoin(c, cl).db = b.db
<1>1. PICK b \in {c, FlushMainCache(c)} :
         b = IF (c.mainCacheSize + Outputs[cl[1]]) % Word >= MainCacheCapacity
             THEN FlushMainCache(c) ELSE c
  OBVIOUS
<1>2. b \in CoinDBs
  BY FlushIs
<1>3. StoreCoin(c, cl) = [mainCache |-> PutInMap(b.mainCache, cl, FALSE),
                          mainCacheSize |-> (b.mainCacheSize + 1) % Word, db |-> b.db]
  <2>1. StoreCoin(c, cl) = [b EXCEPT !.mainCache = PutInMap(@, cl, FALSE),
                                     !.mainCacheSize = (@ + 1) % Word]
    BY <1>1 DEF StoreCoin
  <2>2. PICK m, k, d : b = [mainCache |-> m, mainCacheSize |-> k, db |-> d]
    BY <1>2, CoinDBIs
  <2> QED BY <2>1, <2>2
<1>4. (b.mainCacheSize + 1) % Word \in 0..(Word - 1)
  <2>1. PICK k \in Int, w \in Nat \ {0} : k = b.mainCacheSize + 1 /\ w = Word
    BY <1>2, CoinDBIs, CapacityAssumption
  <2> QED BY <2>1, WordRange
<1>5. PutInMap(b.mainCache, cl, FALSE) \in Caches
  BY <1>2, CoinDBIs, PutCache
<1>6. StoreCoin(c, cl) \in CoinDBs
  BY <1>2, <1>3, <1>4, <1>5, CoinDBIs, CoinDBMade
<1>7. StoreCoin(c, cl).mainCache = PutInMap(b.mainCache, cl, FALSE) /\ StoreCoin(c, cl).db = b.db
  BY <1>3
<1> QED BY <1>2, <1>6, <1>7

\* storeTransactionsInMainCache keeps the types.
LEMMA StoreInCacheType ==
    ASSUME NEW c \in CoinDBs, NEW outs \in Seq(Coins)
    PROVE  CoinStores!Fold(c, outs) \in CoinDBs
<1>1. \A a \in CoinDBs : \A cl \in Coins : StoreCoin(a, cl) \in CoinDBs
  BY StoreCoinIs
<1> QED BY <1>1, CoinStores!FoldKeeps, Induct

\* The record of a new transaction lists its outputs.
LEMMA NewRecord ==
    ASSUME NEW tx \in DOMAIN Inputs
    PROVE  /\ createCoinRecord(tx) \in CoinRecords
           /\ Distinct(createCoinRecord(tx))
           /\ \A e : e \in ToSet(createCoinRecord(tx)) <=>
                 \E i \in 0..(Outputs[tx] - 1) : e = [index |-> i, coin |-> <<tx, i>>]
<1>1. PICK n \in Nat : n = Outputs[tx]
  BY BlocksAssumption
<1>2. PICK r : r = createCoinRecord(tx)
  OBVIOUS
<1>3. DOMAIN r = 1..n /\ \A i \in 1..n : r[i] = [index |-> i - 1, coin |-> <<tx, i - 1>>]
  BY <1>1, <1>2 DEF createCoinRecord
<1>4. \A i \in 1..n : r[i] \in Entry
  <2> SUFFICES ASSUME NEW i \in 1..n PROVE r[i] \in Entry
    OBVIOUS
  <2>1. PICK j \in Nat : j = i - 1 /\ j \in 0..(n - 1)
    OBVIOUS
  <2>2. <<tx, j>> \in Coins
    BY <1>1, <2>1, CoinsAre
  <2> QED BY <1>3, <2>1, <2>2 DEF Entry
<1>5. r \in Seq(Entry)
  <2>1. r \in [1..n -> Entry]
    BY <1>1, <1>2, <1>3, <1>4 DEF createCoinRecord
  <2> QED BY <2>1
<1>6. Distinct(r)
  BY <1>3 DEF Distinct
<1>7. ASSUME NEW e
      PROVE  e \in ToSet(r) <=> \E i \in 0..(n - 1) : e = [index |-> i, coin |-> <<tx, i>>]
  <2>1. ASSUME NEW k \in 1..n, e = r[k]
        PROVE  \E i \in 0..(n - 1) : e = [index |-> i, coin |-> <<tx, i>>]
    <3>1. k - 1 \in 0..(n - 1)
      OBVIOUS
    <3> QED BY <1>3, <2>1, <3>1
  <2>2. ASSUME NEW i \in 0..(n - 1), e = [index |-> i, coin |-> <<tx, i>>]
        PROVE  \E k \in 1..n : e = r[k]
    <3>1. i + 1 \in 1..n /\ (i + 1) - 1 = i
      OBVIOUS
    <3> QED BY <1>3, <2>2, <3>1
  <2>3. ToSet(r) = {r[k] : k \in 1..n}
    BY <1>3 DEF ToSet
  <2> QED BY <2>1, <2>2, <2>3
<1> QED BY <1>1, <1>2, <1>5, <1>6, <1>7 DEF CoinRecords, Entry

\* So does storeTransactionsInDB.
LEMMA StoreInDBType ==
    ASSUME NEW c \in CoinDBs, NEW txs \in Seq(DOMAIN Inputs)
    PROVE  RecordStores!Fold(c, txs) \in CoinDBs
<1>1. PICK T : T = DOMAIN Inputs
  OBVIOUS
<1>2. \A a \in CoinDBs : \A tx \in T : StoreInDB(a, tx) \in CoinDBs
  BY <1>1, NewRecord, PutDBType DEF StoreInDB
<1> QED BY <1>1, <1>2, RecordStores!FoldKeeps, Induct

\* The folds of StoreBlock.
LEMMA StoreBlockIs ==
    ASSUME NEW c, NEW txs
    PROVE  StoreBlock(c, txs)
              = RecordStores!Fold(CoinStores!Fold(updateSpentCoins(c, txs), OutputsOf(txs)), txs)
<1>1. ASSUME NEW a PROVE storeTransactionsInMainCache(a, txs) = CoinStores!Fold(a, OutputsOf(txs))
  BY DEF storeTransactionsInMainCache, CoinStores!Fold, CoinStores!At, CoinStores!Steps,
         CoinStores!Greatest, FoldLeft, MapThenFoldSet, Max
<1>2. ASSUME NEW a PROVE storeTransactionsInDB(a, txs) = RecordStores!Fold(a, txs)
  BY DEF storeTransactionsInDB, RecordStores!Fold, RecordStores!At, RecordStores!Steps,
         RecordStores!Greatest, FoldLeft, MapThenFoldSet, Max
<1> QED BY <1>1, <1>2 DEF StoreBlock

\* So does StoreBlock as a whole.
LEMMA StoreBlockType ==
    ASSUME NEW c \in CoinDBs, NEW txs \in Seq(DOMAIN Inputs)
    PROVE  StoreBlock(c, txs) \in CoinDBs
BY StoreBlockIs, UpdateSpentType, OutputsAre, StoreInCacheType, StoreInDBType

\* Undoing: the coins a transaction created go.
LEMMA EraseType ==
    ASSUME NEW c \in CoinDBs, NEW tx \in DOMAIN Inputs
    PROVE  EraseTransaction(c, tx) \in CoinDBs
<1>1. PICK m, k, d : /\ m = Restrict(c.mainCache, DOMAIN c.mainCache \ ToSet(TransactionOutputs(tx)))
                     /\ k = (c.mainCacheSize - Outputs[tx]) % Word
                     /\ d = DeleteFromMap(c.db, tx)
  OBVIOUS
<1>2. m \in Caches
  <2>1. PICK S : S = DOMAIN c.mainCache \ ToSet(TransactionOutputs(tx))
    OBVIOUS
  <2>2. S \subseteq DOMAIN c.mainCache
    BY <2>1
  <2> QED BY <1>1, <2>1, <2>2, CoinDBIs, RestrictCache
<1>3. k \in 0..(Word - 1)
  <2>1. PICK a \in Int, w \in Nat \ {0} : a = c.mainCacheSize - Outputs[tx] /\ w = Word
    BY CoinDBIs, CapacityAssumption, BlocksAssumption
  <2> QED BY <1>1, <2>1, WordRange
<1>4. d \in Records
  BY <1>1, CoinDBIs, DeleteRecord
<1>5. EraseTransaction(c, tx) = [mainCache |-> m, mainCacheSize |-> k, db |-> d]
  BY <1>1 DEF EraseTransaction
<1> QED BY <1>2, <1>3, <1>4, <1>5, CoinDBMade

\* Undoing: the coin of an entry of the undo block is back.
LEMMA RestoreType ==
    ASSUME NEW c \in CoinDBs, NEW ub \in UndoBlocks, NEW j \in DOMAIN ub
    PROVE  RestoreCoin(c, ub, j) \in CoinDBs
<1>1. PICK cl : cl = <<ub[j].hash, ub[j].index>>
  OBVIOUS
<1>2. PICK b : b = IF cl \in DOMAIN c.mainCache THEN [c EXCEPT !.mainCache[cl] = FALSE] ELSE c
  OBVIOUS
<1>3. b \in CoinDBs
  BY <1>2, MarkType
<1>4. \A k \in DOMAIN ub : ub[k].hash \in DOMAIN Inputs /\ ub[k].index \in Nat /\ ub[k].coin \in Coins
  <2>1. PICK R : R = [hash : DOMAIN Inputs, index : Nat, coin : Coins]
    OBVIOUS
  <2>2. ub \in Seq(R)
    BY <2>1 DEF UndoBlocks
  <2>3. \A k \in DOMAIN ub : ub[k] \in R
    BY <2>2
  <2> QED BY <2>1, <2>3
<1>5. PICK n \in Nat : DOMAIN ub = 1..n
  BY DEF UndoBlocks
<1>6. addCoinToRecord(c, ub, j) \in CoinRecords
  <2>1. \A k \in DOMAIN ub : [index |-> ub[k].index, coin |-> ub[k].coin] \in Entry
    BY <1>4 DEF Entry
  <2>2. CASE ub[j].hash \in DOMAIN c.db
    <3>1. c.db[ub[j].hash] \in Seq(Entry)
      BY <2>2, CoinDBIs, RecordsAre DEF CoinRecords, Entry
    <3>2. Append(c.db[ub[j].hash], [index |-> ub[j].index, coin |-> ub[j].coin]) \in Seq(Entry)
      BY <2>1, <3>1
    <3> QED BY <2>2, <3>2 DEF addCoinToRecord, CoinRecords, Entry
  <2>3. CASE ub[j].hash \notin DOMAIN c.db
    <3>1. PICK r : r = [k \in 1..n |-> [index |-> ub[k].index, coin |-> ub[k].coin]]
      OBVIOUS
    <3>2. r \in [1..n -> Entry]
      BY <1>5, <2>1, <3>1
    <3>3. r \in Seq(Entry)
      BY <3>2
    <3> QED BY <1>5, <2>3, <3>1, <3>3 DEF addCoinToRecord, CoinRecords, Entry
  <2> QED BY <2>2, <2>3
<1>7. RestoreCoin(c, ub, j) = putRecordInDB(b, ub[j].hash, addCoinToRecord(c, ub, j))
  BY <1>1, <1>2 DEF RestoreCoin
<1> QED BY <1>3, <1>4, <1>6, <1>7, PutDBType

\* So are all coins of an undo block.
LEMMA RestoreCoinsType ==
    ASSUME NEW c \in CoinDBs, NEW ub \in UndoBlocks
    PROVE  RestoreCoins(c, ub) \in CoinDBs
<1>1. PICK n \in Nat : DOMAIN ub = 1..n
  BY DEF UndoBlocks
<1>2. PICK A, base, s, D : /\ A = [coinDB : CoinDBs, undo : {ub}] /\ s = [k \in 1..n |-> k]
                           /\ base = [coinDB |-> c, undo |-> ub] /\ D = 1..n
  OBVIOUS
<1>3. base \in A /\ s \in Seq(D)
  BY <1>2
<1>4. ASSUME NEW a \in A, NEW j \in D PROVE RestoreEntry(a, j) \in A
  <2>1. a.coinDB \in CoinDBs /\ a.undo = ub /\ a = [coinDB |-> a.coinDB, undo |-> ub]
    BY <1>2
  <2>2. RestoreEntry(a, j) = [coinDB |-> RestoreCoin(a.coinDB, ub, j), undo |-> ub]
    BY <2>1 DEF RestoreEntry
  <2>3. RestoreCoin(a.coinDB, ub, j) \in CoinDBs
    BY <1>1, <1>2, <2>1, RestoreType
  <2> QED BY <1>2, <2>2, <2>3
<1>5. Restores!Fold(base, s) \in A
  BY <1>3, <1>4, Restores!FoldKeeps, Induct
<1>6. RestoreCoins(c, ub) = Restores!Fold(base, s).coinDB
  BY <1>1, <1>2 DEF RestoreCoins, FoldLeftDomain, Restores!Fold, Restores!At, Restores!Steps,
                    Restores!Greatest, FoldLeft, MapThenFoldSet, Max
<1> QED BY <1>2, <1>5, <1>6

\* One block is undone.
LEMMA UndoPairType ==
    ASSUME NEW c \in CoinDBs, NEW h \in Hashes, NEW ub \in UndoBlocks
    PROVE  UndoPair(c, [block |-> h, undo |-> ub]) \in CoinDBs
<1>1. PICK T, txs : T = DOMAIN Inputs /\ txs = Transactions[h]
  OBVIOUS
<1>2. txs \in Seq(T)
  BY <1>1, BlocksAssumption
<1>3. Erasures!Fold(c, txs) \in CoinDBs
  <2>1. \A a \in CoinDBs : \A tx \in T : EraseTransaction(a, tx) \in CoinDBs
    BY <1>1, EraseType
  <2> QED BY <1>2, <2>1, Erasures!FoldKeeps, Induct
<1>4. UndoPair(c, [block |-> h, undo |-> ub]) = RestoreCoins(Erasures!Fold(c, txs), ub)
  BY <1>1 DEF UndoPair, Erasures!Fold, Erasures!At, Erasures!Steps, Erasures!Greatest,
              FoldLeft, MapThenFoldSet, Max
<1> QED BY <1>3, <1>4, RestoreCoinsType

\* UndoCoins keeps the types.
LEMMA UndoType ==
    ASSUME NEW c \in CoinDBs, NEW n \in Nat, NEW blocks \in [1..n -> Hashes],
           NEW undo \in [1..n -> UndoBlocks]
    PROVE  UndoCoins(c, blocks, undo) \in CoinDBs
<1>1. PICK R : R = [block : Hashes, undo : UndoBlocks]
  OBVIOUS
<1>2. PICK s : s = [i \in 1..n |-> [block |-> blocks[i], undo |-> undo[i]]]
  OBVIOUS
<1>3. s \in Seq(R)
  <2>1. s \in [1..n -> R]
    BY <1>1, <1>2
  <2> QED BY <2>1
<1>4. ASSUME NEW a \in CoinDBs, NEW p \in R PROVE UndoPair(a, p) \in CoinDBs
  <2>1. p.block \in Hashes /\ p.undo \in UndoBlocks /\ p = [block |-> p.block, undo |-> p.undo]
    BY <1>1
  <2> QED BY <2>1, UndoPairType
<1>5. Undos!Fold(c, s) \in CoinDBs
  BY <1>3, <1>4, Undos!FoldKeeps, Induct
<1>6. UndoCoins(c, blocks, undo) = Undos!Fold(c, s)
  <2>1. DOMAIN blocks = 1..n
    OBVIOUS
  <2> QED BY <1>2, <2>1 DEF UndoCoins, Undos!Fold, Undos!At, Undos!Steps, Undos!Greatest,
              FoldLeft, MapThenFoldSet, Max
<1> QED BY <1>5, <1>6

\* The blocks a fork stores again.
LEMMA StoreAgainType ==
    ASSUME NEW c \in CoinDBs, NEW blocks \in Seq(Hashes)
    PROVE  FoldLeft(StoreAgain, c, blocks) \in CoinDBs
<1>1. \A a \in CoinDBs : \A h \in Hashes : StoreAgain(a, h) \in CoinDBs
  BY StoreBlockType, BlocksAssumption DEF StoreAgain
<1>2. BlockStores!Fold(c, blocks) \in CoinDBs
  BY <1>1, BlockStores!FoldKeeps, Induct
<1>3. FoldLeft(StoreAgain, c, blocks) = BlockStores!Fold(c, blocks)
  BY DEF BlockStores!Fold, BlockStores!At, BlockStores!Steps, BlockStores!Greatest,
         FoldLeft, MapThenFoldSet, Max
<1> QED BY <1>2, <1>3

-----------------------------------------------------------------------------
(* Type correctness                                                        *)

\* What is recorded of a block.
BlockRecords == [Height : Nat \ {0}, Undo : UndoBlocks]

\* The records of blocks.
InfoDB(db) == DOMAIN db \subseteq Hashes /\ db \in [DOMAIN db -> BlockRecords]

\* The types, with what keeps them: maps are finite, and no hash is unknown.
TypeInv ==
    /\ Length \in Nat
    /\ LastHash \in Hashes
    /\ UnsafeHashes \in Seq(Hashes)
    /\ InfoDB(BlockInfoDB)
    /\ CoinDB \in CoinDBs
    /\ SeenBlocks \in [Hashes -> Nat]
    /\ crashed \in BOOLEAN

\* The invariant is what TypeOK says, and more.
LEMMA TypeInvImplies ==
    ASSUME TypeInv
    PROVE  TypeOK
<1>1. /\ CoinDB.mainCache \in Caches /\ CoinDB.mainCacheSize \in 0..(Word - 1)
      /\ CoinDB.db \in Records
  BY CoinDBIs DEF TypeInv
<1>2. /\ DOMAIN CoinDB.mainCache \subseteq Coins
      /\ \A cl \in DOMAIN CoinDB.mainCache : CoinDB.mainCache[cl] \in BOOLEAN
  BY <1>1, CacheIs
<1>3. /\ DOMAIN CoinDB.db \subseteq DOMAIN Inputs
      /\ \A tx \in DOMAIN CoinDB.db : CoinDB.db[tx] \in CoinRecords
  BY <1>1, RecordsAre
<1>4. /\ DOMAIN BlockInfoDB \subseteq Hashes
      /\ \A h \in DOMAIN BlockInfoDB :
            BlockInfoDB[h] \in [Height : Nat \ {0}, Undo : UndoBlocks]
  BY DEF TypeInv, InfoDB, BlockRecords
<1> QED BY <1>1, <1>2, <1>3, <1>4 DEF TypeInv, TypeOK

\* The record of any block, stored or not.
LEMMA GetRecordType ==
    ASSUME NEW db, InfoDB(db), NEW h
    PROVE  GetBlockRecord(db, h).Height \in Nat /\ GetBlockRecord(db, h).Undo \in UndoBlocks
<1>1. CASE h \in DOMAIN db
  BY <1>1 DEF InfoDB, BlockRecords, GetBlockRecord
<1>2. CASE h \notin DOMAIN db
  <2>1. <<>> \in UndoBlocks
    BY DEF UndoBlocks
  <2> QED BY <1>2, <2>1 DEF GetBlockRecord
<1> QED BY <1>1, <1>2

\* GetCoin returns an output.
LEMMA GetCoinType ==
    ASSUME NEW c \in CoinDBs, NEW cl, HasCoin(c, cl)
    PROVE  GetCoin(c, cl) \in Coins
<1>1. CASE cl \in DOMAIN c.mainCache
  BY <1>1, CoinDBIs, CacheIs DEF GetCoin
<1>2. CASE cl \notin DOMAIN c.mainCache
  <2>1. PICK cr : cr = RecordOf(c, cl[1])
    OBVIOUS
  <2>2. cr \in Seq(Entry)
    BY <2>1, RecordOfType DEF CoinRecords, Entry
  <2>3. PICK i : i = indexOf(cr, cl[2])
    OBVIOUS
  <2>4. i \in 1..Len(cr)
    <3>1. i > 0
      BY <1>2, <2>1, <2>3 DEF HasCoin
    <3>2. i \in 0..Len(cr)
      BY <2>2, <2>3, IndexFound DEF CoinRecords, Entry
    <3> QED BY <3>1, <3>2
  <2>5. cr[i] \in Entry
    BY <2>2, <2>4
  <2> QED BY <1>2, <2>1, <2>3, <2>5 DEF GetCoin, Entry
<1> QED BY <1>1, <1>2

\* An undo block has an entry for every coin the block spends, or none.
LEMMA UndoBlockType ==
    ASSUME TypeInv, NEW txs \in Seq(DOMAIN Inputs)
    PROVE  makeUndoBlock(txs) \in UndoBlocks
<1>1. PICK s : s = InputsOf(txs)
  OBVIOUS
<1>2. s \in Seq((DOMAIN Inputs) \X Nat)
  BY <1>1, InputsAre
<1>3. CASE ~ \A cl \in ToSet(s) : HasCoin(CoinDB, cl)
  <2>1. <<>> \in UndoBlocks
    BY DEF UndoBlocks
  <2> QED BY <1>1, <1>3, <2>1 DEF makeUndoBlock
<1>4. CASE \A cl \in ToSet(s) : HasCoin(CoinDB, cl)
  <2>1. PICK n \in Nat : DOMAIN s = 1..n
    BY <1>2
  <2>2. PICK R : R = [hash : DOMAIN Inputs, index : Nat, coin : Coins]
    OBVIOUS
  <2>3. ASSUME NEW k \in 1..n
        PROVE  [hash |-> s[k][1], index |-> s[k][2], coin |-> GetCoin(CoinDB, s[k])] \in R
    <3>1. s[k] \in (DOMAIN Inputs) \X Nat /\ s[k] \in ToSet(s)
      <4>1. PICK C : C = (DOMAIN Inputs) \X Nat
        OBVIOUS
      <4>2. s \in Seq(C)
        BY <1>2, <4>1
      <4>3. s[k] \in C
        BY <2>1, <4>2
      <4>4. s[k] \in ToSet(s)
        BY <2>1 DEF ToSet
      <4> QED BY <4>1, <4>3, <4>4
    <3>2. GetCoin(CoinDB, s[k]) \in Coins
      BY <1>4, <3>1, GetCoinType DEF TypeInv
    <3>3. s[k][1] \in DOMAIN Inputs /\ s[k][2] \in Nat
      BY <3>1
    <3> QED BY <2>2, <3>2, <3>3
  <2>4. PICK ub : ub = [k \in 1..n |-> [hash |-> s[k][1], index |-> s[k][2],
                                        coin |-> GetCoin(CoinDB, s[k])]]
    OBVIOUS
  <2>5. ub \in Seq(R)
    <3>1. ub \in [1..n -> R]
      BY <2>3, <2>4
    <3> QED BY <3>1
  <2>6. makeUndoBlock(txs) = ub
    BY <1>1, <1>4, <2>1, <2>4 DEF makeUndoBlock
  <2> QED BY <2>2, <2>5, <2>6 DEF UndoBlocks
<1> QED BY <1>3, <1>4

\* A block is recorded.
LEMMA StoreRecordType ==
    ASSUME TypeInv, NEW h \in Hashes
    PROVE  /\ InfoDB(StoreRecord(h))
           /\ DOMAIN StoreRecord(h) = DOMAIN BlockInfoDB \cup {h}
           /\ StoreRecord(h)[h] = [Height |-> HeightOf(h), Undo |-> makeUndoBlock(Transactions[h])]
           /\ \A g \in DOMAIN BlockInfoDB : g # h => StoreRecord(h)[g] = BlockInfoDB[g]
           /\ HeightOf(h) \in Nat \ {0}
<1>1. HeightOf(h) \in Nat \ {0}
  <2>1. PICK k \in Nat : k = GetBlockRecord(BlockInfoDB, PreviousHash[h]).Height
    BY GetRecordType DEF TypeInv
  <2>2. HeightOf(h) = k + 1
    BY <2>1 DEF HeightOf
  <2> QED BY <2>2
<1>2. makeUndoBlock(Transactions[h]) \in UndoBlocks
  BY UndoBlockType, BlocksAssumption
<1>3. PICK r : r = [Height |-> HeightOf(h), Undo |-> makeUndoBlock(Transactions[h])]
  OBVIOUS
<1>4. r \in BlockRecords
  BY <1>1, <1>2, <1>3 DEF BlockRecords
<1>5. PICK d, D : d = StoreRecord(h) /\ D = DOMAIN BlockInfoDB
  OBVIOUS
<1>6. d = [x \in D \cup {h} |-> IF x = h THEN r ELSE BlockInfoDB[x]]
  BY <1>3, <1>5 DEF StoreRecord, PutInMap
<1>7. InfoDB(d)
  BY <1>4, <1>5, <1>6 DEF TypeInv, InfoDB
<1> QED BY <1>1, <1>3, <1>5, <1>6, <1>7

\* The length of a fork.
LEMMA ForkLength ==
    ASSUME TypeInv, NEW db, NEW h
    PROVE  /\ getForkLength(db, h) \in -1..Len(UnsafeHashes)
           /\ getForkLength(db, h) >= 0 =>
                 Back(db, h, getForkLength(db, h)) \in ToSet(UnsafeHashes)
           /\ Back(db, h, 0) \in ToSet(UnsafeHashes) => getForkLength(db, h) = 0
<1>1. PICK n \in Nat : n = Len(UnsafeHashes)
  BY DEF TypeInv
<1>2. PICK S : S = {i \in 0..n : Back(db, h, i) \in ToSet(UnsafeHashes)}
  OBVIOUS
<1>3. getForkLength(db, h) = IF S = {} THEN -1 ELSE Min(S)
  BY <1>1, <1>2 DEF getForkLength
<1>4. CASE S = {}
  <2>1. 0 \in 0..n
    OBVIOUS
  <2> QED BY <1>1, <1>2, <1>3, <1>4, <2>1
<1>5. CASE S # {}
  <2>1. S \in SUBSET Nat
    BY <1>2
  <2>2. \E m \in S : \A k \in S : m <= k
    BY <1>5, <2>1, LeastNumber
  <2>3. PICK m : m = Min(S)
    OBVIOUS
  <2>4. m \in S /\ \A k \in S : m <= k
    BY <2>2, <2>3 DEF Min
  <2>5. m \in 0..n /\ Back(db, h, m) \in ToSet(UnsafeHashes)
    BY <1>2, <2>4
  <2>6. 0 \in S => m = 0
    BY <2>4, <2>5
  <2>7. Back(db, h, 0) \in ToSet(UnsafeHashes) => 0 \in S
    BY <1>2
  <2> QED BY <1>1, <1>3, <1>5, <2>3, <2>5, <2>6, <2>7
<1> QED BY <1>4, <1>5

\* What is kept of the unsafe hashes in a fork.
LEMMA TrimmedType ==
    ASSUME TypeInv, NEW n \in Nat, NEW ancestor
    PROVE  /\ TrimmedUnsafe(n, ancestor) \in Seq(Hashes)
           /\ \A S : UnsafeHashes \in Seq(S) => TrimmedUnsafe(n, ancestor) \in Seq(S)
           /\ n = 0 => TrimmedUnsafe(n, ancestor) = UnsafeHashes
<1>1. PICK min \in Nat : min = IF n < MaxHashes THEN n ELSE MaxHashes
  BY ChainAssumption
<1>2. PICK stops : stops = {i \in 2..min : UnsafeHashes[i] = ancestor}
  OBVIOUS
<1>3. PICK dropped : dropped = IF stops # {} THEN min - Max(stops)
                               ELSE IF min > 1 THEN min - 1 ELSE 0
  OBVIOUS
<1>4. TrimmedUnsafe(n, ancestor) = SubSeq(UnsafeHashes, 1, Len(UnsafeHashes) - dropped)
  BY <1>1, <1>2, <1>3 DEF TrimmedUnsafe
<1>5. dropped \in Nat
  <2>1. CASE stops # {}
    <3>1. stops \in SUBSET (1..min)
      BY <1>2
    <3>2. Outs!Greatest(stops) \in stops
      BY <2>1, <3>1, Outs!GreatestIndex, Induct
    <3>3. PICK m : m = Max(stops)
      OBVIOUS
    <3>4. m \in stops
      BY <3>2, <3>3 DEF Outs!Greatest, Max
    <3>5. m \in 1..min
      BY <3>1, <3>4
    <3> QED BY <1>3, <2>1, <3>3, <3>5
  <2>2. CASE stops = {}
    BY <1>3, <2>2
  <2> QED BY <2>1, <2>2
<1>6. ASSUME n = 0 PROVE dropped = 0
  <2>1. min = 0
    BY <1>1, <1>6, ChainAssumption
  <2>2. stops = {}
    BY <1>2, <2>1
  <2> QED BY <1>3, <2>1, <2>2
<1>7. PICK u \in Seq(Hashes) : u = UnsafeHashes
  BY DEF TypeInv
<1>8. SubSeq(u, 1, Len(u) - dropped) \in Seq(Hashes)
  BY <1>5
<1>9. SubSeq(u, 1, Len(u) - 0) = u
  OBVIOUS
<1>10. ASSUME NEW S, UnsafeHashes \in Seq(S) PROVE TrimmedUnsafe(n, ancestor) \in Seq(S)
  <2>1. PICK v \in Seq(S) : v = UnsafeHashes
    BY <1>10
  <2>2. SubSeq(v, 1, Len(v) - dropped) \in Seq(S)
    BY <1>5
  <2> QED BY <1>4, <2>1, <2>2
<1> QED BY <1>4, <1>6, <1>7, <1>8, <1>9, <1>10

\* The other end first.
LEMMA ReverseType ==
    ASSUME NEW S, NEW n \in Nat, NEW s \in [1..n -> S]
    PROVE  s \in Seq(S) /\ Reverse(s) \in Seq(S)
<1>1. s \in Seq(S) /\ Len(s) = n
  OBVIOUS
<1>2. PICK r : r = Reverse(s)
  OBVIOUS
<1>3. r = [i \in 1..n |-> s[(n - i) + 1]]
  BY <1>1, <1>2 DEF Reverse
<1>4. \A i \in 1..n : (n - i) + 1 \in 1..n
  OBVIOUS
<1>5. r \in [1..n -> S]
  BY <1>3, <1>4
<1>6. r \in Seq(S)
  BY <1>5
<1> QED BY <1>1, <1>2, <1>6

\* A fork of length 0 undoes and stores nothing.
LEMMA NothingUndone ==
    ASSUME NEW c, NEW blocks, NEW undo, DOMAIN blocks = {}
    PROVE  UndoCoins(c, blocks, undo) = c
<1>1. PICK s : s = [i \in DOMAIN blocks |-> [block |-> blocks[i], undo |-> undo[i]]]
  OBVIOUS
<1>2. s = <<>>
  BY <1>1
<1>3. Undos!Fold(c, <<>>) = c
  BY Undos!FoldEmpty, Induct
<1>4. UndoCoins(c, blocks, undo) = Undos!Fold(c, s)
  BY <1>1 DEF UndoCoins, Undos!Fold, Undos!At, Undos!Steps, Undos!Greatest,
              FoldLeft, MapThenFoldSet, Max
<1> QED BY <1>2, <1>3, <1>4

\* What handleFork changes.  The blocks it undoes have records, or it would
\* have panicked.
LEMMA ForkTakes ==
    ASSUME TypeInv, NEW h \in Hashes, handleFork(h)
    PROVE  /\ Length' = HeightOf(h) /\ LastHash' = h /\ crashed' = crashed
           /\ BlockInfoDB' = StoreRecord(h)
           /\ UnsafeHashes' \in Seq(Hashes)
           /\ CoinDB' \in CoinDBs
           /\ getForkLength(StoreRecord(h), h) = 0 =>
                 CoinDB' = CoinDB /\ UnsafeHashes' = UnsafeHashes
<1>1. PICK db : db = StoreRecord(h)
  OBVIOUS
<1>2. PICK n : n = getForkLength(db, h)
  OBVIOUS
<1>3. PICK bl : bl = [i \in 1..n |-> Back(db, LastHash, i - 1)]
  OBVIOUS
<1>4. PICK ub : ub = [i \in 1..n |-> GetBlockRecord(db, bl[i]).Undo]
  OBVIOUS
<1>5. PICK un : un = UndoCoins(CoinDB, bl, ub)
  OBVIOUS
<1>6. PICK tr : tr = TrimmedUnsafe(n, Back(db, h, n))
  OBVIOUS
<1>7. /\ n >= 0
      /\ \A i \in 1..n : ub[i] # <<>>
      /\ BlockInfoDB' = db
      /\ UnsafeHashes' = tr \o Reverse(bl)
      /\ CoinDB' = FoldLeft(StoreAgain, un, bl)
  BY <1>1, <1>2, <1>3, <1>4, <1>5, <1>6 DEF handleFork, getBlocks
<1>8. n \in Nat /\ InfoDB(db)
  <2>1. PICK m \in Nat : m = Len(UnsafeHashes)
    BY DEF TypeInv
  <2>2. n \in -1..m
    BY <1>2, <2>1, ForkLength
  <2>3. n \in Nat
    BY ONLY <1>7, <2>1, <2>2
  <2> QED BY <1>1, <2>3, StoreRecordType
<1>9. bl \in [1..n -> Hashes]
  <2>1. ASSUME NEW i \in 1..n PROVE Back(db, LastHash, i - 1) \in Hashes
    <3>1. PICK b : b = Back(db, LastHash, i - 1)
      OBVIOUS
    <3>2. bl[i] = b
      BY <1>3, <3>1
    <3>3. GetBlockRecord(db, b).Undo # <<>>
      BY <1>4, <1>7, <3>2
    <3>4. b \in DOMAIN db
      BY <3>3 DEF GetBlockRecord
    <3> QED BY <1>8, <3>1, <3>4 DEF InfoDB
  <2> QED BY <1>3, <2>1
<1>10. ub \in [1..n -> UndoBlocks]
  BY <1>4, <1>8, GetRecordType
<1>11. un \in CoinDBs
  BY <1>5, <1>8, <1>9, <1>10, UndoType DEF TypeInv
<1>12. bl \in Seq(Hashes) /\ Reverse(bl) \in Seq(Hashes)
  BY <1>8, <1>9, ReverseType
<1>13. CoinDB' \in CoinDBs
  BY <1>7, <1>11, <1>12, StoreAgainType
<1>14. tr \in Seq(Hashes) /\ (n = 0 => tr = UnsafeHashes)
  BY <1>6, <1>8, TrimmedType
<1>15. UnsafeHashes' \in Seq(Hashes)
  BY <1>7, <1>12, <1>14
<1>16. ASSUME n = 0 PROVE CoinDB' = CoinDB /\ UnsafeHashes' = UnsafeHashes
  <2>1. 1..n = {}
    BY <1>16
  <2>2. bl = <<>> /\ DOMAIN bl = {}
    BY <1>3, <2>1
  <2>3. un = CoinDB
    BY <1>5, <2>2, NothingUndone
  <2>4. BlockStores!Fold(un, <<>>) = un
    BY BlockStores!FoldEmpty, Induct
  <2>5. FoldLeft(StoreAgain, un, bl) = BlockStores!Fold(un, bl)
    BY DEF BlockStores!Fold, BlockStores!At, BlockStores!Steps, BlockStores!Greatest,
           FoldLeft, MapThenFoldSet, Max
  <2>6. Reverse(<<>>) = <<>>
    BY DEF Reverse
  <2>7. UnsafeHashes \in Seq(Hashes)
    BY DEF TypeInv
  <2>8. UnsafeHashes \o <<>> = UnsafeHashes
    BY <2>7
  <2> QED BY <1>7, <1>14, <1>16, <2>2, <2>3, <2>4, <2>5, <2>6, <2>8
<1>17. Length' = HeightOf(h) /\ LastHash' = h /\ crashed' = crashed
  BY DEF handleFork
<1> QED BY <1>1, <1>2, <1>7, <1>13, <1>15, <1>16, <1>17

\* A chain that holds the genesis block.
LEMMA TypeInit ==
    ASSUME Init
    PROVE  TypeInv
<1>1. New \in CoinDBs
  <2>1. <<>> \in Caches /\ <<>> \in Records
    <3>1. PICK f : f = <<>>
      OBVIOUS
    <3>2. DOMAIN f = {} /\ f \in [DOMAIN f -> BOOLEAN] /\ f \in [DOMAIN f -> CoinRecords]
      BY <3>1
    <3>3. IsFiniteSet(DOMAIN f)
      BY <3>2, FS_EmptySet
    <3> QED BY <3>1, <3>2, <3>3, CacheIs, RecordsAre
  <2>2. 0 \in 0..(Word - 1)
    BY CapacityAssumption
  <2> QED BY <2>1, <2>2, CoinDBMade DEF New
<1>2. CoinDB \in CoinDBs
  BY <1>1, StoreBlockType, BlocksAssumption DEF Init
<1>3. InfoDB(BlockInfoDB)
  <2>1. PICK r : r = [Height |-> 1, Undo |-> <<>>]
    OBVIOUS
  <2>2. <<>> \in UndoBlocks
    BY DEF UndoBlocks
  <2>3. r \in BlockRecords
    BY <2>1, <2>2 DEF BlockRecords
  <2>4. BlockInfoDB = [x \in {Genesis} |-> r]
    BY <2>1 DEF Init, PutInMap
  <2> QED BY <2>3, <2>4, BlocksAssumption DEF InfoDB
<1>4. UnsafeHashes \in Seq(Hashes) /\ SeenBlocks \in [Hashes -> Nat]
  BY BlocksAssumption DEF Init
<1> QED BY <1>2, <1>3, <1>4, BlocksAssumption DEF Init, TypeInv

\* The hashes kept after an append.
LEMMA AppendUnsafeType ==
    ASSUME TypeInv, NEW h \in Hashes
    PROVE  AppendUnsafe(h) \in Seq(Hashes)
<1>1. PICK u \in Seq(Hashes) : u = UnsafeHashes
  BY DEF TypeInv
<1>2. CASE Len(u) >= MaxHashes
  <2>1. u # <<>>
    BY <1>2, ChainAssumption
  <2>2. Tail(u) \in Seq(Hashes)
    BY <2>1
  <2>3. Append(Tail(u), h) \in Seq(Hashes)
    BY <2>2
  <2> QED BY <1>1, <1>2, <2>3 DEF AppendUnsafe
<1>3. CASE ~(Len(u) >= MaxHashes)
  <2>1. Append(u, h) \in Seq(Hashes)
    OBVIOUS
  <2> QED BY <1>1, <1>3, <2>1 DEF AppendUnsafe
<1> QED BY <1>2, <1>3

\* What HandleBlock does to the chain keeps the types.
LEMMA HandleBlockType ==
    ASSUME TypeInv, NEW h \in Hashes, HandleBlock(h)
    PROVE  /\ Length' \in Nat /\ LastHash' \in Hashes /\ UnsafeHashes' \in Seq(Hashes)
           /\ InfoDB(BlockInfoDB)' /\ CoinDB' \in CoinDBs /\ crashed' \in BOOLEAN
<1>1. CASE RefuseBlock(h)
  BY <1>1 DEF RefuseBlock, TypeInv, chainVars
<1>2. CASE AppendBlock(h)
  <2>1. CoinDB' \in CoinDBs
    BY <1>2, StoreBlockType, BlocksAssumption DEF AppendBlock, TypeInv
  <2>2. UnsafeHashes' \in Seq(Hashes)
    BY <1>2, AppendUnsafeType DEF AppendBlock
  <2>3. InfoDB(BlockInfoDB)'
    BY <1>2, StoreRecordType DEF AppendBlock
  <2> QED BY <1>2, <2>1, <2>2, <2>3 DEF AppendBlock, TypeInv
<1>3. CASE KeepBlock(h)
  <2>1. InfoDB(BlockInfoDB)'
    BY <1>3, StoreRecordType DEF KeepBlock
  <2> QED BY <1>3, <2>1 DEF KeepBlock, TypeInv
<1>4. CASE InvalidFork(h)
  <2>1. BlockInfoDB' = StoreRecord(h)
    BY <1>4 DEF InvalidFork
  <2>2. InfoDB(BlockInfoDB)'
    BY <2>1, StoreRecordType
  <2> QED BY <1>4, <2>2 DEF InvalidFork, TypeInv
<1>5. CASE handleFork(h)
  <2>1. InfoDB(BlockInfoDB)'
    BY <1>5, ForkTakes, StoreRecordType
  <2>2. Length' \in Nat
    BY <1>5, ForkTakes, StoreRecordType
  <2> QED BY <1>5, <2>1, <2>2, ForkTakes DEF TypeInv
<1>6. CASE handleForkPanics(h)
  <2>1. BlockInfoDB' = StoreRecord(h)
    BY <1>6 DEF handleForkPanics
  <2>2. InfoDB(BlockInfoDB)'
    BY <2>1, StoreRecordType
  <2> QED BY <1>6, <2>2 DEF handleForkPanics, TypeInv
<1> QED BY <1>1, <1>2, <1>3, <1>4, <1>5, <1>6 DEF HandleBlock

\* Every step keeps the types.
LEMMA TypeStep ==
    ASSUME TypeInv, [Next]_vars
    PROVE  TypeInv'
<1>1. ASSUME NEW h \in Hashes, ForwardBlock(h) \/ Bootstrap(h)
      PROVE  TypeInv'
  <2>1. HandleBlock(h)
    BY <1>1 DEF ForwardBlock, Bootstrap
  <2>2. SeenBlocks' \in [Hashes -> Nat]
    BY <1>1 DEF ForwardBlock, Bootstrap, TypeInv
  <2> QED BY <2>1, <2>2, HandleBlockType DEF TypeInv
<1>2. ASSUME NEW h \in Hashes, IgnoreBlock(h)
      PROVE  TypeInv'
  <2>1. SeenBlocks' \in [Hashes -> Nat]
    BY <1>2 DEF IgnoreBlock, TypeInv
  <2> QED BY <1>2, <2>1 DEF IgnoreBlock, TypeInv, InfoDB, chainVars
<1>3. CASE GetBalance
  <2>1. CoinDB' \in CoinDBs
    BY <1>3, FlushIs DEF GetBalance, TypeInv
  <2> QED BY <1>3, <2>1 DEF GetBalance, TypeInv, InfoDB
<1>4. CASE UNCHANGED vars
  BY <1>4 DEF vars, chainVars, TypeInv, InfoDB
<1> QED BY <1>1, <1>2, <1>3, <1>4 DEF Next

\* The invariant for the types.
LEMMA TypeHolds == Spec => []TypeInv
<1>1. Init => TypeInv
  BY TypeInit
<1>2. TypeInv /\ [Next]_vars => TypeInv'
  BY TypeStep
<1> QED BY <1>1, <1>2, PTL DEF Spec

\* Whatever blocks arrive, in whatever order and however often, and whatever
\* handleFork undoes and stores again, the state of the chain and of its coin
\* database is well formed: records are of blocks and transactions that exist,
\* undo blocks and coin records hold outputs, the counter of the cache stays
\* within its word although undoing subtracts from it.
THEOREM TypeCorrect == Spec => []TypeOK
<1>1. TypeInv => TypeOK
  BY TypeInvImplies
<1> QED BY <1>1, TypeHolds, PTL

-----------------------------------------------------------------------------
(* The records of the active chain                                         *)

\* The blocks whose chain is in db, down to the genesis block.
Anchored(db) == {h \in Hashes : ToSet(ChainOf[h]) \subseteq DOMAIN db}

\* The active chain is recorded, and so are the chains of the unsafe hashes,
\* those that a fork put there included.  A record that is not of a loose block
\* names the coins of its block.
RecordInv ==
    /\ TypeInv
    /\ LastHash \in Anchored(BlockInfoDB)
    /\ UnsafeHashes \in Seq(Anchored(BlockInfoDB))
    /\ \A h \in DOMAIN BlockInfoDB \ loose : UndoNamed(h)

\* A chain is a sequence of at least one block, and one longer than its parent's.
LEMMA ChainLengths ==
    /\ Len(ChainOf[Genesis]) = 1
    /\ \A h \in Hashes : ChainOf[h] \in Seq(Hashes) /\ Len(ChainOf[h]) \in Nat \ {0}
    /\ \A h \in Hashes : h # Genesis => Len(ChainOf[h]) = Len(ChainOf[PreviousHash[h]]) + 1
<1>1. ASSUME NEW h \in Hashes
      PROVE  ChainOf[h] \in Seq(Hashes) /\ Len(ChainOf[h]) \in Nat \ {0}
  BY ChainIsPath DEF Path
<1>2. Len(<<Genesis>>) = 1
  OBVIOUS
<1>3. ASSUME NEW h \in Hashes, h # Genesis
      PROVE  Len(ChainOf[h]) = Len(ChainOf[PreviousHash[h]]) + 1
  <2>1. PICK c : c = ChainOf[PreviousHash[h]]
    OBVIOUS
  <2>2. c \in Seq(Hashes) /\ ChainOf[h] = Append(c, h)
    BY <1>1, <1>3, <2>1, ChainSteps
  <2>3. Len(Append(c, h)) = Len(c) + 1
    BY <2>2
  <2> QED BY <2>1, <2>2, <2>3
<1> QED BY <1>1, <1>2, <1>3, ChainSteps

\* A chain consists of its newest block and of its parent's chain.
LEMMA ChainSets ==
    /\ ToSet(ChainOf[Genesis]) = {Genesis}
    /\ \A h \in Hashes : h # Genesis =>
          PreviousHash[h] \in Hashes /\ ToSet(ChainOf[h]) = ToSet(ChainOf[PreviousHash[h]]) \cup {h}
<1>1. ToSet(<<Genesis>>) = {Genesis}
  BY DEF ToSet
<1>2. ASSUME NEW h \in Hashes, h # Genesis
      PROVE  PreviousHash[h] \in Hashes /\ ToSet(ChainOf[h]) = ToSet(ChainOf[PreviousHash[h]]) \cup {h}
  <2>1. PICK c, d : c = ChainOf[PreviousHash[h]] /\ d = ChainOf[h]
    OBVIOUS
  <2>2. PreviousHash[h] \in Hashes /\ c \in Seq(Hashes) /\ d = Append(c, h)
    BY <1>2, <2>1, ChainSteps, ChainLengths
  <2>3. PICK m \in Nat : m = Len(c) /\ DOMAIN c = 1..m /\ DOMAIN d = 1..(m + 1)
    BY <2>2
  <2>4. d[m + 1] = h /\ \A k \in 1..m : d[k] = c[k]
    BY <2>2, <2>3
  <2>5. \A k \in 1..(m + 1) : k = m + 1 \/ k \in 1..m
    OBVIOUS
  <2>6. m + 1 \in 1..(m + 1) /\ \A k \in 1..m : k \in 1..(m + 1)
    OBVIOUS
  <2>7. ToSet(d) = ToSet(c) \cup {h}
    <3>1. ASSUME NEW x \in ToSet(d) PROVE x \in ToSet(c) \cup {h}
      BY <2>3, <2>4, <2>5 DEF ToSet
    <3>2. ASSUME NEW x \in ToSet(c) \cup {h} PROVE x \in ToSet(d)
      BY <2>3, <2>4, <2>6 DEF ToSet
    <3> QED BY <3>1, <3>2
  <2> QED BY <2>1, <2>2, <2>7
<1> QED BY <1>1, <1>2, ChainSteps

\* A block is in its own chain, and the chain of a block of it is part of it.
LEMMA ChainParts ==
    ASSUME NEW h \in Hashes
    PROVE  /\ h \in ToSet(ChainOf[h]) /\ ToSet(ChainOf[h]) \subseteq Hashes
           /\ \A g \in ToSet(ChainOf[h]) : ToSet(ChainOf[g]) \subseteq ToSet(ChainOf[h])
<1> DEFINE Whole(x) == /\ x \in ToSet(ChainOf[x]) /\ ToSet(ChainOf[x]) \subseteq Hashes
                       /\ \A g \in ToSet(ChainOf[x]) : ToSet(ChainOf[g]) \subseteq ToSet(ChainOf[x])
<1> DEFINE S == {x \in Hashes : ~Whole(x)}
<1>1. ASSUME S # {} PROVE FALSE
  <2>1. PICK x \in S : PreviousHash[x] \notin S
    BY <1>1, HashesAssumption
  <2>2. CASE x = Genesis
    BY <2>1, <2>2, ChainSets
  <2>3. CASE x # Genesis
    <3>1. Whole(PreviousHash[x])
      BY <2>1, <2>3, ChainSets
    <3> QED BY <2>1, <2>3, <3>1, ChainSets
  <2> QED BY <2>2, <2>3
<1> QED BY <1>1

\* What is anchored stays so, and a child of an anchored block is with its record.
LEMMA AnchoredGrows ==
    ASSUME NEW db, NEW e, DOMAIN db \subseteq DOMAIN e
    PROVE  /\ Anchored(db) \subseteq Anchored(e)
           /\ \A s \in Seq(Anchored(db)) : s \in Seq(Anchored(e))
           /\ \A h \in Hashes : h \in DOMAIN e /\ h # Genesis /\ PreviousHash[h] \in Anchored(e)
                 => h \in Anchored(e)
           /\ \A h \in Anchored(e) : h # Genesis => PreviousHash[h] \in Anchored(e)
<1>1. Anchored(db) \subseteq Anchored(e)
  BY DEF Anchored
<1>2. \A s \in Seq(Anchored(db)) : s \in Seq(Anchored(e))
  BY <1>1
<1>3. \A h \in Hashes : h \in DOMAIN e /\ h # Genesis /\ PreviousHash[h] \in Anchored(e)
                 => h \in Anchored(e)
  BY ChainSets DEF Anchored
<1>4. \A h \in Anchored(e) : h # Genesis => PreviousHash[h] \in Anchored(e)
  BY ChainSets DEF Anchored
<1> QED BY <1>1, <1>2, <1>3, <1>4

\* What a block leads back to by the records is anchored only if the block is.
LEMMA BackUp ==
    ASSUME NEW db, InfoDB(db), NEW h \in Hashes, NEW n \in Nat,
           Back(db, h, n) \in Anchored(db)
    PROVE  h \in Anchored(db)
<1>1. /\ Back(db, h, 0) = h
      /\ \A k \in Nat : Back(db, h, k + 1) = RecordedParent(db, Back(db, h, k))
  BY BackSteps DEF InfoDB
<1> DEFINE P == {k \in 0..n : Back(db, h, n - k) \in Anchored(db)}
<1>2. P \in SUBSET (0..n) /\ 0 \in P
  <2>1. n - 0 = n
    OBVIOUS
  <2> QED BY <2>1
<1>3. ASSUME NEW k \in 1..n, k - 1 \in P PROVE k \in P
  <2>1. PICK b : b = Back(db, h, n - k)
    OBVIOUS
  <2>2. n - k \in Nat /\ n - (k - 1) = (n - k) + 1
    OBVIOUS
  <2>3. RecordedParent(db, b) \in Anchored(db)
    BY <1>1, <1>3, <2>1, <2>2
  <2>4. RecordedParent(db, b) \in Hashes
    BY <2>3 DEF Anchored
  <2>5. b \in DOMAIN db /\ PreviousHash[b] = RecordedParent(db, b)
    BY <2>4, BlocksAssumption DEF RecordedParent
  <2>6. b \in Hashes /\ b # Genesis
    BY <2>4, <2>5, BlocksAssumption DEF InfoDB
  <2>7. b \in Anchored(db)
    BY <2>3, <2>5, <2>6, AnchoredGrows
  <2> QED BY <2>1, <2>7
<1> HIDE DEF P
<1>4. n \in P
  BY <1>2, <1>3, Outs!CountingUp, Induct
<1>5. n - n = 0
  OBVIOUS
<1> QED BY <1>1, <1>4, <1>5 DEF P

\* What an anchored block leads back to, while it is a block, is anchored.
LEMMA BackDown ==
    ASSUME NEW db, InfoDB(db), NEW h \in Anchored(db), NEW n \in Nat,
           \A k \in 0..n : Back(db, h, k) \in DOMAIN db
    PROVE  Back(db, h, n) \in Anchored(db)
<1>1. h \in Hashes
  BY DEF Anchored
<1>2. /\ Back(db, h, 0) = h
      /\ \A k \in Nat : Back(db, h, k + 1) = RecordedParent(db, Back(db, h, k))
  BY <1>1, BackSteps DEF InfoDB
<1> DEFINE P == {k \in 0..n : Back(db, h, k) \in Anchored(db)}
<1>3. P \in SUBSET (0..n) /\ 0 \in P
  BY <1>2
<1>4. ASSUME NEW k \in 1..n, k - 1 \in P PROVE k \in P
  <2>1. PICK b : b = Back(db, h, k - 1)
    OBVIOUS
  <2>2. k - 1 \in Nat /\ (k - 1) + 1 = k /\ k - 1 \in 0..n /\ k \in 0..n
    OBVIOUS
  <2>3. Back(db, h, k) = RecordedParent(db, b)
    BY <1>2, <2>1, <2>2
  <2>4. b \in DOMAIN db /\ b \in Anchored(db)
    BY <1>4, <2>1, <2>2
  <2>5. PreviousHash[b] = Back(db, h, k)
    BY <2>3, <2>4 DEF RecordedParent
  <2>6. Back(db, h, k) \in Hashes
    BY <2>2 DEF InfoDB
  <2>7. b # Genesis
    BY <2>5, <2>6, BlocksAssumption
  <2>8. PreviousHash[b] \in Anchored(db)
    BY <2>4, <2>7, AnchoredGrows
  <2> QED BY <2>2, <2>5, <2>8
<1> HIDE DEF P
<1>5. n \in P
  BY <1>3, <1>4, Outs!CountingUp, Induct
<1> QED BY <1>5 DEF P

\* After a fork the new active chain is recorded, since its newest block leads
\* back to an unsafe hash; so are the blocks of the old one that become unsafe.
LEMMA ForkAnchored ==
    ASSUME RecordInv, NEW h \in Hashes, handleFork(h)
    PROVE  h \in Anchored(StoreRecord(h)) /\ UnsafeHashes' \in Seq(Anchored(StoreRecord(h)))
<1>1. PICK db : db = StoreRecord(h)
  OBVIOUS
<1>2. PICK n : n = getForkLength(db, h)
  OBVIOUS
<1>3. PICK bl : bl = [i \in 1..n |-> Back(db, LastHash, i - 1)]
  OBVIOUS
<1>4. PICK tr : tr = TrimmedUnsafe(n, Back(db, h, n))
  OBVIOUS
<1>5. /\ n >= 0
      /\ \A i \in 1..n : GetBlockRecord(db, bl[i]).Undo # <<>>
      /\ UnsafeHashes' = tr \o Reverse(bl)
  BY <1>1, <1>2, <1>3, <1>4 DEF handleFork, getBlocks
<1>6. TypeInv
  BY DEF RecordInv
<1>7. n \in Nat
  <2>1. PICK m \in Nat : m = Len(UnsafeHashes)
    BY <1>6 DEF TypeInv
  <2>2. n \in -1..m
    BY <1>2, <1>6, <2>1, ForkLength
  <2> QED BY ONLY <1>5, <2>1, <2>2
<1>8. InfoDB(db) /\ DOMAIN BlockInfoDB \subseteq DOMAIN db
  BY <1>1, <1>6, StoreRecordType
<1>9. LastHash \in Anchored(db) /\ UnsafeHashes \in Seq(Anchored(db))
  BY <1>8, AnchoredGrows DEF RecordInv
<1>10. h \in Anchored(db)
  <2>1. Back(db, h, n) \in ToSet(UnsafeHashes)
    BY <1>2, <1>5, <1>6, ForkLength
  <2>2. PICK u \in Seq(Anchored(db)) : u = UnsafeHashes
    BY <1>9
  <2>3. Back(db, h, n) \in Anchored(db)
    BY <2>1, <2>2 DEF ToSet
  <2> QED BY <1>7, <1>8, <2>3, BackUp
<1>11. bl \in [1..n -> Anchored(db)]
  <2>1. ASSUME NEW i \in 1..n PROVE Back(db, LastHash, i - 1) \in DOMAIN db
    <3>1. bl[i] = Back(db, LastHash, i - 1)
      BY <1>3
    <3> QED BY <1>5, <3>1 DEF GetBlockRecord
  <2>2. ASSUME NEW i \in 1..n PROVE Back(db, LastHash, i - 1) \in Anchored(db)
    <3>1. i - 1 \in Nat /\ \A k \in 0..(i - 1) : k + 1 \in 1..n /\ (k + 1) - 1 = k
      BY <1>7
    <3>2. \A k \in 0..(i - 1) : Back(db, LastHash, k) \in DOMAIN db
      BY <2>1, <3>1
    <3> QED BY <1>8, <1>9, <3>1, <3>2, BackDown
  <2> QED BY <1>3, <2>2
<1>12. Reverse(bl) \in Seq(Anchored(db))
  BY <1>7, <1>11, ReverseType
<1>13. tr \in Seq(Anchored(db))
  BY <1>4, <1>6, <1>7, <1>9, TrimmedType
<1>14. UnsafeHashes' \in Seq(Anchored(db))
  BY <1>5, <1>12, <1>13
<1> QED BY <1>1, <1>10, <1>14

\* HandleBlock keeps the chains recorded.
LEMMA HandleBlockAnchored ==
    ASSUME RecordInv, NEW h \in Hashes, HandleBlock(h)
    PROVE  /\ LastHash' \in Anchored(BlockInfoDB')
           /\ UnsafeHashes' \in Seq(Anchored(BlockInfoDB'))
           /\ BlockInfoDB' \in {BlockInfoDB, StoreRecord(h)}
           /\ BlockInfoDB' = StoreRecord(h) \/ ~ValidateBlock(CoinDB, Transactions[h])
<1>1. TypeInv
  BY DEF RecordInv
<1>2. PICK db : db = StoreRecord(h)
  OBVIOUS
<1>3. InfoDB(db) /\ DOMAIN db = DOMAIN BlockInfoDB \cup {h}
  BY <1>1, <1>2, StoreRecordType
<1>4. LastHash \in Anchored(db) /\ UnsafeHashes \in Seq(Anchored(db))
  BY <1>3, AnchoredGrows DEF RecordInv
<1>5. CASE RefuseBlock(h)
  BY <1>5 DEF RefuseBlock, chainVars, RecordInv
<1>6. CASE AppendBlock(h)
  <2>1. /\ PreviousHash[h] = LastHash /\ LastHash' = h /\ BlockInfoDB' = db
        /\ UnsafeHashes' = AppendUnsafe(h)
    BY <1>2, <1>6 DEF AppendBlock, appendsToActiveChain
  <2>2. h # Genesis
    BY <1>1, <2>1, BlocksAssumption DEF TypeInv
  <2>3. h \in Anchored(db)
    BY <1>3, <1>4, <2>1, <2>2, AnchoredGrows
  <2>4. PICK A, u : A = Anchored(db) /\ u = UnsafeHashes /\ u \in Seq(A)
    BY <1>4
  <2>5. AppendUnsafe(h) \in Seq(A)
    <3>1. CASE Len(u) >= MaxHashes
      <4>1. u # <<>>
        BY <3>1, ChainAssumption
      <4>2. Tail(u) \in Seq(A)
        BY <2>4, <4>1
      <4>3. Append(Tail(u), h) \in Seq(A)
        BY <2>3, <2>4, <4>2
      <4> QED BY <2>4, <3>1, <4>3 DEF AppendUnsafe
    <3>2. CASE ~(Len(u) >= MaxHashes)
      <4>1. Append(u, h) \in Seq(A)
        BY <2>3, <2>4
      <4> QED BY <2>4, <3>2, <4>1 DEF AppendUnsafe
    <3> QED BY <3>1, <3>2
  <2> QED BY <1>2, <2>1, <2>3, <2>4, <2>5
<1>7. CASE KeepBlock(h) \/ InvalidFork(h) \/ handleForkPanics(h)
  <2>1. BlockInfoDB' = db /\ LastHash' = LastHash /\ UnsafeHashes' = UnsafeHashes
    BY <1>2, <1>7 DEF KeepBlock, InvalidFork, handleForkPanics
  <2> QED BY <1>2, <1>4, <2>1
<1>8. CASE handleFork(h)
  <2>1. BlockInfoDB' = db /\ LastHash' = h
    BY <1>1, <1>2, <1>8, ForkTakes
  <2>2. h \in Anchored(db) /\ UnsafeHashes' \in Seq(Anchored(db))
    BY <1>2, <1>8, ForkAnchored
  <2> QED BY <1>2, <2>1, <2>2
<1> QED BY <1>5, <1>6, <1>7, <1>8 DEF HandleBlock

\* What the record of g in db names.
NamedIn(db, g) ==
    LET ub == GetBlockRecord(db, g).Undo
    IN [k \in DOMAIN ub |-> <<ub[k].hash, ub[k].index>>] = InputsOf(Transactions[g])

\* A record that is written, also one that is written again, names the coins of
\* a valid block; the other records are untouched.
LEMMA NamesStored ==
    ASSUME TypeInv, NEW h \in Hashes
    PROVE  /\ ValidateBlock(CoinDB, Transactions[h]) => NamedIn(StoreRecord(h), h)
           /\ \A g : g # h /\ NamedIn(BlockInfoDB, g) => NamedIn(StoreRecord(h), g)
<1>1. PICK txs, ub, d : txs = Transactions[h] /\ ub = makeUndoBlock(txs) /\ d = StoreRecord(h)
  OBVIOUS
<1>2. txs \in Seq(DOMAIN Inputs)
  BY <1>1, BlocksAssumption
<1>3. d = [x \in (DOMAIN BlockInfoDB) \cup {h} |->
             IF x = h THEN [Height |-> HeightOf(h), Undo |-> ub] ELSE BlockInfoDB[x]]
  BY <1>1 DEF StoreRecord, PutInMap
<1>4. GetBlockRecord(d, h).Undo = ub
  BY <1>3 DEF GetBlockRecord
<1>5. \A g : g # h => GetBlockRecord(d, g) = GetBlockRecord(BlockInfoDB, g)
  BY <1>3 DEF GetBlockRecord
<1>6. ASSUME ValidateBlock(CoinDB, txs)
      PROVE  [k \in DOMAIN ub |-> <<ub[k].hash, ub[k].index>>] = InputsOf(txs)
  <2>1. PICK s, C : s = InputsOf(txs) /\ C = (DOMAIN Inputs) \X Nat
    OBVIOUS
  <2>2. s \in Seq(C)
    BY <1>2, <2>1, InputsAre
  <2>3. ASSUME NEW cl \in ToSet(s) PROVE HasCoin(CoinDB, cl)
    <3>1. PICK j \in 1..Len(txs) : cl \in ToSet(Inputs[txs[j]])
      BY <1>2, <2>1, InputsAre
    <3>2. txs[j] \in ToSet(txs)
      <4>1. PICK T : T = DOMAIN Inputs
        OBVIOUS
      <4>2. txs \in Seq(T)
        BY <1>2, <4>1
      <4> QED BY <4>2 DEF ToSet
    <3>3. IsUnspent(CoinDB, cl)
      BY <1>6, <3>1, <3>2 DEF ValidateBlock, ValidateTransaction
    <3> QED BY <3>3 DEF IsUnspent, HasCoin
  <2>4. ub = [k \in DOMAIN s |-> [hash |-> s[k][1], index |-> s[k][2],
                                  coin |-> GetCoin(CoinDB, s[k])]]
    BY <1>1, <2>1, <2>3 DEF makeUndoBlock
  <2>5. ASSUME NEW k \in DOMAIN s PROVE <<s[k][1], s[k][2]>> = s[k]
    <3>1. s[k] \in C
      BY <2>2
    <3> QED BY <2>1, <3>1
  <2>6. DOMAIN ub = DOMAIN s /\ \A k \in DOMAIN s : <<ub[k].hash, ub[k].index>> = s[k]
    BY <2>4, <2>5
  <2>7. [k \in DOMAIN ub |-> <<ub[k].hash, ub[k].index>>] = [k \in DOMAIN s |-> s[k]]
    BY <2>6
  <2>8. s = [k \in DOMAIN s |-> s[k]]
    BY <2>2
  <2> QED BY <2>1, <2>7, <2>8
<1>7. ValidateBlock(CoinDB, Transactions[h]) => NamedIn(d, h)
  BY <1>1, <1>4, <1>6 DEF NamedIn
<1>8. \A g : g # h /\ NamedIn(BlockInfoDB, g) => NamedIn(d, g)
  BY <1>5 DEF NamedIn
<1> QED BY <1>1, <1>7, <1>8

\* Every step keeps the records.
LEMMA RecordStep ==
    ASSUME RecordInv, [Next]_vars
    PROVE  RecordInv'
<1>1. TypeInv /\ TypeInv'
  BY TypeStep DEF RecordInv
<1>2. ASSUME NEW h \in Hashes, ForwardBlock(h) \/ Bootstrap(h)
      PROVE  RecordInv'
  <2>1. HandleBlock(h)
    BY <1>2 DEF ForwardBlock, Bootstrap
  <2>2. loose \ {h} \subseteq loose' /\ (h \notin loose' => ValidateBlock(CoinDB, Transactions[h]))
    BY <1>2 DEF ForwardBlock, Bootstrap, CheckBlock
  <2>3. /\ LastHash' \in Anchored(BlockInfoDB')
        /\ UnsafeHashes' \in Seq(Anchored(BlockInfoDB'))
        /\ BlockInfoDB' \in {BlockInfoDB, StoreRecord(h)}
        /\ BlockInfoDB' = StoreRecord(h) \/ ~ValidateBlock(CoinDB, Transactions[h])
    BY <2>1, HandleBlockAnchored
  <2>4. ASSUME NEW g \in DOMAIN BlockInfoDB', g \notin loose' PROVE NamedIn(BlockInfoDB', g)
    <3>1. CASE g = h
      <4>1. BlockInfoDB' = StoreRecord(h)
        BY <2>2, <2>3, <2>4, <3>1
      <4> QED BY <1>1, <2>2, <2>4, <3>1, <4>1, NamesStored
    <3>2. CASE g # h
      <4>1. g \notin loose
        BY <2>2, <2>4, <3>2
      <4>2. DOMAIN StoreRecord(h) = DOMAIN BlockInfoDB \cup {h}
        BY <1>1, StoreRecordType
      <4>3. g \in DOMAIN BlockInfoDB
        BY <2>3, <3>2, <4>2
      <4>4. NamedIn(BlockInfoDB, g)
        BY <4>1, <4>3 DEF RecordInv, UndoNamed, NamedIn
      <4> QED BY <1>1, <2>3, <3>2, <4>4, NamesStored
    <3> QED BY <3>1, <3>2
  <2>5. (\A g \in DOMAIN BlockInfoDB \ loose : UndoNamed(g))'
    BY <2>4 DEF UndoNamed, NamedIn
  <2>6. (LastHash \in Anchored(BlockInfoDB) /\ UnsafeHashes \in Seq(Anchored(BlockInfoDB)))'
    BY <2>3 DEF Anchored
  <2> QED BY <1>1, <2>5, <2>6 DEF RecordInv
<1>3. ASSUME UNCHANGED <<LastHash, UnsafeHashes, BlockInfoDB, loose>>
      PROVE  RecordInv'
  <2>1. (\A g \in DOMAIN BlockInfoDB \ loose : UndoNamed(g))'
    BY <1>3 DEF RecordInv, UndoNamed
  <2>2. (LastHash \in Anchored(BlockInfoDB) /\ UnsafeHashes \in Seq(Anchored(BlockInfoDB)))'
    BY <1>3 DEF RecordInv, Anchored
  <2> QED BY <1>1, <2>1, <2>2 DEF RecordInv
<1>4. ASSUME NEW h \in Hashes, IgnoreBlock(h)
      PROVE  UNCHANGED <<LastHash, UnsafeHashes, BlockInfoDB, loose>>
  BY <1>4 DEF IgnoreBlock, chainVars
<1>5. CASE GetBalance
  BY <1>3, <1>5 DEF GetBalance
<1>6. CASE UNCHANGED vars
  BY <1>3, <1>6 DEF vars, chainVars
<1> QED BY <1>2, <1>3, <1>4, <1>5, <1>6 DEF Next

\* The genesis block spends nothing.
LEMMA GenesisSpends ==
    InputsOf(Transactions[Genesis]) = <<>> /\ ToSet(InputsOf(Transactions[Genesis])) = {}
<1>1. PICK txs, C : txs = Transactions[Genesis] /\ C = (DOMAIN Inputs) \X Nat
  OBVIOUS
<1>2. txs \in Seq(DOMAIN Inputs) /\ \A k \in DOMAIN txs : Inputs[txs[k]] = <<>>
  BY <1>1, BlocksAssumption
<1>3. PICK s : s = InputsOf(txs)
  OBVIOUS
<1>4. s \in Seq(C) /\ \A cl : cl \in ToSet(s) <=> \E j \in 1..Len(txs) : cl \in ToSet(Inputs[txs[j]])
  BY <1>1, <1>2, <1>3, InputsAre
<1>5. ToSet(<<>>) = {}
  BY DEF ToSet
<1>6. DOMAIN txs = 1..Len(txs)
  BY <1>2
<1>7. ToSet(s) = {}
  BY <1>2, <1>4, <1>5, <1>6
<1>8. s = <<>>
  <2>1. PICK n \in Nat : n = Len(s) /\ DOMAIN s = 1..n
    BY <1>4
  <2>2. n = 0
    <3> SUFFICES ASSUME n # 0 PROVE FALSE
      OBVIOUS
    <3>1. 1 \in DOMAIN s
      BY <2>1
    <3> QED BY <1>7, <3>1 DEF ToSet
  <2> QED BY <1>4, <2>1, <2>2
<1> QED BY <1>1, <1>3, <1>7, <1>8

\* The genesis block is recorded, and has nothing to undo.
LEMMA RecordInit ==
    ASSUME Init
    PROVE  RecordInv
<1>1. BlockInfoDB = [x \in {Genesis} |-> [Height |-> 1, Undo |-> <<>>]]
  BY DEF Init, PutInMap
<1>2. Genesis \in Anchored(BlockInfoDB)
  BY <1>1, ChainSets, BlocksAssumption DEF Anchored
<1>3. UnsafeHashes = <<Genesis>> /\ LastHash = Genesis
  BY DEF Init
<1>4. UnsafeHashes \in Seq(Anchored(BlockInfoDB))
  BY <1>2, <1>3
<1>5. UndoNamed(Genesis)
  <2>1. PICK ub : ub = GetBlockRecord(BlockInfoDB, Genesis).Undo
    OBVIOUS
  <2>2. ub = <<>>
    BY <1>1, <2>1 DEF GetBlockRecord
  <2>3. [k \in DOMAIN ub |-> <<ub[k].hash, ub[k].index>>] = <<>>
    BY <2>2
  <2> QED BY <2>1, <2>3, GenesisSpends DEF UndoNamed
<1>6. \A h \in DOMAIN BlockInfoDB \ loose : UndoNamed(h)
  BY <1>1, <1>5
<1> QED BY <1>2, <1>3, <1>4, <1>6, TypeInit DEF RecordInv

\* Whatever blocks arrive, in whatever order, from whom and however often, and
\* whatever forks are adopted: every block of the active chain has its record,
\* and the record names the coins the block spent unless the block was last
\* handed over unchecked at a time when they were not unspent.
THEOREM UndoBlocksKept == Spec => []UndoKept
<1>1. Init => RecordInv
  BY RecordInit
<1>2. RecordInv /\ [Next]_vars => RecordInv'
  BY RecordStep
<1>3. RecordInv => UndoKept
  BY DEF RecordInv, Anchored, UndoKept, ActiveChain
<1> QED BY <1>1, <1>2, <1>3, PTL DEF Spec

-----------------------------------------------------------------------------
(* Heights                                                                 *)

\* No recorded height is too high, and those of rooted chains are right; so is
\* Length when the active chain is one.
Heights ==
    /\ \A h \in DOMAIN BlockInfoDB :
          /\ BlockInfoDB[h].Height <= Len(ChainOf[h])
          /\ Rooted(h) => BlockInfoDB[h].Height = Len(ChainOf[h])
    /\ Rooted(LastHash) => Length = Len(ActiveChain)
ChainInv == RecordInv /\ Heights

\* A rooted chain was rooted before, and so was its parent's.
LEMMA RootedDown ==
    ASSUME NEW h \in Hashes, early \subseteq early'
    PROVE  Rooted(h)' => Rooted(h) /\ (h # Genesis => Rooted(PreviousHash[h]))
BY ChainSets DEF Rooted

\* The height a block gets is not too high, and right if its chain is rooted.
LEMMA HeightRight ==
    ASSUME ChainInv, NEW h \in Hashes, BlockInfoDB' = StoreRecord(h), NoteEarly(h)
    PROVE  /\ HeightOf(h) \in Nat /\ HeightOf(h) <= Len(ChainOf[h])
           /\ Rooted(h)' => HeightOf(h) = Len(ChainOf[h])
           /\ \A g \in DOMAIN BlockInfoDB' :
                 /\ BlockInfoDB'[g].Height <= Len(ChainOf[g])
                 /\ Rooted(g)' => BlockInfoDB'[g].Height = Len(ChainOf[g])
<1>1. TypeInv
  BY DEF ChainInv, RecordInv
<1>2. /\ DOMAIN BlockInfoDB' = DOMAIN BlockInfoDB \cup {h}
      /\ BlockInfoDB'[h].Height = HeightOf(h)
      /\ \A g \in DOMAIN BlockInfoDB : g # h => BlockInfoDB'[g] = BlockInfoDB[g]
      /\ HeightOf(h) \in Nat
  <2>1. PICK d : d = StoreRecord(h)
    OBVIOUS
  <2>2. /\ DOMAIN d = DOMAIN BlockInfoDB \cup {h}
        /\ d[h] = [Height |-> HeightOf(h), Undo |-> makeUndoBlock(Transactions[h])]
        /\ \A g \in DOMAIN BlockInfoDB : g # h => d[g] = BlockInfoDB[g]
        /\ HeightOf(h) \in Nat
    BY <1>1, <2>1, StoreRecordType
  <2>3. d[h].Height = HeightOf(h)
    BY <2>2
  <2>4. BlockInfoDB' = d
    BY <2>1
  <2> QED BY <2>2, <2>3, <2>4
<1>3. early \subseteq early'
  BY DEF NoteEarly
<1>4. HeightOf(h) <= Len(ChainOf[h]) /\ (Rooted(h)' => HeightOf(h) = Len(ChainOf[h]))
  <2>1. CASE h = Genesis
    <3>1. PreviousHash[h] \notin DOMAIN BlockInfoDB
      BY <1>1, <2>1, BlocksAssumption DEF TypeInv, InfoDB
    <3>2. HeightOf(h) = 0 + 1
      BY <3>1 DEF HeightOf, GetBlockRecord
    <3> QED BY <2>1, <3>2, ChainLengths
  <2>2. CASE h # Genesis /\ PreviousHash[h] \in DOMAIN BlockInfoDB
    <3>1. PICK p \in Hashes : p = PreviousHash[h]
      BY <2>2, BlocksAssumption
    <3>2. PICK b \in Nat, l \in Nat : b = BlockInfoDB[p].Height /\ l = Len(ChainOf[p])
      <4>1. BlockInfoDB[p] \in BlockRecords
        BY <1>1, <2>2, <3>1 DEF TypeInv, InfoDB
      <4> QED BY <4>1, ChainLengths DEF BlockRecords
    <3>3. HeightOf(h) = b + 1
      BY <2>2, <3>1, <3>2 DEF HeightOf, GetBlockRecord
    <3>4. Len(ChainOf[h]) = l + 1
      BY <2>2, <3>1, <3>2, ChainLengths
    <3>5. b <= l /\ (Rooted(p) => b = l)
      BY <2>2, <3>1, <3>2 DEF ChainInv, Heights
    <3>6. Rooted(h)' => Rooted(p)
      BY <1>3, <2>2, <3>1, RootedDown
    <3>7. b + 1 <= l + 1 /\ (Rooted(h)' => b + 1 = l + 1)
      BY <3>5, <3>6
    <3> QED BY <3>3, <3>4, <3>7
  <2>3. CASE h # Genesis /\ PreviousHash[h] \notin DOMAIN BlockInfoDB
    <3>1. HeightOf(h) = 0 + 1
      BY <2>3 DEF HeightOf, GetBlockRecord
    <3>2. Len(ChainOf[h]) \in Nat \ {0}
      BY ChainLengths
    <3>3. h \in early'
      BY <2>3 DEF NoteEarly
    <3>4. ~Rooted(h)'
      BY <3>3, ChainParts DEF Rooted
    <3> QED BY <3>1, <3>2, <3>4
  <2> QED BY <2>1, <2>2, <2>3
<1>5. ASSUME NEW g \in DOMAIN BlockInfoDB'
      PROVE  /\ BlockInfoDB'[g].Height <= Len(ChainOf[g])
             /\ Rooted(g)' => BlockInfoDB'[g].Height = Len(ChainOf[g])
  <2>1. CASE g = h
    BY <1>2, <1>4, <2>1
  <2>2. CASE g # h
    <3>1. g \in DOMAIN BlockInfoDB /\ g \in Hashes /\ BlockInfoDB'[g] = BlockInfoDB[g]
      BY <1>1, <1>2, <2>2 DEF TypeInv, InfoDB
    <3>2. Rooted(g)' => Rooted(g)
      BY <1>3, <3>1, RootedDown
    <3> QED BY <3>1, <3>2 DEF ChainInv, Heights
  <2> QED BY <2>1, <2>2
<1> QED BY <1>2, <1>4, <1>5

\* The chain starts with its genesis block.
LEMMA ChainInit ==
    ASSUME Init
    PROVE  ChainInv
<1>1. BlockInfoDB = [x \in {Genesis} |-> [Height |-> 1, Undo |-> <<>>]]
  BY DEF Init, PutInMap
<1>2. LastHash = Genesis /\ Length = 1
  BY DEF Init
<1>3. Heights
  <2>1. DOMAIN BlockInfoDB = {Genesis} /\ BlockInfoDB[Genesis].Height = 1
    BY <1>1
  <2>2. Len(ChainOf[Genesis]) = 1 /\ 1 <= 1
    BY ChainLengths
  <2>3. \A h \in DOMAIN BlockInfoDB :
           BlockInfoDB[h].Height <= Len(ChainOf[h]) /\ BlockInfoDB[h].Height = Len(ChainOf[h])
    BY <2>1, <2>2
  <2> QED BY <1>2, <2>2, <2>3 DEF Heights, ActiveChain
<1> QED BY <1>3, RecordInit DEF ChainInv

\* HandleBlock keeps the heights, and leaves a rooted chain for longer ones only.
LEMMA HandleBlockChain ==
    ASSUME ChainInv, NEW h \in Hashes, HandleBlock(h), NoteEarly(h)
    PROVE  /\ Heights'
           /\ LastHash' # LastHash /\ Rooted(LastHash) =>
                 Len(ChainOf[LastHash']) > Len(ChainOf[LastHash])
<1>1. TypeInv /\ LastHash \in Hashes /\ Length \in Nat
  BY DEF ChainInv, RecordInv, TypeInv
<1>2. early \subseteq early'
  BY DEF NoteEarly
<1>3. \A g \in Hashes : Rooted(g)' => Rooted(g)
  BY <1>2, RootedDown
<1>4. PICK l \in Nat : l = Len(ChainOf[LastHash])
  BY <1>1, ChainLengths
<1>5. Rooted(LastHash) => Length = l
  BY <1>4 DEF ChainInv, Heights, ActiveChain
<1>6. CASE RefuseBlock(h)
  <2>1. BlockInfoDB' = BlockInfoDB /\ LastHash' = LastHash /\ Length' = Length
    BY <1>6 DEF RefuseBlock, chainVars
  <2>2. \A g \in DOMAIN BlockInfoDB : Rooted(g)' => Rooted(g)
    BY <1>1, <1>3 DEF TypeInv, InfoDB
  <2>3. Rooted(LastHash)' => Rooted(LastHash)
    BY <1>1, <1>3, <2>1 DEF Rooted
  <2>4. \A g \in DOMAIN BlockInfoDB' :
                 /\ BlockInfoDB'[g].Height <= Len(ChainOf[g])
                 /\ Rooted(g)' => BlockInfoDB'[g].Height = Len(ChainOf[g])
    BY <2>1, <2>2 DEF ChainInv, Heights
  <2> QED BY <2>1, <2>3, <2>4 DEF ChainInv, Heights, ActiveChain
<1>7. CASE AppendBlock(h)
  <2>1. PreviousHash[h] = LastHash /\ LastHash' = h /\ Length' = Length + 1
        /\ BlockInfoDB' = StoreRecord(h)
    BY <1>7 DEF AppendBlock, appendsToActiveChain
  <2>2. h # Genesis
    BY <1>1, <2>1, BlocksAssumption
  <2>3. Len(ChainOf[h]) = l + 1
    BY <1>4, <2>1, <2>2, ChainLengths
  <2>4. Rooted(h)' => Length + 1 = l + 1
    <3>1. Rooted(h)' => Rooted(LastHash)
      BY <1>2, <2>1, <2>2, RootedDown
    <3> QED BY <1>1, <1>5, <3>1
  <2>5. (Rooted(LastHash) => Length = Len(ActiveChain))'
    BY <2>1, <2>3, <2>4 DEF ActiveChain, Rooted
  <2>6. l + 1 > l
    OBVIOUS
  <2> QED BY <1>4, <2>1, <2>3, <2>5, <2>6, HeightRight DEF Heights
<1>8. CASE KeepBlock(h) \/ InvalidFork(h) \/ handleForkPanics(h)
  <2>1. BlockInfoDB' = StoreRecord(h) /\ LastHash' = LastHash /\ Length' = Length
    BY <1>8 DEF KeepBlock, InvalidFork, handleForkPanics
  <2>2. Rooted(LastHash)' => Rooted(LastHash)
    BY <1>1, <1>3, <2>1 DEF Rooted
  <2>3. (Rooted(LastHash) => Length = Len(ActiveChain))'
    BY <2>1, <2>2 DEF ChainInv, Heights, ActiveChain
  <2> QED BY <2>1, <2>3, HeightRight DEF Heights
<1>9. CASE handleFork(h)
  <2>1. BlockInfoDB' = StoreRecord(h) /\ LastHash' = h /\ Length' = HeightOf(h)
    BY <1>1, <1>9, ForkTakes
  <2>2. /\ HeightOf(h) \in Nat /\ HeightOf(h) <= Len(ChainOf[h])
        /\ Rooted(h)' => HeightOf(h) = Len(ChainOf[h])
    BY <2>1, HeightRight
  <2>3. HeightOf(h) > Length
    BY <1>9 DEF handleFork, IsHigher
  <2>4. (Rooted(LastHash) => Length = Len(ActiveChain))'
    BY <2>1, <2>2 DEF ActiveChain, Rooted
  <2>5. ASSUME Rooted(LastHash) PROVE Len(ChainOf[h]) > Len(ChainOf[LastHash])
    <3>1. PICK m \in Nat : m = Len(ChainOf[h])
      BY ChainLengths
    <3>2. PICK k \in Nat : k = HeightOf(h)
      BY <2>2
    <3>3. k <= m /\ k > l
      BY <1>5, <2>2, <2>3, <2>5, <3>1, <3>2
    <3>4. m > l
      BY ONLY <1>4, <3>1, <3>2, <3>3
    <3> QED BY <1>4, <3>1, <3>4
  <2> QED BY <2>1, <2>4, <2>5, HeightRight DEF Heights
<1> QED BY <1>6, <1>7, <1>8, <1>9 DEF HandleBlock

\* Every step does.
LEMMA ChainStep ==
    ASSUME ChainInv, [Next]_vars
    PROVE  /\ ChainInv'
           /\ LastHash' # LastHash /\ Rooted(LastHash) =>
                 Len(ChainOf[LastHash']) > Len(ChainOf[LastHash])
<1>1. RecordInv'
  BY RecordStep DEF ChainInv
<1>2. ASSUME NEW h \in Hashes, ForwardBlock(h) \/ Bootstrap(h)
      PROVE  HandleBlock(h) /\ NoteEarly(h)
  BY <1>2 DEF ForwardBlock, Bootstrap
<1>3. ASSUME UNCHANGED <<Length, LastHash, BlockInfoDB, early>>
      PROVE  Heights' /\ LastHash' = LastHash
  BY <1>3 DEF ChainInv, Heights, ActiveChain, Rooted
<1>4. ASSUME NEW h \in Hashes, IgnoreBlock(h)
      PROVE  UNCHANGED <<Length, LastHash, BlockInfoDB, early>>
  BY <1>4 DEF IgnoreBlock, chainVars
<1>5. CASE GetBalance
  BY <1>1, <1>3, <1>5 DEF GetBalance, ChainInv
<1>6. CASE UNCHANGED vars
  BY <1>1, <1>3, <1>6 DEF vars, chainVars, ChainInv
<1> QED BY <1>1, <1>2, <1>3, <1>4, <1>5, <1>6, HandleBlockChain DEF Next, ChainInv

\* Walking back from LastHash by the records is walking down the active chain.
LEMMA WalkBack ==
    ASSUME ChainInv, Rooted(LastHash), NEW n \in Nat, n = Length
    PROVE  \A k \in 0..(n - 1) : /\ Back(BlockInfoDB, LastHash, k) = ActiveChain[n - k]
                                 /\ ActiveChain[n - k] \in DOMAIN BlockInfoDB
<1>1. PICK c, db, D : c = ActiveChain /\ db = BlockInfoDB /\ D = DOMAIN BlockInfoDB
  OBVIOUS
<1>2. D \subseteq Hashes /\ LastHash \in Hashes
  BY <1>1 DEF ChainInv, RecordInv, TypeInv, InfoDB
<1>3. /\ c \in Seq(Hashes) /\ Len(c) = n /\ n >= 1 /\ c[n] = LastHash
      /\ \A k \in 1..(n - 1) : PreviousHash[c[k + 1]] = c[k]
  BY <1>1, <1>2, ChainIsPath DEF ChainInv, Heights, ActiveChain, Path
<1>4. \A k \in 1..n : c[k] \in D
  BY <1>1, <1>3 DEF ChainInv, RecordInv, Anchored, ActiveChain, ToSet
<1>5. /\ Back(db, LastHash, 0) = LastHash
      /\ \A k \in Nat : Back(db, LastHash, k + 1) = RecordedParent(db, Back(db, LastHash, k))
  BY <1>1, <1>2, BackSteps
<1> DEFINE P == {k \in 0..(n - 1) : Back(db, LastHash, k) = c[n - k] /\ c[n - k] \in D}
<1>6. 0 \in P
  <2>1. n - 0 = n /\ 0 \in 0..(n - 1)
    BY <1>3
  <2>2. n \in 1..n
    BY <1>3
  <2> QED BY <1>1, <1>3, <1>4, <1>5, <2>1, <2>2
<1>7. ASSUME NEW k \in 1..(n - 1), k - 1 \in P PROVE k \in P
  <2>1. PICK j : j = n - k
    OBVIOUS
  <2>2. j \in 1..(n - 1) /\ n - (k - 1) = j + 1 /\ j + 1 \in 1..n /\ k - 1 \in Nat /\ (k - 1) + 1 = k
    BY <2>1
  <2>3. Back(db, LastHash, k - 1) = c[j + 1] /\ c[j + 1] \in D
    BY <1>7, <2>2
  <2>4. j \in 1..n
    BY <2>2
  <2>5. PreviousHash[c[j + 1]] = c[j]
    BY <1>3, <2>2
  <2>6. c[j] \in D
    BY <1>4, <2>4
  <2>7. Back(db, LastHash, k) = RecordedParent(db, c[j + 1])
    BY <1>5, <2>2, <2>3
  <2>8. Back(db, LastHash, k) = c[j]
    BY <1>1, <2>3, <2>5, <2>7 DEF RecordedParent
  <2> QED BY <2>1, <2>6, <2>8
<1>8. ASSUME NEW m \in 0..(n - 1) PROVE m \in P
  <2> DEFINE Q == {k \in 0..m : k \in P}
  <2>1. Q \in SUBSET (0..m) /\ 0 \in Q /\ m \in Nat
    BY <1>6
  <2>2. ASSUME NEW k \in 1..m, k - 1 \in Q PROVE k \in Q
    <3>1. k \in 1..(n - 1) /\ k - 1 \in P
      BY <2>2
    <3>2. k \in P
      BY <1>7, <3>1
    <3> QED BY <3>2
  <2> HIDE DEF Q
  <2>3. m \in Q
    BY <2>1, <2>2, Outs!CountingUp, Induct
  <2> QED BY <2>3 DEF Q
<1> QED BY <1>1, <1>8

\* What a peer is sent.
LEMMA CatchUp ==
    ASSUME ChainInv
    PROVE  PeersCatchUp
<1> SUFFICES ASSUME Rooted(LastHash) PROVE PeersCatchUp
  BY DEF PeersCatchUp
<1>1. PICK c, n : c = ActiveChain /\ n = Length
  OBVIOUS
<1>2. LastHash \in Hashes /\ n \in Nat
  BY <1>1 DEF ChainInv, RecordInv, TypeInv
<1>3. c \in Seq(Hashes) /\ Len(c) = n /\ n >= 1 /\ DOMAIN c = 1..n
  BY <1>1, <1>2, ChainLengths DEF ChainInv, Heights, ActiveChain
<1>4. \A k \in 0..(n - 1) : /\ Back(BlockInfoDB, LastHash, k) = c[n - k]
                            /\ c[n - k] \in DOMAIN BlockInfoDB
  BY <1>1, <1>2, WalkBack
<1>5. ASSUME NEW i \in 1..n
      PROVE  GetBlocksRPC(c[i]) = SubSeq(c, i + 1, IF i + MaxHeaders < n THEN i + MaxHeaders ELSE n)
  <2>1. c[i] \in DOMAIN BlockInfoDB
    <3>1. n - i \in 0..(n - 1) /\ n - (n - i) = i
      BY <1>2
    <3> QED BY <1>4, <3>1
  <2>2. GetBlockRecord(BlockInfoDB, c[i]).Height = i
    <3>1. Len(ChainOf[c[i]]) = i
      BY <1>1, <1>2, <1>3, ChainBelow DEF ActiveChain
    <3>2. c[i] \in ToSet(ChainOf[LastHash])
      BY <1>1, <1>3 DEF ActiveChain, ToSet
    <3>3. Rooted(c[i])
      BY <1>2, <3>2, ChainParts DEF Rooted
    <3> QED BY <2>1, <3>1, <3>3 DEF GetBlockRecord, ChainInv, Heights
  <2>3. PICK u : u = IF i + MaxHeaders < n THEN i + MaxHeaders ELSE n
    OBVIOUS
  <2>4. u \in i..n /\ (i < n => u > i)
    BY <1>2, <2>3, ChainAssumption
  <2>5. GetBlocksRPC(c[i]) = IF i < n THEN GetHashes(i + 1, u) ELSE <<>>
    BY <1>1, <2>2, <2>3 DEF GetBlocksRPC
  <2>6. CASE ~(i < n)
    <3>1. i = n /\ u = n
      BY <1>2, <2>4, <2>6
    <3>2. SubSeq(c, n + 1, n) = <<>>
      BY <1>2, <1>3
    <3> QED BY <2>3, <2>5, <2>6, <3>1, <3>2
  <2>7. CASE i < n
    <3>1. PICK m \in Nat : m = u - i
      BY <2>4
    <3>2. PICK b : b = [j \in 1..m |-> Back(BlockInfoDB, LastHash, n - u + j - 1)]
      OBVIOUS
    <3>3. (IF u < n THEN u ELSE n) = u /\ u - (i + 1) + 1 = m
      BY <1>2, <2>4, <3>1, <2>3, ChainAssumption
    <3>4. GetHashes(i + 1, u) = Reverse(b)
      BY <1>1, <3>2, <3>3 DEF GetHashes
    <3>5. Len(b) = m
      BY <3>2
    <3>6. Reverse(b) = [j \in 1..m |-> b[(m - j) + 1]]
      BY <3>5 DEF Reverse
    <3>7. ASSUME NEW j \in 1..m PROVE b[(m - j) + 1] = c[i + j]
      <4>1. (m - j) + 1 \in 1..m
        OBVIOUS
      <4>2. PICK k : k = n - u + ((m - j) + 1) - 1
        OBVIOUS
      <4>3. k \in 0..(n - 1) /\ n - k = i + j
        BY <1>2, <2>4, <3>1, <4>2
      <4>4. b[(m - j) + 1] = Back(BlockInfoDB, LastHash, k)
        BY <3>2, <4>1, <4>2
      <4> QED BY <1>4, <4>3, <4>4
    <3>8. Reverse(b) = [j \in 1..m |-> c[i + j]]
      BY <3>6, <3>7
    <3>9. SubSeq(c, i + 1, u) = [j \in 1..m |-> c[i + j]]
      <4>1. SubSeq(c, i + 1, u) = [j \in 1..(u - (i + 1) + 1) |-> c[(i + 1) + j - 1]]
        BY <1>3, <2>4
      <4>2. \A j \in 1..m : (i + 1) + j - 1 = i + j
        OBVIOUS
      <4> QED BY <3>3, <4>1, <4>2
    <3> QED BY <2>3, <2>5, <2>7, <3>4, <3>8, <3>9
  <2> QED BY <2>6, <2>7
<1> QED BY <1>1, <1>3, <1>5 DEF PeersCatchUp

\* A peer whose top block is on the active chain is sent what follows it, in
\* order and without a gap, whatever forks were adopted, refused or repeated in
\* between and whatever came early to other chains, as long as no block of the
\* active chain itself came before its parent.
THEOREM PeersAreServed == Spec => []PeersCatchUp
<1>1. Init => ChainInv
  BY ChainInit
<1>2. ChainInv /\ [Next]_vars => ChainInv'
  BY ChainStep
<1>3. ChainInv => PeersCatchUp
  BY CatchUp
<1> QED BY <1>1, <1>2, <1>3, PTL DEF Spec

\* An active chain none of whose blocks came early is only given up for one that
\* is longer, counted in blocks and not by the records.
THEOREM LongerChainsOnly == Spec => OnlyForLonger
<1>1. Init => ChainInv
  BY ChainInit
<1>2. ChainInv /\ [Next]_vars => ChainInv'
  BY ChainStep
<1>3. ChainInv /\ [Next]_vars =>
         [LastHash' # LastHash /\ Rooted(LastHash) =>
            Len(ChainOf[LastHash']) > Len(ChainOf[LastHash])]_vars
  BY ChainStep
<1> QED BY <1>1, <1>2, <1>3, PTL DEF Spec, OnlyForLonger

-----------------------------------------------------------------------------
(* The coins while a block is stored                                       *)

\* The record of its transaction has the coin.
Listed(c, cl) == \E e \in ToSet(RecordOf(c, cl[1])) : e.index = cl[2]

\* The unspent coins are those of U, and each of them is in its record except
\* perhaps those of P, whose transactions are still to be stored in the db.
Stage(c, U, P) ==
    /\ c \in CoinDBs
    /\ Live(c) = U
    /\ OwnRecords(c)
    /\ \A cl \in U \ P : Listed(c, cl)

\* A coin is the pair of its parts.
LEMMA CoinParts ==
    ASSUME NEW cl \in Coins
    PROVE  cl[1] \in DOMAIN Inputs /\ cl[2] \in 0..(Outputs[cl[1]] - 1) /\ cl = <<cl[1], cl[2]>>
<1>1. PICK tx \in DOMAIN Inputs : \E i \in 0..(Outputs[tx] - 1) : cl = <<tx, i>>
  BY CoinsAre
<1>2. PICK i \in 0..(Outputs[tx] - 1) : cl = <<tx, i>>
  BY <1>1
<1> QED BY <1>2

\* The unspent coins are in the cache, and are coins.
LEMMA LiveCoins ==
    ASSUME NEW c \in CoinDBs
    PROVE  Live(c) \subseteq Coins /\ Live(c) \subseteq DOMAIN c.mainCache
BY CoinDBIs, CacheIs DEF Live

\* A coin passes validation if and only if it is unspent in the cache.
LEMMA UnspentIsLive ==
    ASSUME NEW c \in CoinDBs, OwnRecords(c), NEW cl \in (DOMAIN Inputs) \X Nat
    PROVE  IsUnspent(c, cl) <=> cl \in Live(c)
<1>1. CASE cl \in DOMAIN c.mainCache
  BY <1>1 DEF IsUnspent, Live
<1>2. CASE cl \notin DOMAIN c.mainCache
  <2>1. cl \notin Live(c)
    BY <1>2 DEF Live
  <2>2. ASSUME IsUnspent(c, cl) PROVE FALSE
    <3>1. PICK tx \in DOMAIN Inputs, i \in Nat : cl = <<tx, i>>
      OBVIOUS
    <3>2. PICK cr : cr = RecordOf(c, tx)
      OBVIOUS
    <3>3. cr \in CoinRecords
      BY <3>2, RecordOfType
    <3>4. PICK k : k = indexOf(cr, i)
      OBVIOUS
    <3>5. k > 0
      BY <1>2, <2>2, <3>1, <3>2, <3>4 DEF IsUnspent
    <3>6. k \in 0..Len(cr) /\ cr[k].index = i
      BY <3>3, <3>4, <3>5, IndexFound
    <3>7. cr[k] \in ToSet(cr)
      <4>1. PICK n \in Nat : n = Len(cr) /\ DOMAIN cr = 1..n
        BY <3>3 DEF CoinRecords
      <4>2. k \in 1..n
        BY <3>5, <3>6, <4>1
      <4> QED BY <4>1, <4>2 DEF ToSet
    <3>8. cr[k].coin = <<tx, cr[k].index>> /\ cr[k].coin \in DOMAIN c.mainCache
      BY <3>2, <3>7 DEF OwnRecords
    <3> QED BY <1>2, <3>1, <3>6, <3>8
  <2> QED BY <2>1, <2>2
<1> QED BY <1>1, <1>2

\* A flush changes nothing of this.
LEMMA StageFlush ==
    ASSUME NEW c, NEW U, NEW P, Stage(c, U, P)
    PROVE  Stage(FlushMainCache(c), U, P)
<1>1. PICK f : f = FlushMainCache(c)
  OBVIOUS
<1>2. c \in CoinDBs /\ OwnRecords(c) /\ Live(c) = U
  BY DEF Stage
<1>3. f \in CoinDBs /\ Live(f) = U
  BY <1>1, <1>2, FlushIs
<1>4. OwnRecords(f)
  BY <1>1, <1>2, FlushKeeps
<1>5. ASSUME NEW cl \in U \ P PROVE Listed(f, cl)
  <2>1. cl[1] \in DOMAIN Inputs /\ cl = <<cl[1], cl[2]>>
    BY <1>2, LiveCoins, CoinParts
  <2>2. PICK e \in ToSet(RecordOf(c, cl[1])) : e.index = cl[2]
    BY DEF Stage, Listed
  <2>3. cl \notin Spent(c)
    BY <1>2 DEF Live, Spent
  <2>4. <<cl[1], e.index>> \notin Spent(c)
    BY <2>1, <2>2, <2>3
  <2>5. e \in ToSet(RecordOf(f, cl[1]))
    BY <1>1, <1>2, <2>1, <2>4, FlushKeeps
  <2> QED BY <2>2, <2>5 DEF Listed
<1> QED BY <1>1, <1>3, <1>4, <1>5 DEF Stage

\* An output that enters the cache is unspent, and not yet in a record.
LEMMA StageStoreCoin ==
    ASSUME NEW c, NEW U, NEW P, Stage(c, U, P), NEW cl \in Coins
    PROVE  Stage(StoreCoin(c, cl), U \cup {cl}, P \cup {cl})
<1>1. PICK r : r = StoreCoin(c, cl)
  OBVIOUS
<1>2. PICK b \in {c, FlushMainCache(c)} :
         r \in CoinDBs /\ r.mainCache = PutInMap(b.mainCache, cl, FALSE) /\ r.db = b.db
  BY <1>1, StoreCoinIs DEF Stage
<1>3. Stage(b, U, P)
  BY <1>2, StageFlush
<1>4. b.mainCache \in Caches
  BY <1>3, CoinDBIs DEF Stage
<1>5. /\ DOMAIN r.mainCache = DOMAIN b.mainCache \cup {cl} /\ r.mainCache[cl] = FALSE
      /\ \A x \in DOMAIN b.mainCache : x # cl => r.mainCache[x] = b.mainCache[x]
  <2>1. PICK m, q : m = b.mainCache /\ q = PutInMap(m, cl, FALSE)
    OBVIOUS
  <2>2. m \in Caches /\ r.mainCache = q
    BY <1>2, <1>4, <2>1
  <2>3. /\ DOMAIN q = DOMAIN m \cup {cl} /\ q[cl] = FALSE
        /\ \A x \in DOMAIN m : x # cl => q[x] = m[x]
    BY <2>1 DEF PutInMap
  <2> QED BY <2>1, <2>2, <2>3
<1>6. Live(r) = U \cup {cl}
  BY <1>3, <1>5 DEF Stage, Live
<1>7. \A tx : RecordOf(r, tx) = RecordOf(b, tx)
  BY <1>2 DEF RecordOf
<1>8. OwnRecords(r)
  BY <1>3, <1>5, <1>7 DEF Stage, OwnRecords
<1>9. \A x \in (U \cup {cl}) \ (P \cup {cl}) : Listed(r, x)
  BY <1>3, <1>7 DEF Stage, Listed
<1> QED BY <1>1, <1>2, <1>6, <1>8, <1>9 DEF Stage

\* All outputs of a block enter the cache.
LEMMA StageStoreInCache ==
    ASSUME NEW c, NEW U, Stage(c, U, {}), NEW outs \in Seq(Coins)
    PROVE  Stage(CoinStores!Fold(c, outs), U \cup ToSet(outs), ToSet(outs))
<1>1. PICK n \in Nat : n = Len(outs) /\ DOMAIN outs = 1..n
  OBVIOUS
<1> DEFINE O(k) == {outs[j] : j \in 1..k}
           J(k) == {a \in CoinDBs : Stage(a, U \cup O(k), O(k))}
<1>2. PICK I : I = [k \in 0..n |-> J(k)]
  OBVIOUS
<1>3. c \in I[0]
  <2>1. O(0) = {} /\ c \in CoinDBs
    BY DEF Stage
  <2>2. U \cup O(0) = U
    BY <2>1
  <2>3. c \in J(0)
    BY <2>1, <2>2
  <2> QED BY <1>2, <2>3
<1>4. ASSUME NEW k \in 1..Len(outs), NEW a \in I[k - 1]
      PROVE  StoreCoin(a, outs[k]) \in I[k]
  <2>1. k - 1 \in 0..n /\ k \in 0..n /\ outs[k] \in Coins
    BY <1>1
  <2>2. a \in J(k - 1) /\ I[k] = J(k)
    BY <1>2, <2>1
  <2>3. O(k) = O(k - 1) \cup {outs[k]}
    <3>1. 1..k = 1..(k - 1) \cup {k}
      BY <1>1
    <3> QED BY <3>1
  <2>4. PICK V, Q : V = U \cup O(k - 1) /\ Q = O(k - 1)
    OBVIOUS
  <2>5. Stage(a, V, Q)
    BY <2>2, <2>4
  <2>6. Stage(StoreCoin(a, outs[k]), V \cup {outs[k]}, Q \cup {outs[k]})
    BY <2>1, <2>5, StageStoreCoin
  <2>7. V \cup {outs[k]} = U \cup O(k) /\ Q \cup {outs[k]} = O(k)
    BY <2>3, <2>4
  <2>8. Stage(StoreCoin(a, outs[k]), U \cup O(k), O(k))
    BY <2>6, <2>7
  <2> QED BY <2>2, <2>8 DEF Stage
<1>5. CoinStores!Fold(c, outs) \in I[Len(outs)]
  BY <1>3, <1>4, CoinStores!FoldSteps, Induct
<1>6. O(n) = ToSet(outs)
  BY <1>1 DEF ToSet
<1>7. CoinStores!Fold(c, outs) \in J(n)
  BY <1>1, <1>2, <1>5
<1> QED BY <1>6, <1>7

\* The record of a transaction whose outputs are all in the cache, unspent.
LEMMA StageStoreInDB ==
    ASSUME NEW c, NEW U, NEW P, Stage(c, U, P), NEW tx \in DOMAIN Inputs,
           ToSet(TransactionOutputs(tx)) \subseteq U
    PROVE  Stage(StoreInDB(c, tx), U, P \ ToSet(TransactionOutputs(tx)))
<1>1. PICK r, cr, o : r = StoreInDB(c, tx) /\ cr = createCoinRecord(tx)
                      /\ o = ToSet(TransactionOutputs(tx))
  OBVIOUS
<1>2. c \in CoinDBs /\ cr \in CoinRecords
  BY <1>1, NewRecord DEF Stage
<1>3. r \in CoinDBs
  BY <1>1, <1>2, PutDBType DEF StoreInDB
<1>4. r.mainCache = c.mainCache /\ r.db = PutInMap(c.db, tx, cr)
  <2>1. PICK m, k, d : c = [mainCache |-> m, mainCacheSize |-> k, db |-> d]
    BY <1>2, CoinDBIs
  <2> QED BY <1>1, <2>1 DEF StoreInDB, putRecordInDB
<1>5. RecordOf(r, tx) = cr /\ \A x : x # tx => RecordOf(r, x) = RecordOf(c, x)
  <2>1. PICK d, q : d = c.db /\ q = PutInMap(d, tx, cr)
    OBVIOUS
  <2>2. d \in Records /\ r.db = q
    BY <1>2, <1>4, <2>1, CoinDBIs
  <2>3. /\ DOMAIN q = DOMAIN d \cup {tx} /\ q[tx] = cr
        /\ \A x \in DOMAIN d : x # tx => q[x] = d[x]
    BY <2>1 DEF PutInMap
  <2> QED BY <2>1, <2>2, <2>3 DEF RecordOf
<1>6. Live(r) = U
  BY <1>4 DEF Stage, Live
<1>7. /\ Distinct(cr)
      /\ \A e : e \in ToSet(cr) <=> \E i \in 0..(Outputs[tx] - 1) : e = [index |-> i, coin |-> <<tx, i>>]
  BY <1>1, NewRecord
<1>8. \A x : x \in o <=> \E i \in 0..(Outputs[tx] - 1) : x = <<tx, i>>
  BY <1>1, CoinsAre
<1>9. ASSUME NEW e \in ToSet(cr)
      PROVE  e.coin = <<tx, e.index>> /\ e.coin \in DOMAIN r.mainCache
  <2>1. PICK i \in 0..(Outputs[tx] - 1) : e = [index |-> i, coin |-> <<tx, i>>]
    BY <1>7
  <2>2. <<tx, i>> \in U
    BY <1>1, <1>8
  <2> QED BY <1>3, <1>6, <2>1, <2>2, LiveCoins
<1>10. OwnRecords(r)
  <2>1. ASSUME NEW x \in DOMAIN Inputs
        PROVE  /\ Distinct(RecordOf(r, x))
               /\ \A e \in ToSet(RecordOf(r, x)) :
                     e.coin = <<x, e.index>> /\ e.coin \in DOMAIN r.mainCache
    <3>1. CASE x = tx
      BY <1>5, <1>7, <1>9, <3>1
    <3>2. CASE x # tx
      BY <1>4, <1>5, <3>2 DEF Stage, OwnRecords
    <3> QED BY <3>1, <3>2
  <2> QED BY <2>1 DEF OwnRecords
<1>11. ASSUME NEW cl \in U \ (P \ o) PROVE Listed(r, cl)
  <2>1. /\ cl[1] \in DOMAIN Inputs /\ cl[2] \in 0..(Outputs[cl[1]] - 1)
        /\ cl = <<cl[1], cl[2]>>
    BY <1>3, <1>6, LiveCoins, CoinParts
  <2>2. CASE cl[1] = tx
    <3>1. PICK e : e = [index |-> cl[2], coin |-> <<tx, cl[2]>>]
      OBVIOUS
    <3>2. e \in ToSet(cr) /\ e.index = cl[2]
      BY <1>7, <2>1, <2>2, <3>1
    <3> QED BY <1>5, <2>2, <3>2 DEF Listed
  <2>3. CASE cl[1] # tx
    <3>1. cl \notin o
      BY <1>8, <2>1, <2>3
    <3>2. Listed(c, cl)
      BY <3>1 DEF Stage
    <3> QED BY <1>5, <2>3, <3>2 DEF Listed
  <2> QED BY <2>2, <2>3
<1> QED BY <1>1, <1>3, <1>6, <1>10, <1>11 DEF Stage

\* The records of all transactions of a block.
LEMMA StageStoreRecords ==
    ASSUME NEW c, NEW U, NEW txs \in Seq(DOMAIN Inputs),
           Stage(c, U, ToSet(OutputsOf(txs))), ToSet(OutputsOf(txs)) \subseteq U
    PROVE  Stage(RecordStores!Fold(c, txs), U, {})
<1>1. PICK n \in Nat : n = Len(txs) /\ DOMAIN txs = 1..n
  OBVIOUS
<1>2. PICK T, B : T = DOMAIN Inputs /\ B = ToSet(OutputsOf(txs))
  OBVIOUS
<1>3. txs \in Seq(T) /\ Stage(c, U, B) /\ B \subseteq U
  BY <1>2
<1>4. \A cl : cl \in B <=> \E j \in 1..n : cl \in ToSet(TransactionOutputs(txs[j]))
  BY <1>1, <1>2, OutputsAre
<1> DEFINE Q(k) == {cl \in B : \A j \in 1..k : cl \notin ToSet(TransactionOutputs(txs[j]))}
           J(k) == {a \in CoinDBs : Stage(a, U, Q(k))}
<1>5. PICK I : I = [k \in 0..n |-> J(k)]
  OBVIOUS
<1>6. c \in I[0]
  <2>1. Q(0) = B /\ c \in CoinDBs
    BY <1>3 DEF Stage
  <2>2. c \in J(0)
    BY <1>3, <2>1
  <2> QED BY <1>5, <2>2
<1>7. ASSUME NEW k \in 1..Len(txs), NEW a \in I[k - 1]
      PROVE  StoreInDB(a, txs[k]) \in I[k]
  <2>1. k - 1 \in 0..n /\ k \in 0..n /\ k \in 1..n /\ txs[k] \in T
    BY <1>1, <1>3
  <2>2. a \in J(k - 1) /\ I[k] = J(k)
    BY <1>5, <2>1
  <2>3. PICK tx, o, R : tx = txs[k] /\ o = ToSet(TransactionOutputs(tx)) /\ R = Q(k - 1)
    OBVIOUS
  <2>4. o \subseteq U
    BY <1>3, <1>4, <2>1, <2>3
  <2>5. Stage(a, U, R)
    BY <2>2, <2>3
  <2>6. Stage(StoreInDB(a, tx), U, R \ o)
    BY <1>2, <2>1, <2>3, <2>4, <2>5, StageStoreInDB
  <2>7. R \ o = Q(k)
    <3>1. 1..k = 1..(k - 1) \cup {k}
      BY <2>1
    <3> QED BY <2>3, <3>1
  <2>8. Stage(StoreInDB(a, txs[k]), U, Q(k))
    BY <2>3, <2>6, <2>7
  <2> QED BY <2>2, <2>8 DEF Stage
<1>8. RecordStores!Fold(c, txs) \in I[Len(txs)]
  BY <1>3, <1>6, <1>7, RecordStores!FoldSteps, Induct
<1>9. Q(n) = {}
  BY <1>4
<1>10. RecordStores!Fold(c, txs) \in J(n)
  BY <1>1, <1>5, <1>8
<1> QED BY <1>9, <1>10

\* b is c with the coins of X marked spent.
Marked(b, c, X) ==
    /\ b \in CoinDBs
    /\ b.db = c.db
    /\ DOMAIN b.mainCache = DOMAIN c.mainCache
    /\ Live(b) = Live(c) \ X

\* A coin that is in the cache is marked there.
LEMMA MarkedCoin ==
    ASSUME NEW c, NEW b, NEW X, Marked(b, c, X), NEW tx \in DOMAIN Inputs,
           NEW cl \in DOMAIN c.mainCache
    PROVE  Marked(SpendCoin(b, tx, cl), c, X \cup {cl})
<1>1. PICK r : r = SpendCoin(b, tx, cl)
  OBVIOUS
<1>2. b \in CoinDBs /\ cl \in DOMAIN b.mainCache
  BY DEF Marked
<1>3. r \in CoinDBs
  BY <1>1, <1>2, SpendCoinType
<1>4. PICK m, k, d : b = [mainCache |-> m, mainCacheSize |-> k, db |-> d]
  BY <1>2, CoinDBIs
<1>5. r = [mainCache |-> [m EXCEPT ![cl] = TRUE], mainCacheSize |-> k, db |-> d]
  BY <1>1, <1>2, <1>4 DEF SpendCoin
<1>6. b.mainCache = m /\ b.db = d
  BY <1>4
<1>7. PICK q : q = [m EXCEPT ![cl] = TRUE]
  OBVIOUS
<1>8. r.mainCache = q /\ r.db = d
  BY <1>5, <1>7
<1>9. /\ DOMAIN q = DOMAIN m /\ q[cl] = TRUE
      /\ \A x \in DOMAIN m : x # cl => q[x] = m[x]
  <2>1. m \in [DOMAIN m -> BOOLEAN] /\ cl \in DOMAIN m
    BY <1>2, <1>6, CoinDBIs, CacheIs
  <2> QED BY <1>7, <2>1
<1>10. Live(r) = Live(b) \ {cl}
  BY <1>6, <1>8, <1>9 DEF Live
<1> QED BY <1>1, <1>3, <1>6, <1>8, <1>9, <1>10 DEF Marked

\* So are all inputs of a transaction, and of a block.
LEMMA MarkedInputs ==
    ASSUME NEW c, NEW b, NEW X, Marked(b, c, X), NEW tx \in DOMAIN Inputs,
           ToSet(Inputs[tx]) \subseteq DOMAIN c.mainCache
    PROVE  Marked(SpendInputs(b, tx), c, X \cup ToSet(Inputs[tx]))
<1>1. PICK s, C : s = Inputs[tx] /\ C = (DOMAIN Inputs) \X Nat
  OBVIOUS
<1>2. s \in Seq(C) /\ ToSet(s) \subseteq DOMAIN c.mainCache
  BY <1>1, BlocksAssumption
<1>3. PICK n \in Nat : n = Len(s) /\ DOMAIN s = 1..n
  BY <1>2
<1> DEFINE O(k) == {s[j] : j \in 1..k}
           J(k) == {a \in [coinDB : CoinDBs, tx : {tx}] : Marked(a.coinDB, c, X \cup O(k))}
<1>4. PICK I : I = [k \in 0..n |-> J(k)]
  OBVIOUS
<1>5. PICK base : base = [coinDB |-> b, tx |-> tx]
  OBVIOUS
<1>6. base \in I[0]
  <2>1. O(0) = {} /\ X \cup O(0) = X /\ b \in CoinDBs
    BY DEF Marked
  <2>2. base \in [coinDB : CoinDBs, tx : {tx}] /\ base.coinDB = b
    BY <1>5, <2>1
  <2>3. base \in J(0)
    BY <2>1, <2>2
  <2> QED BY <1>4, <2>3
<1>7. ASSUME NEW k \in 1..Len(s), NEW a \in I[k - 1]
      PROVE  SpendInput(a, s[k]) \in I[k]
  <2>1. k - 1 \in 0..n /\ k \in 0..n /\ k \in 1..n
    BY <1>3
  <2>2. a \in J(k - 1) /\ I[k] = J(k)
    BY <1>4, <2>1
  <2>3. PICK cl, d, Y : cl = s[k] /\ d = a.coinDB /\ Y = X \cup O(k - 1)
    OBVIOUS
  <2>4. cl \in DOMAIN c.mainCache
    BY <1>2, <1>3, <2>1, <2>3 DEF ToSet
  <2>5. a = [coinDB |-> d, tx |-> tx] /\ Marked(d, c, Y)
    BY <2>2, <2>3
  <2>6. SpendInput(a, cl) = [coinDB |-> SpendCoin(d, tx, cl), tx |-> tx]
    BY <2>5 DEF SpendInput
  <2>7. Marked(SpendCoin(d, tx, cl), c, Y \cup {cl})
    BY <2>4, <2>5, MarkedCoin
  <2>8. Y \cup {cl} = X \cup O(k)
    <3>1. 1..k = 1..(k - 1) \cup {k}
      BY <2>1
    <3> QED BY <2>3, <3>1
  <2>9. PICK r : r = SpendInput(a, cl)
    OBVIOUS
  <2>10. r \in [coinDB : CoinDBs, tx : {tx}] /\ Marked(r.coinDB, c, X \cup O(k))
    BY <2>6, <2>7, <2>8, <2>9 DEF Marked
  <2>11. r \in J(k)
    BY <2>10
  <2> QED BY <2>2, <2>3, <2>9, <2>11
<1>8. Marks!Fold(base, s) \in I[Len(s)]
  BY <1>2, <1>6, <1>7, Marks!FoldSteps, Induct
<1>9. SpendInputs(b, tx) = Marks!Fold(base, s).coinDB
  BY <1>1, <1>5 DEF SpendInputs, Marks!Fold, Marks!At, Marks!Steps, Marks!Greatest,
                    FoldLeft, MapThenFoldSet, Max
<1>10. Marks!Fold(base, s) \in J(n)
  BY <1>3, <1>4, <1>8
<1>11. O(n) = ToSet(s)
  BY <1>3 DEF ToSet
<1>12. Marked(Marks!Fold(base, s).coinDB, c, X \cup ToSet(s))
  BY <1>10, <1>11
<1> QED BY <1>1, <1>9, <1>12

\* So are the inputs of all transactions of a block.
LEMMA MarkedBlock ==
    ASSUME NEW c \in CoinDBs, NEW txs \in Seq(DOMAIN Inputs),
           ToSet(InputsOf(txs)) \subseteq DOMAIN c.mainCache
    PROVE  Marked(updateSpentCoins(c, txs), c, ToSet(InputsOf(txs)))
<1>1. PICK n \in Nat : n = Len(txs) /\ DOMAIN txs = 1..n
  OBVIOUS
<1>2. PICK T, B : T = DOMAIN Inputs /\ B = ToSet(InputsOf(txs))
  OBVIOUS
<1>3. txs \in Seq(T) /\ B \subseteq DOMAIN c.mainCache
  BY <1>2
<1>4. \A cl : cl \in B <=> \E j \in 1..n : cl \in ToSet(Inputs[txs[j]])
  BY <1>1, <1>2, InputsAre
<1> DEFINE Q(k) == {cl \in B : \E j \in 1..k : cl \in ToSet(Inputs[txs[j]])}
           J(k) == {a \in CoinDBs : Marked(a, c, Q(k))}
<1>5. PICK I : I = [k \in 0..n |-> J(k)]
  OBVIOUS
<1>6. c \in I[0]
  <2>1. Q(0) = {}
    OBVIOUS
  <2>2. Marked(c, c, {})
    BY DEF Marked
  <2>3. c \in J(0)
    BY <2>1, <2>2
  <2> QED BY <1>5, <2>3
<1>7. ASSUME NEW k \in 1..Len(txs), NEW a \in I[k - 1]
      PROVE  SpendInputs(a, txs[k]) \in I[k]
  <2>1. k - 1 \in 0..n /\ k \in 0..n /\ k \in 1..n /\ txs[k] \in T
    BY <1>1, <1>3
  <2>2. a \in J(k - 1) /\ I[k] = J(k)
    BY <1>5, <2>1
  <2>3. PICK tx, o, R : tx = txs[k] /\ o = ToSet(Inputs[tx]) /\ R = Q(k - 1)
    OBVIOUS
  <2>4. o \subseteq DOMAIN c.mainCache
    BY <1>3, <1>4, <2>1, <2>3
  <2>5. Marked(a, c, R)
    BY <2>2, <2>3
  <2>6. Marked(SpendInputs(a, tx), c, R \cup o)
    BY <1>2, <2>1, <2>3, <2>4, <2>5, MarkedInputs
  <2>7. R \cup o = Q(k)
    <3>1. 1..k = 1..(k - 1) \cup {k}
      BY <2>1
    <3> QED BY <1>4, <2>1, <2>3, <3>1
  <2>8. Marked(SpendInputs(a, txs[k]), c, Q(k))
    BY <2>3, <2>6, <2>7
  <2> QED BY <2>2, <2>8 DEF Marked
<1>8. BlockMarks!Fold(c, txs) \in I[Len(txs)]
  BY <1>3, <1>6, <1>7, BlockMarks!FoldSteps, Induct
<1>9. Q(n) = B
  BY <1>4
<1>10. BlockMarks!Fold(c, txs) \in J(n)
  BY <1>1, <1>5, <1>8
<1>11. updateSpentCoins(c, txs) = BlockMarks!Fold(c, txs)
  BY DEF updateSpentCoins, BlockMarks!Fold, BlockMarks!At, BlockMarks!Steps,
         BlockMarks!Greatest, FoldLeft, MapThenFoldSet, Max
<1> QED BY <1>2, <1>9, <1>10, <1>11

\* Storing a block whose inputs are unspent: they are spent after it and its
\* outputs are unspent, in the cache and in the records, however often the
\* cache is flushed on the way.
LEMMA StageStoreBlock ==
    ASSUME NEW c, NEW U, Stage(c, U, {}), NEW txs \in Seq(DOMAIN Inputs),
           ToSet(InputsOf(txs)) \subseteq U
    PROVE  Stage(StoreBlock(c, txs),
                 (U \ ToSet(InputsOf(txs))) \cup ToSet(OutputsOf(txs)), {})
<1>1. PICK X, B, b : /\ X = ToSet(InputsOf(txs)) /\ B = ToSet(OutputsOf(txs))
                     /\ b = updateSpentCoins(c, txs)
  OBVIOUS
<1>2. c \in CoinDBs /\ Live(c) = U /\ OwnRecords(c) /\ \A cl \in U : Listed(c, cl)
  BY DEF Stage
<1>3. Marked(b, c, X)
  BY <1>1, <1>2, LiveCoins, MarkedBlock
<1>4. Stage(b, U \ X, {})
  <2>1. \A tx : RecordOf(b, tx) = RecordOf(c, tx)
    BY <1>3 DEF Marked, RecordOf
  <2>2. OwnRecords(b)
    BY <1>2, <1>3, <2>1 DEF Marked, OwnRecords
  <2>3. \A cl \in U \ X : Listed(b, cl)
    BY <1>2, <2>1 DEF Listed
  <2> QED BY <1>2, <1>3, <2>2, <2>3 DEF Marked, Stage
<1>5. OutputsOf(txs) \in Seq(Coins)
  BY OutputsAre
<1>6. PICK f, V : f = CoinStores!Fold(b, OutputsOf(txs)) /\ V = (U \ X) \cup B
  OBVIOUS
<1>7. Stage(f, V, B)
  BY <1>1, <1>4, <1>5, <1>6, StageStoreInCache
<1>8. Stage(RecordStores!Fold(f, txs), V, {})
  BY <1>1, <1>6, <1>7, StageStoreRecords
<1> QED BY <1>1, <1>6, <1>8, StoreBlockIs

-----------------------------------------------------------------------------
(* The chain up to its first fork                                          *)

\* No fork is adopted: LastHash moves to a child of the block it names.  After
\* a fork the coins are not those of the active chain, so that what follows
\* is promised no further.
Extends == LastHash' # LastHash => PreviousHash[LastHash'] = LastHash
OnlyExtends == [][Extends]_vars

\* Every block has at most one child: there is a single branch.
SingleBranch == \A g, h \in Hashes : PreviousHash[g] = PreviousHash[h] => g = h

\* On a single branch only blocks of the active chain are stored.
LineInv == ChainInv /\ early = {} /\ \A h \in DOMAIN BlockInfoDB : h \in ToSet(ActiveChain)

\* Then the heights are right.
LEMMA LineHeights ==
    ASSUME LineInv
    PROVE  TypeInv /\ Length = Len(ActiveChain) /\ Genesis \in DOMAIN BlockInfoDB
<1>1. TypeInv /\ LastHash \in Anchored(BlockInfoDB)
  BY DEF LineInv, ChainInv, RecordInv
<1>2. Rooted(LastHash)
  BY DEF LineInv, Rooted
<1>3. Genesis \in DOMAIN BlockInfoDB
  <2> DEFINE S == {h \in Hashes : Genesis \notin ToSet(ChainOf[h])}
  <2>1. ASSUME S # {} PROVE FALSE
    <3>1. PICK h \in S : PreviousHash[h] \notin S
      BY <2>1, HashesAssumption
    <3> QED BY <3>1, ChainSets
  <2> QED BY <1>1, <2>1 DEF Anchored
<1> QED BY <1>1, <1>2, <1>3 DEF LineInv, ChainInv, Heights

\* A block whose parent is on the active chain, but not its newest block, is on
\* the active chain itself.
LEMMA ChildOnChain ==
    ASSUME SingleBranch, LineInv, NEW h \in Hashes, h # Genesis,
           PreviousHash[h] \in ToSet(ActiveChain), PreviousHash[h] # LastHash
    PROVE  h \in ToSet(ActiveChain) /\ Len(ChainOf[h]) <= Length
<1>1. LastHash \in Hashes
  BY LineHeights DEF TypeInv
<1>2. PICK c, n : c = ActiveChain /\ n = Len(c)
  OBVIOUS
<1>3. /\ c \in Seq(Hashes) /\ n \in Nat \ {0} /\ c[n] = LastHash /\ DOMAIN c = 1..n
      /\ \A k \in 1..(n - 1) : PreviousHash[c[k + 1]] = c[k]
  BY <1>1, <1>2, ChainIsPath, ChainLengths DEF ActiveChain, Path
<1>4. PICK k \in 1..n : c[k] = PreviousHash[h]
  BY <1>2, <1>3 DEF ToSet
<1>5. k # n
  BY <1>3, <1>4
<1>6. k \in 1..(n - 1) /\ k + 1 \in 1..n
  BY <1>3, <1>4, <1>5
<1>7. c[k + 1] \in Hashes /\ PreviousHash[c[k + 1]] = PreviousHash[h]
  BY <1>3, <1>4, <1>6
<1>8. c[k + 1] = h
  BY <1>7 DEF SingleBranch
<1>9. Len(ChainOf[c[k + 1]]) = k + 1
  BY <1>1, <1>2, <1>3, <1>6, ChainBelow DEF ActiveChain
<1>10. Length = n
  BY <1>2, LineHeights
<1> QED BY <1>2, <1>3, <1>6, <1>8, <1>9, <1>10 DEF ToSet

\* HandleBlock appends, or stores a block of the active chain again, which is
\* no higher than that.
LEMMA LineHandleBlock ==
    ASSUME SingleBranch, LineInv, NEW h \in Hashes, HandleBlock(h), NoteEarly(h),
           ChainInv', early' = {}
    PROVE  LineInv' /\ Extends
<1>1. TypeInv /\ ChainInv /\ LastHash \in Hashes /\ Length \in Nat
  BY LineHeights DEF LineInv, TypeInv
<1>2. CASE RefuseBlock(h)
  BY <1>1, <1>2 DEF RefuseBlock, chainVars, LineInv, ActiveChain, Extends
<1>3. ASSUME ~RefuseBlock(h)
      PROVE  BlockInfoDB' = StoreRecord(h)
  BY <1>1, <1>3, ForkTakes
     DEF HandleBlock, AppendBlock, KeepBlock, InvalidFork, handleForkPanics
<1>4. ASSUME BlockInfoDB' = StoreRecord(h)
      PROVE  DOMAIN BlockInfoDB' = DOMAIN BlockInfoDB \cup {h}
  <2>1. PICK d : d = StoreRecord(h)
    OBVIOUS
  <2>2. DOMAIN d = DOMAIN BlockInfoDB \cup {h}
    BY <1>1, <2>1, StoreRecordType
  <2> QED BY <1>4, <2>1, <2>2
<1>5. CASE AppendBlock(h)
  <2>1. PreviousHash[h] = LastHash /\ LastHash' = h /\ BlockInfoDB' = StoreRecord(h)
    BY <1>5 DEF AppendBlock, appendsToActiveChain
  <2>2. h # Genesis
    BY <1>1, <2>1, BlocksAssumption
  <2>3. PICK c, d : c = ChainOf[LastHash] /\ d = ChainOf[h]
    OBVIOUS
  <2>4. c \in Seq(Hashes) /\ d = Append(c, h)
    BY <1>1, <2>1, <2>2, <2>3, ChainSteps, ChainLengths
  <2>5. \A g \in ToSet(c) \cup {h} : g \in ToSet(d)
    <3>1. DOMAIN d = 1..(Len(c) + 1) /\ d[Len(c) + 1] = h
      BY <2>4
    <3>2. \A i \in DOMAIN c : i \in DOMAIN d /\ d[i] = c[i]
      BY <2>4
    <3>3. Len(c) + 1 \in DOMAIN d
      BY <2>4, <3>1
    <3> QED BY <3>1, <3>2, <3>3 DEF ToSet
  <2>6. \A g \in DOMAIN BlockInfoDB' : g \in ToSet(c) \cup {h}
    BY <1>4, <2>1, <2>3 DEF LineInv, ActiveChain
  <2> QED BY <1>1, <2>1, <2>3, <2>5, <2>6 DEF LineInv, ActiveChain, Extends
<1>6. ASSUME ~appendsToActiveChain(h), BlockInfoDB' = StoreRecord(h)
      PROVE  h \in ToSet(ActiveChain) /\ ~IsHigher(h)
  <2>1. HeightOf(h) = Len(ChainOf[h])
    <3>1. Rooted(h)'
      BY DEF Rooted
    <3> QED BY <1>1, <1>6, <3>1, HeightRight
  <2>2. h \in ToSet(ActiveChain) /\ Len(ChainOf[h]) <= Length
    <3>1. CASE h = Genesis
      <4>1. Genesis \in ToSet(ActiveChain)
        BY LineHeights DEF LineInv
      <4>2. Length >= 1
        BY <1>1, LineHeights, ChainLengths DEF ActiveChain
      <4> QED BY <1>1, <3>1, <4>1, <4>2, ChainLengths
    <3>2. CASE h # Genesis
      <4>1. PreviousHash[h] \in DOMAIN BlockInfoDB
        BY <3>2 DEF NoteEarly
      <4>2. PreviousHash[h] \in ToSet(ActiveChain)
        BY <4>1 DEF LineInv
      <4> QED BY <1>6, <3>2, <4>2, ChildOnChain DEF appendsToActiveChain
    <3> QED BY <3>1, <3>2
  <2>3. Len(ChainOf[h]) \in Nat
    BY ChainLengths
  <2> QED BY <1>1, <2>1, <2>2, <2>3 DEF IsHigher
<1>7. CASE KeepBlock(h)
  <2>1. BlockInfoDB' = StoreRecord(h) /\ LastHash' = LastHash /\ ~appendsToActiveChain(h)
    BY <1>7 DEF KeepBlock
  <2> QED BY <1>1, <1>4, <1>6, <2>1 DEF LineInv, ActiveChain, Extends
<1>8. CASE InvalidFork(h) \/ handleFork(h) \/ handleForkPanics(h)
  <2>1. ~appendsToActiveChain(h) /\ IsHigher(h)
    BY <1>8 DEF InvalidFork, handleFork, handleForkPanics
  <2>2. ~RefuseBlock(h)
    BY <2>1 DEF RefuseBlock
  <2> QED BY <1>3, <1>6, <2>1, <2>2
<1> QED BY <1>2, <1>5, <1>7, <1>8 DEF HandleBlock

\* So does every step.
LEMMA LineStep ==
    ASSUME SingleBranch, LineInv, [Next]_vars, early' = {}
    PROVE  LineInv' /\ [Extends]_vars
<1>1. ChainInv /\ ChainInv'
  BY ChainStep DEF LineInv
<1>3. ASSUME NEW h \in Hashes, ForwardBlock(h) \/ Bootstrap(h)
      PROVE  HandleBlock(h) /\ NoteEarly(h)
  BY <1>3 DEF ForwardBlock, Bootstrap
<1>4. ASSUME UNCHANGED <<LastHash, BlockInfoDB>>
      PROVE  LineInv' /\ Extends
  BY <1>1, <1>4 DEF LineInv, ActiveChain, Extends
<1>5. ASSUME NEW h \in Hashes, IgnoreBlock(h)
      PROVE  UNCHANGED <<LastHash, BlockInfoDB>>
  BY <1>5 DEF IgnoreBlock, chainVars
<1>6. CASE GetBalance
  BY <1>4, <1>6 DEF GetBalance
<1>7. CASE UNCHANGED vars
  BY <1>4, <1>7 DEF vars, chainVars
<1> QED BY <1>1, <1>3, <1>4, <1>5, <1>6, <1>7, LineHandleBlock DEF Next

\* On a single branch whose blocks arrive after their parents, however often
\* and mixed with others that are refused, no fork is adopted: what the theorems
\* below assume is met.  Both parts are needed: with orphans the code takes a
\* block of the same branch for one of a fork.
THEOREM SingleBranchExtends ==
    ASSUME SingleBranch
    PROVE  Spec /\ [](early = {}) => OnlyExtends
<1>1. Init => LineInv
  <2> SUFFICES ASSUME Init PROVE LineInv
    OBVIOUS
  <2>1. ChainInv
    BY ChainInit
  <2>2. BlockInfoDB = [x \in {Genesis} |-> [Height |-> 1, Undo |-> <<>>]] /\ LastHash = Genesis
    BY DEF Init, PutInMap
  <2>3. ChainOf[Genesis] = <<Genesis>>
    BY ChainSteps
  <2>4. Genesis \in ToSet(<<Genesis>>)
    <3>1. 1 \in DOMAIN <<Genesis>> /\ <<Genesis>>[1] = Genesis
      OBVIOUS
    <3> QED BY <3>1 DEF ToSet
  <2>5. early = {}
    BY DEF Init
  <2> QED BY <2>1, <2>2, <2>3, <2>4, <2>5 DEF LineInv, ActiveChain
<1>2. LineInv /\ [Next]_vars /\ (early = {})' => LineInv' /\ [Extends]_vars
  BY LineStep
<1> QED BY <1>1, <1>2, PTL DEF Spec, OnlyExtends

\* The unsafe hashes with the newest block among them, and the coins.
UnsafeInv == TypeInv /\ Len(UnsafeHashes) >= 1 /\ UnsafeOnActiveChain
CoinInv == Stage(CoinDB, Utxo(ActiveChain), {})

\* What the unsafe hashes are.
LEMMA UnsafeIs ==
    ASSUME UnsafeInv
    PROVE  /\ ActiveChain \in Seq(Hashes) /\ UnsafeHashes \in Seq(Hashes)
           /\ Len(ActiveChain) \in Nat \ {0} /\ Len(UnsafeHashes) \in Nat \ {0}
           /\ Len(UnsafeHashes) <= MaxHashes /\ Len(UnsafeHashes) <= Len(ActiveChain)
           /\ \A j \in 1..Len(UnsafeHashes) :
                 UnsafeHashes[j] = ActiveChain[Len(ActiveChain) - Len(UnsafeHashes) + j]
           /\ LastHash \in ToSet(UnsafeHashes)
<1>1. LastHash \in Hashes
  BY DEF UnsafeInv, TypeInv
<1>2. PICK c \in Seq(Hashes), m \in Nat \ {0} : c = ActiveChain /\ m = Len(c)
  BY <1>1, ChainLengths DEF ActiveChain
<1>3. PICK u \in Seq(Hashes), n \in Nat \ {0} : u = UnsafeHashes /\ n = Len(u)
  BY DEF UnsafeInv, TypeInv
<1>4. n <= MaxHashes /\ n <= m /\ u = SubSeq(c, m - n + 1, m)
  BY <1>2, <1>3 DEF UnsafeInv, UnsafeOnActiveChain
<1>5. ASSUME NEW j \in 1..n PROVE u[j] = c[m - n + j]
  <2>1. PICK s : s = SubSeq(c, m - n + 1, m)
    OBVIOUS
  <2>2. s = [i \in 1..(m - (m - n + 1) + 1) |-> c[(m - n + 1) + i - 1]]
    BY <1>2, <1>4, <2>1
  <2>3. m - (m - n + 1) + 1 = n /\ (m - n + 1) + j - 1 = m - n + j
    OBVIOUS
  <2>4. s[j] = c[(m - n + 1) + j - 1]
    BY <2>2, <2>3
  <2> QED BY <1>4, <2>1, <2>3, <2>4
<1>6. LastHash \in ToSet(u)
  <2>1. c[m] = LastHash
    BY <1>1, <1>2, ChainIsPath DEF ActiveChain, Path
  <2>2. n \in 1..n /\ m - n + n = m
    OBVIOUS
  <2>3. u[n] = LastHash /\ DOMAIN u = 1..n
    BY <1>3, <1>5, <2>1, <2>2
  <2> QED BY <2>2, <2>3 DEF ToSet
<1> QED BY <1>2, <1>3, <1>4, <1>5, <1>6

\* A step appends a block, or changes none of the two but for a flush.  The
\* newest block delivered again may pass for a higher one, but the fork it
\* makes has length 0.
LEMMA StepKinds ==
    ASSUME UnsafeInv, [Next]_vars, [Extends]_vars
    PROVE  \/ \E h \in Hashes : AppendBlock(h)
           \/ /\ LastHash' = LastHash /\ UnsafeHashes' = UnsafeHashes
              /\ CoinDB' \in {CoinDB, FlushMainCache(CoinDB)}
<1>1. TypeInv
  BY DEF UnsafeInv
<1>2. ASSUME NEW h \in Hashes, HandleBlock(h), ~AppendBlock(h)
      PROVE  LastHash' = LastHash /\ UnsafeHashes' = UnsafeHashes /\ CoinDB' = CoinDB
  <2>1. CASE RefuseBlock(h) \/ KeepBlock(h) \/ InvalidFork(h) \/ handleForkPanics(h)
    BY <2>1 DEF RefuseBlock, KeepBlock, InvalidFork, handleForkPanics, chainVars
  <2>2. CASE handleFork(h)
    <3>1. LastHash' = h /\ PreviousHash[h] # LastHash
      BY <2>2 DEF handleFork, appendsToActiveChain
    <3>2. h = LastHash
      BY <3>1 DEF Extends, vars, chainVars
    <3>3. DOMAIN StoreRecord(h) \subseteq Hashes
      BY <1>1, StoreRecordType DEF InfoDB
    <3>4. Back(StoreRecord(h), h, 0) = h
      BY <3>3, BackSteps
    <3>5. getForkLength(StoreRecord(h), h) = 0
      BY <1>1, <3>2, <3>4, UnsafeIs, ForkLength
    <3> QED BY <1>1, <2>2, <3>1, <3>2, <3>5, ForkTakes
  <2> QED BY <1>2, <2>1, <2>2 DEF HandleBlock
<1>3. ASSUME NEW h \in Hashes, ForwardBlock(h) \/ Bootstrap(h)
      PROVE  HandleBlock(h)
  BY <1>3 DEF ForwardBlock, Bootstrap
<1>4. ASSUME NEW h \in Hashes, IgnoreBlock(h)
      PROVE  LastHash' = LastHash /\ UnsafeHashes' = UnsafeHashes /\ CoinDB' = CoinDB
  BY <1>4 DEF IgnoreBlock, chainVars
<1>5. CASE GetBalance
  BY <1>5 DEF GetBalance
<1>6. CASE UNCHANGED vars
  BY <1>6 DEF vars, chainVars
<1> QED BY <1>2, <1>3, <1>4, <1>5, <1>6 DEF Next

\* An appended block is the newest unsafe one.
LEMMA UnsafeAppend ==
    ASSUME UnsafeInv, TypeInv', NEW h \in Hashes, AppendBlock(h)
    PROVE  UnsafeInv'
<1>1. PICK c \in Seq(Hashes), m \in Nat \ {0} : c = ActiveChain /\ m = Len(c)
  BY UnsafeIs
<1>2. PICK u \in Seq(Hashes), n \in Nat \ {0} : u = UnsafeHashes /\ n = Len(u)
  BY UnsafeIs
<1>3. /\ n <= MaxHashes /\ n <= m
      /\ \A j \in 1..n : u[j] = c[m - n + j]
  BY <1>1, <1>2, UnsafeIs
<1>4. PreviousHash[h] = LastHash /\ LastHash' = h /\ UnsafeHashes' = AppendUnsafe(h)
  BY DEF AppendBlock, appendsToActiveChain
<1>5. h # Genesis
  BY <1>4, BlocksAssumption DEF UnsafeInv, TypeInv
<1>6. PICK d : d = Append(c, h)
  OBVIOUS
<1>7. ActiveChain' = d
  BY <1>1, <1>4, <1>5, <1>6, ChainSteps DEF ActiveChain
<1>8. /\ d \in Seq(Hashes) /\ Len(d) = m + 1 /\ d[m + 1] = h
      /\ \A j \in 1..m : d[j] = c[j]
  BY <1>1, <1>6
<1>9. PICK v, k : v = AppendUnsafe(h) /\ k = Len(v)
  OBVIOUS
<1>10. /\ v \in Seq(Hashes) /\ k \in Nat \ {0} /\ k <= MaxHashes /\ k <= m + 1
       /\ \A j \in 1..k : v[j] = d[(m + 1) - k + j]
  <2>1. CASE n >= MaxHashes
    <3>1. PICK t : t = Tail(u)
      OBVIOUS
    <3>2. t \in Seq(Hashes) /\ Len(t) = n - 1 /\ \A j \in 1..(n - 1) : t[j] = u[j + 1]
      BY <1>2, <3>1
    <3>3. v = Append(t, h)
      BY <1>2, <1>9, <2>1, <3>1 DEF AppendUnsafe
    <3>4. v \in Seq(Hashes) /\ k = n /\ v[n] = h /\ \A j \in 1..(n - 1) : v[j] = t[j]
      BY <1>9, <3>2, <3>3
    <3>5. ASSUME NEW j \in 1..n PROVE v[j] = d[(m + 1) - n + j]
      <4>1. CASE j = n
        <5>1. (m + 1) - n + j = m + 1
          BY <4>1
        <5> QED BY <1>8, <3>4, <4>1, <5>1
      <4>2. CASE j # n
        <5>1. j \in 1..(n - 1) /\ j + 1 \in 1..n
          BY <4>2
        <5>2. v[j] = c[m - n + (j + 1)]
          BY <1>3, <3>2, <3>4, <5>1
        <5>3. m - n + (j + 1) \in 1..m /\ m - n + (j + 1) = (m + 1) - n + j
          BY <1>3, <5>1
        <5> QED BY <1>8, <5>2, <5>3
      <4> QED BY <4>1, <4>2
    <3> QED BY <1>3, <3>4, <3>5
  <2>2. CASE ~(n >= MaxHashes)
    <3>1. v = Append(u, h)
      BY <1>2, <1>9, <2>2 DEF AppendUnsafe
    <3>2. v \in Seq(Hashes) /\ k = n + 1 /\ v[n + 1] = h /\ \A j \in 1..n : v[j] = u[j]
      BY <1>2, <1>9, <3>1
    <3>3. ASSUME NEW j \in 1..(n + 1) PROVE v[j] = d[(m + 1) - (n + 1) + j]
      <4>1. CASE j = n + 1
        <5>1. (m + 1) - (n + 1) + j = m + 1
          BY <4>1
        <5> QED BY <1>8, <3>2, <4>1, <5>1
      <4>2. CASE j # n + 1
        <5>1. j \in 1..n
          BY <4>2
        <5>2. v[j] = c[m - n + j]
          BY <1>3, <3>2, <5>1
        <5>3. m - n + j \in 1..m /\ m - n + j = (m + 1) - (n + 1) + j
          BY <1>3, <5>1
        <5> QED BY <1>8, <5>2, <5>3
      <4> QED BY <4>1, <4>2
    <3>4. n + 1 <= MaxHashes
      BY <2>2, ChainAssumption
    <3> QED BY <1>3, <3>2, <3>3, <3>4
  <2> QED BY <2>1, <2>2
<1>11. v = SubSeq(d, (m + 1) - k + 1, m + 1)
  <2>1. PICK s : s = SubSeq(d, (m + 1) - k + 1, m + 1)
    OBVIOUS
  <2>2. s = [i \in 1..((m + 1) - ((m + 1) - k + 1) + 1) |-> d[((m + 1) - k + 1) + i - 1]]
    BY <1>8, <1>10, <2>1
  <2>3. (m + 1) - ((m + 1) - k + 1) + 1 = k
    BY <1>10
  <2>4. \A i \in 1..k : ((m + 1) - k + 1) + i - 1 = (m + 1) - k + i
    BY <1>10
  <2>5. s = [i \in 1..k |-> d[(m + 1) - k + i]]
    BY <2>2, <2>3, <2>4
  <2>6. v = [i \in 1..k |-> v[i]]
    BY <1>9, <1>10
  <2> QED BY <1>10, <2>1, <2>5, <2>6
<1>12. /\ Len(v) >= 1 /\ Len(v) <= MaxHashes /\ Len(v) <= Len(d)
       /\ v = SubSeq(d, Len(d) - Len(v) + 1, Len(d))
  <2>1. Len(v) = k /\ Len(d) = m + 1
    BY <1>8, <1>9
  <2>2. k >= 1 /\ k <= MaxHashes /\ k <= m + 1
    BY <1>10
  <2>3. v = SubSeq(d, Len(d) - Len(v) + 1, Len(d))
    BY ONLY <1>11, <2>1
  <2> QED BY ONLY <2>1, <2>2, <2>3
<1>13. UnsafeHashes' = v
  BY <1>4, <1>9
<1>14. UnsafeOnActiveChain'
  BY <1>7, <1>12, <1>13 DEF UnsafeOnActiveChain
<1> QED BY <1>12, <1>13, <1>14 DEF UnsafeInv

\* Every step keeps the unsafe hashes.
LEMMA UnsafeStep ==
    ASSUME UnsafeInv, [Next]_vars, [Extends]_vars
    PROVE  UnsafeInv'
<1>1. TypeInv'
  BY TypeStep DEF UnsafeInv
<1>2. ASSUME LastHash' = LastHash, UnsafeHashes' = UnsafeHashes
      PROVE  UnsafeInv'
  BY <1>1, <1>2 DEF UnsafeInv, UnsafeOnActiveChain, ActiveChain
<1> QED BY <1>1, <1>2, StepKinds, UnsafeAppend

\* The genesis block is unsafe.
LEMMA UnsafeInit ==
    ASSUME Init
    PROVE  UnsafeInv
<1>1. PICK g : g = <<Genesis>>
  OBVIOUS
<1>2. g \in Seq(Hashes) /\ Len(g) = 1
  BY <1>1, BlocksAssumption
<1>3. UnsafeHashes = g /\ ActiveChain = g
  BY <1>1, ChainSteps DEF Init, ActiveChain
<1>4. SubSeq(g, 1 - 1 + 1, 1) = g
  <2>1. PICK t : t = SubSeq(g, 1, 1)
    OBVIOUS
  <2>2. t \in Seq(Hashes) /\ Len(t) = 1 /\ t[1] = g[1]
    BY <1>2, <2>1
  <2>3. t = g
    BY <1>2, <2>2
  <2>4. 1 - 1 + 1 = 1
    OBVIOUS
  <2> QED BY <2>1, <2>3, <2>4
<1>5. /\ Len(g) >= 1 /\ Len(g) <= MaxHashes /\ Len(g) <= Len(g)
      /\ g = SubSeq(g, Len(g) - Len(g) + 1, Len(g))
  BY <1>2, <1>4, ChainAssumption
<1>6. UnsafeOnActiveChain
  BY <1>3, <1>5 DEF UnsafeOnActiveChain
<1> QED BY <1>3, <1>5, <1>6, TypeInit DEF UnsafeInv

\* The inputs of a valid block are unspent.
LEMMA ValidSpends ==
    ASSUME NEW c, NEW U, Stage(c, U, {}), NEW txs \in Seq(DOMAIN Inputs), ValidateBlock(c, txs)
    PROVE  ToSet(InputsOf(txs)) \subseteq U
<1>1. PICK C : C = (DOMAIN Inputs) \X Nat
  OBVIOUS
<1>2. ASSUME NEW cl \in ToSet(InputsOf(txs)) PROVE cl \in U
  <2>1. PICK j \in 1..Len(txs) : cl \in ToSet(Inputs[txs[j]])
    BY InputsAre
  <2>2. txs[j] \in DOMAIN Inputs /\ txs[j] \in ToSet(txs)
    <3>1. PICK T : T = DOMAIN Inputs
      OBVIOUS
    <3>2. txs \in Seq(T)
      BY <3>1
    <3>3. txs[j] \in T /\ txs[j] \in ToSet(txs)
      BY <3>2 DEF ToSet
    <3> QED BY <3>1, <3>3
  <2>3. cl \in C
    <3>1. PICK s : s = Inputs[txs[j]]
      OBVIOUS
    <3>2. s \in Seq(C)
      BY <1>1, <2>2, <3>1, BlocksAssumption
    <3>3. PICK k \in DOMAIN s : cl = s[k]
      BY <2>1, <3>1 DEF ToSet
    <3> QED BY <3>2, <3>3
  <2>4. IsUnspent(c, cl)
    BY <2>1, <2>2 DEF ValidateBlock, ValidateTransaction
  <2> QED BY <1>1, <2>3, <2>4, UnspentIsLive DEF Stage
<1> QED BY <1>2

\* A valid block that is appended moves the coins as it says.
LEMMA CoinAppend ==
    ASSUME TypeInv, CoinInv, NEW h \in Hashes, AppendBlock(h)
    PROVE  CoinInv'
<1>1. PICK txs, U : txs = Transactions[h] /\ U = Utxo(ActiveChain)
  OBVIOUS
<1>2. txs \in Seq(DOMAIN Inputs) /\ Stage(CoinDB, U, {})
  BY <1>1, BlocksAssumption DEF CoinInv
<1>3. ValidateBlock(CoinDB, txs) /\ CoinDB' = StoreBlock(CoinDB, txs) /\ LastHash' = h
      /\ PreviousHash[h] = LastHash
  BY <1>1 DEF AppendBlock, appendsToActiveChain
<1>4. ToSet(InputsOf(txs)) \subseteq U
  BY <1>2, <1>3, ValidSpends
<1>5. Stage(CoinDB', (U \ ToSet(InputsOf(txs))) \cup ToSet(OutputsOf(txs)), {})
  BY <1>2, <1>3, <1>4, StageStoreBlock
<1>6. h # Genesis
  BY <1>3, BlocksAssumption DEF TypeInv
<1>7. Utxo(ChainOf[h]) = Spend(U, h)
  BY <1>1, <1>3, <1>6, UtxoSteps DEF ActiveChain
<1>8. Utxo(ActiveChain)' = (U \ ToSet(InputsOf(txs))) \cup ToSet(OutputsOf(txs))
  BY <1>1, <1>3, <1>7 DEF ActiveChain, Spend
<1> QED BY <1>5, <1>8 DEF CoinInv

\* Every step keeps the coins.
LEMMA CoinStep ==
    ASSUME UnsafeInv, CoinInv, [Next]_vars, [Extends]_vars
    PROVE  CoinInv'
<1>1. TypeInv
  BY DEF UnsafeInv
<1>2. ASSUME LastHash' = LastHash, CoinDB' \in {CoinDB, FlushMainCache(CoinDB)}
      PROVE  CoinInv'
  <2>1. Utxo(ActiveChain)' = Utxo(ActiveChain)
    BY <1>2 DEF ActiveChain
  <2>2. Stage(FlushMainCache(CoinDB), Utxo(ActiveChain), {})
    BY StageFlush DEF CoinInv
  <2> QED BY <1>2, <2>1, <2>2 DEF CoinInv
<1> QED BY <1>1, <1>2, StepKinds, CoinAppend

\* The coins after the genesis block.
LEMMA CoinInit ==
    ASSUME Init
    PROVE  CoinInv
<1>1. PICK txs : txs = Transactions[Genesis]
  OBVIOUS
<1>2. txs \in Seq(DOMAIN Inputs) /\ ToSet(InputsOf(txs)) = {}
  BY <1>1, BlocksAssumption, GenesisSpends
<1>3. Stage(New, {}, {})
  <2>1. New \in CoinDBs
    <3>1. PICK f : f = <<>>
      OBVIOUS
    <3>2. DOMAIN f = {} /\ f \in [DOMAIN f -> BOOLEAN] /\ f \in [DOMAIN f -> CoinRecords]
      BY <3>1
    <3>3. IsFiniteSet(DOMAIN f)
      BY <3>2, FS_EmptySet
    <3>4. f \in Caches /\ f \in Records
      BY <3>2, <3>3, CacheIs, RecordsAre
    <3>5. 0 \in 0..(Word - 1)
      BY CapacityAssumption
    <3> QED BY <3>1, <3>4, <3>5, CoinDBMade DEF New
  <2>2. Live(New) = {}
    BY DEF Live, New
  <2>3. \A tx : RecordOf(New, tx) = <<>>
    BY DEF RecordOf, New
  <2>4. ToSet(<<>>) = {} /\ Distinct(<<>>)
    BY DEF ToSet, Distinct
  <2>5. OwnRecords(New)
    BY <2>3, <2>4 DEF OwnRecords
  <2> QED BY <2>1, <2>2, <2>5 DEF Stage
<1>4. Stage(StoreBlock(New, txs), ({} \ ToSet(InputsOf(txs))) \cup ToSet(OutputsOf(txs)), {})
  BY <1>2, <1>3, StageStoreBlock
<1>5. Utxo(ActiveChain) = ({} \ ToSet(InputsOf(txs))) \cup ToSet(OutputsOf(txs))
  BY <1>1, UtxoSteps DEF Init, ActiveChain, Spend
<1> QED BY <1>1, <1>4, <1>5 DEF Init, CoinInv

\* The two invariants together.
LEMMA CoinsHold == Spec /\ OnlyExtends => [](UnsafeInv /\ CoinInv)
<1>1. Init => UnsafeInv /\ CoinInv
  BY UnsafeInit, CoinInit
<1>2. (UnsafeInv /\ CoinInv) /\ [Next]_vars /\ [Extends]_vars => (UnsafeInv /\ CoinInv)'
  BY UnsafeStep, CoinStep
<1> QED BY <1>1, <1>2, PTL DEF Spec, OnlyExtends

\* The coins that pass validation are the unspent ones.
LEMMA SpendableIs ==
    ASSUME CoinInv
    PROVE  Spendable = Utxo(ActiveChain)
<1>1. CoinDB \in CoinDBs /\ OwnRecords(CoinDB) /\ Live(CoinDB) = Utxo(ActiveChain)
  BY DEF CoinInv, Stage
<1>2. ASSUME NEW cl \in Coins PROVE cl \in (DOMAIN Inputs) \X Nat
  <2>1. PICK tx \in DOMAIN Inputs : \E i \in 0..(Outputs[tx] - 1) : cl = <<tx, i>>
    BY CoinsAre
  <2>2. PICK i \in 0..(Outputs[tx] - 1) : cl = <<tx, i>>
    BY <2>1
  <2> QED BY <2>2
<1>3. ASSUME NEW cl \in Coins PROVE IsUnspent(CoinDB, cl) <=> cl \in Live(CoinDB)
  BY <1>1, <1>2, UnspentIsLive
<1>4. Live(CoinDB) \subseteq Coins
  BY <1>1, LiveCoins
<1> QED BY <1>1, <1>3, <1>4 DEF Spendable

\* Until a fork is adopted, the coins that pass validation are exactly the
\* unspent outputs of the active chain, wherever the database keeps them and
\* however often its cache was flushed.
THEOREM CoinsTrack == Spec /\ OnlyExtends => []CoinsOfActiveChain
<1>1. UnsafeInv /\ CoinInv => CoinsOfActiveChain
  BY SpendableIs DEF CoinsOfActiveChain
<1> QED BY <1>1, CoinsHold, PTL

-----------------------------------------------------------------------------
(* The ledger                                                              *)

\* The ledger's operators, which are those of Blocks once more.
LEMMA LedgerSame ==
    /\ \A txs \in Seq(DOMAIN Inputs) : L!InputsOf(txs) = InputsOf(txs)
    /\ \A U : \A h \in Hashes : L!Spend(U, h) = Spend(U, h)
<1>1. ASSUME NEW txs PROVE L!InputsOf(txs) = InputsOf(txs)
  BY DEF L!InputsOf, InputsOf, L!AppendInputs, AppendInputs, L!FoldLeft, FoldLeft,
         L!MapThenFoldSet, MapThenFoldSet, L!Max, Max
<1>2. ASSUME NEW txs PROVE L!OutputsOf(txs) = OutputsOf(txs)
  BY DEF L!OutputsOf, OutputsOf, L!AppendOutputs, AppendOutputs,
         L!TransactionOutputs, TransactionOutputs, L!FoldLeft, FoldLeft,
         L!MapThenFoldSet, MapThenFoldSet, L!Max, Max
<1> QED BY <1>1, <1>2 DEF L!Spend, Spend, L!ToSet, ToSet

\* The ledger starts with the genesis block.
LEMMA LedgerInit ==
    ASSUME Init
    PROVE  L!Init
<1>1. Spendable = Utxo(ActiveChain)
  BY CoinInit, SpendableIs
<1>2. ActiveChain = <<Genesis>> /\ Utxo(ActiveChain) = Spend({}, Genesis)
  BY ChainSteps, UtxoSteps DEF Init, ActiveChain
<1>3. L!Spend({}, Genesis) = Spend({}, Genesis)
  BY LedgerSame, BlocksAssumption
<1> QED BY <1>1, <1>2, <1>3 DEF L!Init

\* A block that is appended extends the ledger; nothing else changes it.
LEMMA LedgerStep ==
    ASSUME UnsafeInv, CoinInv, [Next]_vars, [Extends]_vars,
           (Spendable = Utxo(ActiveChain))', NoDoubleSpend'
    PROVE  [L!Next]_<<ActiveChain, Spendable>>
<1>1. Spendable = Utxo(ActiveChain) /\ Spendable' = Utxo(ActiveChain)'
  BY SpendableIs
<1>2. CASE LastHash' = LastHash
  BY <1>1, <1>2 DEF ActiveChain
<1>3. ASSUME NEW h \in Hashes, AppendBlock(h)
      PROVE  L!Extend(h)
  <2>1. /\ ValidateBlock(CoinDB, Transactions[h]) /\ PreviousHash[h] = LastHash /\ LastHash' = h
    BY <1>3 DEF AppendBlock, appendsToActiveChain
  <2>2. LastHash \in Hashes /\ h # Genesis
    BY <2>1, BlocksAssumption DEF UnsafeInv, TypeInv
  <2>3. PICK c \in Seq(Hashes), m \in Nat \ {0} : c = ActiveChain /\ m = Len(c) /\ c[m] = LastHash
    <3>1. Path(ChainOf[LastHash], LastHash)
      BY <2>2, ChainIsPath
    <3>2. PICK c, m : c = ChainOf[LastHash] /\ m = Len(c)
      OBVIOUS
    <3>3. c \in Seq(Hashes) /\ m >= 1 /\ c[m] = LastHash
      BY <3>1, <3>2 DEF Path
    <3>4. m \in Nat \ {0}
      BY <3>2, <3>3
    <3> QED BY <3>2, <3>3, <3>4 DEF ActiveChain
  <2>4. ActiveChain' = Append(c, h)
    BY <2>1, <2>2, <2>3, ChainSteps DEF ActiveChain
  <2>5. PICK txs : txs = Transactions[h]
    OBVIOUS
  <2>6. txs \in Seq(DOMAIN Inputs)
    BY <2>5, BlocksAssumption
  <2>7. ToSet(InputsOf(txs)) \subseteq Spendable
    BY <1>1, <2>1, <2>5, <2>6, ValidSpends DEF CoinInv
  <2>8. IsInjective(InputsOf(txs))
    <3>1. PICK d : d = Append(c, h)
      OBVIOUS
    <3>2. DOMAIN d = 1..(m + 1) /\ d[m + 1] = h /\ m + 1 \in 1..(m + 1)
      BY <2>3, <3>1
    <3>3. h \in ToSet(d)
      BY <3>2 DEF ToSet
    <3> QED BY <2>4, <2>5, <3>1, <3>3 DEF NoDoubleSpend
  <2>9. Spendable' = Spend(Spendable, h)
    BY <1>1, <2>1, <2>2, UtxoSteps DEF ActiveChain
  <2>10. L!InputsOf(txs) = InputsOf(txs) /\ L!Spend(Spendable, h) = Spend(Spendable, h)
    BY <2>6, LedgerSame
  <2> QED BY <2>1, <2>3, <2>4, <2>5, <2>7, <2>8, <2>9, <2>10
          DEF L!Extend, L!Last, L!ToSet, ToSet, L!IsInjective, IsInjective
<1> QED BY <1>2, <1>3, StepKinds DEF L!Next

\* Until a fork is adopted, and as long as no block of the active chain spends
\* a coin twice (which the code does not look for within a block), chain and
\* coin database implement the ledger: blocks are only appended, each spends
\* unspent outputs, and what passes validation is what is unspent.
THEOREM LedgerImplemented == Spec /\ OnlyExtends /\ []NoDoubleSpend => ImplementsLedger
<1>1. Init => L!Init
  BY LedgerInit
<1>2. CoinInv => Spendable = Utxo(ActiveChain)
  BY SpendableIs
<1>3. UnsafeInv /\ CoinInv /\ (Spendable = Utxo(ActiveChain))' /\ NoDoubleSpend'
         /\ [Next]_vars /\ [Extends]_vars => [L!Next]_<<ActiveChain, Spendable>>
  BY LedgerStep
<1> QED BY <1>1, <1>2, <1>3, CoinsHold, PTL DEF Spec, OnlyExtends, ImplementsLedger, L!Spec

-----------------------------------------------------------------------------
(* Undo blocks                                                             *)

\* The undo block of a valid block lists the coins it spends.
LEMMA UndoRight ==
    ASSUME CoinInv, NEW txs \in Seq(DOMAIN Inputs), ValidateBlock(CoinDB, txs),
           NEW ub, ub = makeUndoBlock(txs)
    PROVE  [k \in DOMAIN ub |-> ub[k].coin] = InputsOf(txs)
<1>1. PICK s, C : s = InputsOf(txs) /\ C = (DOMAIN Inputs) \X Nat
  OBVIOUS
<1>2. s \in Seq(C)
  BY <1>1, InputsAre
<1>3. \A cl \in ToSet(s) : cl \in DOMAIN CoinDB.mainCache
  BY <1>1, ValidSpends, LiveCoins DEF CoinInv, Stage
<1>4. \A cl \in ToSet(s) : HasCoin(CoinDB, cl) /\ GetCoin(CoinDB, cl) = cl
  BY <1>3 DEF HasCoin, GetCoin
<1>5. \A k \in DOMAIN s : GetCoin(CoinDB, s[k]) = s[k]
  BY <1>4 DEF ToSet
<1>6. ub = [k \in DOMAIN s |-> [hash |-> s[k][1], index |-> s[k][2],
                                coin |-> GetCoin(CoinDB, s[k])]]
  BY <1>1, <1>4 DEF makeUndoBlock
<1>7. DOMAIN ub = DOMAIN s /\ \A k \in DOMAIN s : ub[k].coin = s[k]
  BY <1>5, <1>6
<1>8. [k \in DOMAIN ub |-> ub[k].coin] = [k \in DOMAIN s |-> s[k]]
  BY <1>7
<1>9. s = [k \in DOMAIN s |-> s[k]]
  BY <1>2
<1> QED BY <1>1, <1>8, <1>9

\* The record of g holds what undoing g needs.
UndoFor(db, g) ==
    LET ub == GetBlockRecord(db, g).Undo
    IN [k \in DOMAIN ub |-> ub[k].coin] = InputsOf(Transactions[g])

\* A record that is written, also one that is written again, is right if the
\* block is valid; the other records are untouched.
LEMMA UndoStored ==
    ASSUME TypeInv, CoinInv, NEW h \in Hashes
    PROVE  /\ ValidateBlock(CoinDB, Transactions[h]) => UndoFor(StoreRecord(h), h)
           /\ \A g : g # h /\ UndoFor(BlockInfoDB, g) => UndoFor(StoreRecord(h), g)
<1>1. PICK txs, ub, d : txs = Transactions[h] /\ ub = makeUndoBlock(txs) /\ d = StoreRecord(h)
  OBVIOUS
<1>2. txs \in Seq(DOMAIN Inputs)
  BY <1>1, BlocksAssumption
<1>3. ValidateBlock(CoinDB, txs) => [k \in DOMAIN ub |-> ub[k].coin] = InputsOf(txs)
  BY <1>1, <1>2, UndoRight
<1>4. d = [x \in (DOMAIN BlockInfoDB) \cup {h} |->
             IF x = h THEN [Height |-> HeightOf(h), Undo |-> ub] ELSE BlockInfoDB[x]]
  BY <1>1 DEF StoreRecord, PutInMap
<1>5. GetBlockRecord(d, h).Undo = ub
  BY <1>4 DEF GetBlockRecord
<1>6. \A g : g # h => GetBlockRecord(d, g) = GetBlockRecord(BlockInfoDB, g)
  BY <1>4 DEF GetBlockRecord
<1>7. ValidateBlock(CoinDB, Transactions[h]) => UndoFor(d, h)
  BY <1>1, <1>3, <1>5 DEF UndoFor
<1>8. \A g : g # h /\ UndoFor(BlockInfoDB, g) => UndoFor(d, g)
  BY <1>6 DEF UndoFor
<1> QED BY <1>1, <1>7, <1>8

\* Every step keeps the undo blocks.
LEMMA UndoStep ==
    ASSUME UnsafeInv, CoinInv, UndoExact, [Next]_vars, [Extends]_vars
    PROVE  UndoExact'
<1>1. TypeInv /\ LastHash \in Hashes
  BY DEF UnsafeInv, TypeInv
<1>2. ASSUME LastHash' = LastHash, BlockInfoDB' = BlockInfoDB, loose' = loose
      PROVE  UndoExact'
  BY <1>2 DEF UndoExact, UndoOwn, ActiveChain
<1>3. ASSUME NEW h \in Hashes, ForwardBlock(h) \/ Bootstrap(h)
      PROVE  UndoExact'
  <2>1. HandleBlock(h)
    BY <1>3 DEF ForwardBlock, Bootstrap
  <2>2. loose \ {h} \subseteq loose' /\ (h \notin loose' => ValidateBlock(CoinDB, Transactions[h]))
    BY <1>3 DEF ForwardBlock, Bootstrap, CheckBlock
  <2>3. ASSUME BlockInfoDB' = StoreRecord(h),
               \A g \in ToSet(ActiveChain') : g \in ToSet(ActiveChain) \/ g = h
        PROVE  UndoExact'
    <3>1. ASSUME NEW g \in ToSet(ActiveChain'), g \notin loose' PROVE UndoFor(BlockInfoDB', g)
      <4>1. CASE g = h
        BY <1>1, <2>2, <2>3, <3>1, <4>1, UndoStored
      <4>2. CASE g # h
        <5>1. UndoFor(BlockInfoDB, g)
          BY <2>2, <2>3, <3>1, <4>2 DEF UndoExact, UndoOwn, UndoFor
        <5> QED BY <1>1, <2>3, <4>2, <5>1, UndoStored
      <4> QED BY <4>1, <4>2
    <3> QED BY <3>1 DEF UndoExact, UndoOwn, UndoFor
  <2>4. CASE RefuseBlock(h)
    <3>1. BlockInfoDB' = BlockInfoDB /\ LastHash' = LastHash
      BY <2>4 DEF RefuseBlock, chainVars
    <3>2. h \in loose'
      BY <2>2, <2>4 DEF RefuseBlock
    <3>3. loose \subseteq loose'
      BY <2>2, <3>2
    <3> QED BY <3>1, <3>3 DEF UndoExact, UndoOwn, ActiveChain
  <2>5. CASE AppendBlock(h)
    <3>1. PreviousHash[h] = LastHash /\ LastHash' = h /\ BlockInfoDB' = StoreRecord(h)
      BY <2>5 DEF AppendBlock, appendsToActiveChain
    <3>2. h # Genesis
      BY <1>1, <3>1, BlocksAssumption
    <3>3. ToSet(ActiveChain') = ToSet(ActiveChain) \cup {h}
      BY <3>1, <3>2, ChainSets DEF ActiveChain
    <3> QED BY <2>3, <3>1, <3>3
  <2>6. CASE KeepBlock(h) \/ InvalidFork(h) \/ handleForkPanics(h)
    <3>1. BlockInfoDB' = StoreRecord(h) /\ LastHash' = LastHash
      BY <2>6 DEF KeepBlock, InvalidFork, handleForkPanics
    <3>2. ActiveChain' = ActiveChain
      BY <3>1 DEF ActiveChain
    <3> QED BY <2>3, <3>1, <3>2
  <2>7. CASE handleFork(h)
    <3>1. BlockInfoDB' = StoreRecord(h) /\ LastHash' = h /\ PreviousHash[h] # LastHash
      BY <1>1, <2>7, ForkTakes DEF handleFork, appendsToActiveChain
    <3>2. LastHash' = LastHash
      BY <3>1 DEF Extends, vars, chainVars
    <3>3. ActiveChain' = ActiveChain
      BY <3>2 DEF ActiveChain
    <3> QED BY <2>3, <3>1, <3>3
  <2> QED BY <2>1, <2>4, <2>5, <2>6, <2>7 DEF HandleBlock
<1>4. ASSUME NEW h \in Hashes, IgnoreBlock(h)
      PROVE  UndoExact'
  BY <1>2, <1>4 DEF IgnoreBlock, chainVars
<1>5. CASE GetBalance
  BY <1>2, <1>5 DEF GetBalance
<1>6. CASE UNCHANGED vars
  BY <1>2, <1>6 DEF vars, chainVars
<1> QED BY <1>3, <1>4, <1>5, <1>6 DEF Next

\* The genesis block has nothing to undo.
LEMMA UndoInit ==
    ASSUME Init
    PROVE  UndoExact
<1>1. LastHash = Genesis /\ ToSet(ChainOf[Genesis]) = {Genesis}
  BY ChainSets DEF Init
<1>2. PICK ub : ub = GetBlockRecord(BlockInfoDB, Genesis).Undo
  OBVIOUS
<1>3. ub = <<>>
  BY <1>2 DEF Init, GetBlockRecord, PutInMap
<1>4. [k \in DOMAIN ub |-> ub[k].coin] = <<>>
  BY <1>3
<1> QED BY <1>1, <1>2, <1>4, GenesisSpends DEF UndoExact, UndoOwn, ActiveChain

\* Until a fork is adopted, the records keep the amounts and scripts of the
\* coins too, also when a record is written again for a block that is delivered
\* again; blocks aside that were last handed over unchecked when their coins
\* were not unspent.
THEOREM UndoBlocksExact == Spec /\ OnlyExtends => []UndoExact
<1>1. Init => UndoExact
  BY UndoInit
<1>2. UnsafeInv /\ CoinInv /\ UndoExact /\ [Next]_vars /\ [Extends]_vars => UndoExact'
  BY UndoStep
<1> QED BY <1>1, <1>2, CoinsHold, PTL DEF Spec, OnlyExtends

-----------------------------------------------------------------------------
(* The balance                                                             *)

\* d has each coin of U in one record, the record of its transaction.
OneRecord(d, U) ==
    /\ d \in Records
    /\ \A tx \in DOMAIN d :
          /\ Distinct(d[tx])
          /\ \A e \in ToSet(d[tx]) : e.coin = <<tx, e.index>> /\ e.coin \in U
    /\ \A cl \in U : \E tx \in DOMAIN d : \E e \in ToSet(d[tx]) : e.coin = cl

\* So it is once the cache is flushed.
LEMMA FlushedRecords ==
    ASSUME NEW c, NEW U, Stage(c, U, {})
    PROVE  OneRecord(FlushMainCache(c).db, U)
<1>1. PICK f, d : f = FlushMainCache(c) /\ d = f.db
  OBVIOUS
<1>2. Stage(f, U, {}) /\ DOMAIN f.mainCache = U
  <2>1. c \in CoinDBs /\ Live(c) = U
    BY DEF Stage
  <2>2. DOMAIN f.mainCache = U
    BY <1>1, <2>1, FlushIs
  <2> QED BY <1>1, <2>2, StageFlush
<1>3. f \in CoinDBs /\ d \in Records
  BY <1>1, <1>2, CoinDBIs DEF Stage
<1>4. DOMAIN d \subseteq DOMAIN Inputs
  BY <1>3, RecordsAre
<1>5. \A tx \in DOMAIN d : RecordOf(f, tx) = d[tx]
  BY <1>1 DEF RecordOf
<1>6. ASSUME NEW tx \in DOMAIN d
      PROVE  /\ Distinct(d[tx])
             /\ \A e \in ToSet(d[tx]) : e.coin = <<tx, e.index>> /\ e.coin \in U
  BY <1>2, <1>4, <1>5 DEF Stage, OwnRecords
<1>7. ASSUME NEW cl \in U
      PROVE  \E tx \in DOMAIN d : \E e \in ToSet(d[tx]) : e.coin = cl
  <2>1. cl[1] \in DOMAIN Inputs /\ cl = <<cl[1], cl[2]>>
    BY <1>2, LiveCoins, CoinParts DEF Stage
  <2>2. PICK e \in ToSet(RecordOf(f, cl[1])) : e.index = cl[2]
    BY <1>2 DEF Stage, Listed
  <2>3. cl[1] \in DOMAIN d
    BY <1>1, <2>2 DEF RecordOf, ToSet
  <2>4. e \in ToSet(d[cl[1]])
    BY <1>5, <2>2, <2>3
  <2>5. e.coin = cl
    BY <1>6, <2>1, <2>2, <2>3, <2>4
  <2> QED BY <2>3, <2>4, <2>5
<1> QED BY <1>1, <1>3, <1>6, <1>7 DEF OneRecord

\* The entries counted so far, those of the transactions in T: no coin twice.
CountedFrom(s, d, T) ==
    /\ \A i, j \in DOMAIN s : s[i].coin = s[j].coin => i = j
    /\ \A x : (\E k \in DOMAIN s : s[k].coin = x) <=>
                 \E tx \in T : \E e \in ToSet(d[tx]) : e.coin = x

\* One more record.
LEMMA CountRecord ==
    ASSUME NEW d, NEW U, OneRecord(d, U), NEW T \in SUBSET DOMAIN d, NEW x \in (DOMAIN d) \ T,
           NEW s \in Seq(Entry), CountedFrom(s, d, T)
    PROVE  s \o d[x] \in Seq(Entry) /\ CountedFrom(s \o d[x], d, T \cup {x})
<1>1. PICK r : r = d[x]
  OBVIOUS
<1>2. r \in Seq(Entry) /\ Distinct(r)
  BY <1>1, RecordsAre DEF OneRecord, CoinRecords, Entry
<1>3. PICK p \in Nat, q \in Nat : p = Len(s) /\ DOMAIN s = 1..p /\ q = Len(r) /\ DOMAIN r = 1..q
  BY <1>2
<1>4. PICK t : t = s \o r
  OBVIOUS
<1>5. /\ t \in Seq(Entry) /\ DOMAIN t = 1..(p + q)
      /\ \A i \in 1..p : t[i] = s[i]
      /\ \A i \in 1..q : t[i + p] = r[i]
  <2>1. t \in Seq(Entry) /\ Len(t) = p + q
    BY <1>2, <1>3, <1>4
  <2>2. \A i \in 1..(p + q) : t[i] = IF i <= p THEN s[i] ELSE r[i - p]
    BY <1>2, <1>3, <1>4
  <2>3. ASSUME NEW i \in 1..p PROVE t[i] = s[i]
    <3>1. i \in 1..(p + q) /\ i <= p
      OBVIOUS
    <3> QED BY <2>2, <3>1
  <2>4. ASSUME NEW i \in 1..q PROVE t[i + p] = r[i]
    <3>1. i + p \in 1..(p + q) /\ ~(i + p <= p) /\ (i + p) - p = i
      OBVIOUS
    <3> QED BY <2>2, <3>1
  <2> QED BY <2>1, <2>3, <2>4
<1>6. ASSUME NEW i \in 1..(p + q) PROVE i \in 1..p \/ \E k \in 1..q : i = k + p
  <2>1. CASE i <= p
    BY <2>1
  <2>2. CASE ~(i <= p)
    <3>1. i - p \in 1..q /\ i = (i - p) + p
      BY <2>2
    <3> QED BY <3>1
  <2> QED BY <2>1, <2>2
<1>7. \A k \in 1..q : r[k] \in ToSet(r)
  BY <1>3 DEF ToSet
<1>8. \A k \in 1..q : r[k].coin = <<x, r[k].index>>
  BY <1>1, <1>7 DEF OneRecord
<1>9. ASSUME NEW i \in 1..p, NEW k \in 1..q PROVE s[i].coin # r[k].coin
  <2>1. PICK y : y = s[i].coin
    OBVIOUS
  <2>2. PICK tx \in T : \E e \in ToSet(d[tx]) : e.coin = y
    BY <1>3, <2>1 DEF CountedFrom
  <2>3. PICK e \in ToSet(d[tx]) : e.coin = y
    BY <2>2
  <2>4. y = <<tx, e.index>>
    BY <2>3 DEF OneRecord
  <2>5. tx # x
    OBVIOUS
  <2> QED BY <1>8, <2>1, <2>4, <2>5
<1>10. ASSUME NEW j \in 1..q, NEW k \in 1..q, r[j].coin = r[k].coin PROVE j = k
  <2>1. r[j].index = r[k].index
    BY <1>8, <1>10
  <2> QED BY <1>2, <1>3, <2>1 DEF Distinct
<1>11. ASSUME NEW i \in 1..(p + q), NEW j \in 1..(p + q), t[i].coin = t[j].coin PROVE i = j
  <2>1. CASE i \in 1..p /\ j \in 1..p
    <3>1. t[i] = s[i] /\ t[j] = s[j]
      BY <1>5, <2>1
    <3>2. s[i].coin = s[j].coin
      BY <1>11, <3>1
    <3> QED BY <1>3, <2>1, <3>2 DEF CountedFrom
  <2>2. ASSUME NEW k \in 1..q, i \in 1..p, j = k + p PROVE FALSE
    <3>1. t[i] = s[i] /\ t[j] = r[k]
      BY <1>5, <2>2
    <3>2. s[i].coin = r[k].coin
      BY <1>11, <3>1
    <3> QED BY <1>9, <2>2, <3>2
  <2>3. ASSUME NEW k \in 1..q, j \in 1..p, i = k + p PROVE FALSE
    <3>1. t[j] = s[j] /\ t[i] = r[k]
      BY <1>5, <2>3
    <3>2. s[j].coin = r[k].coin
      BY <1>11, <3>1
    <3> QED BY <1>9, <2>3, <3>2
  <2>4. ASSUME NEW k \in 1..q, NEW m \in 1..q, i = k + p, j = m + p PROVE i = j
    <3>1. r[k].coin = r[m].coin
      BY <1>5, <1>11, <2>4
    <3> QED BY <1>10, <2>4, <3>1
  <2> QED BY <1>6, <2>1, <2>2, <2>3, <2>4
<1>12. ASSUME NEW y
       PROVE  (\E k \in 1..(p + q) : t[k].coin = y) <=>
                 \E tx \in T \cup {x} : \E e \in ToSet(d[tx]) : e.coin = y
  <2>1. (\E k \in 1..p : s[k].coin = y) <=> \E tx \in T : \E e \in ToSet(d[tx]) : e.coin = y
    BY <1>3 DEF CountedFrom
  <2>2. (\E k \in 1..q : r[k].coin = y) <=> \E e \in ToSet(d[x]) : e.coin = y
    BY <1>1, <1>3 DEF ToSet
  <2>3. (\E k \in 1..(p + q) : t[k].coin = y) <=>
           (\E k \in 1..p : s[k].coin = y) \/ (\E k \in 1..q : r[k].coin = y)
    <3>1. \A k \in 1..p : k \in 1..(p + q)
      OBVIOUS
    <3>2. \A k \in 1..q : k + p \in 1..(p + q)
      OBVIOUS
    <3>3. ASSUME NEW k \in 1..(p + q), t[k].coin = y
          PROVE  (\E i \in 1..p : s[i].coin = y) \/ (\E i \in 1..q : r[i].coin = y)
      <4>1. CASE k \in 1..p
        BY <1>5, <3>3, <4>1
      <4>2. ASSUME NEW i \in 1..q, k = i + p PROVE r[i].coin = y
        BY <1>5, <3>3, <4>2
      <4> QED BY <1>6, <4>1, <4>2
    <3>4. ASSUME NEW k \in 1..p, s[k].coin = y PROVE \E i \in 1..(p + q) : t[i].coin = y
      BY <1>5, <3>1, <3>4
    <3>5. ASSUME NEW k \in 1..q, r[k].coin = y PROVE \E i \in 1..(p + q) : t[i].coin = y
      <4>1. t[k + p].coin = y /\ k + p \in 1..(p + q)
        BY <1>5, <3>2, <3>5
      <4> QED BY <4>1
    <3> QED BY <3>3, <3>4, <3>5
  <2> QED BY <2>1, <2>2, <2>3
<1>13. \A i, j \in DOMAIN t : t[i].coin = t[j].coin => i = j
  BY <1>5, <1>11
<1>14. \A y : (\E k \in DOMAIN t : t[k].coin = y) <=>
                 \E tx \in T \cup {x} : \E e \in ToSet(d[tx]) : e.coin = y
  BY <1>5, <1>12
<1>15. CountedFrom(t, d, T \cup {x})
  BY ONLY <1>13, <1>14 DEF CountedFrom
<1> QED BY <1>1, <1>4, <1>5, <1>15

\* All records.
LEMMA CountAll ==
    ASSUME NEW d, NEW U, OneRecord(d, U)
    PROVE  /\ FoldFunction(AppendRecord, <<>>, d) \in Seq(Entry)
           /\ CountedFrom(FoldFunction(AppendRecord, <<>>, d), d, DOMAIN d)
<1>1. PICK D : D = DOMAIN d
  OBVIOUS
<1>2. IsFiniteSet(D)
  BY <1>1, RecordsAre DEF OneRecord
<1>3. Counts!AllSubsetsInduct(DOMAIN d)
  BY <1>1, <1>2, InductFinite
<1> DEFINE J(T) == {s \in Seq(Entry) : CountedFrom(s, d, T)}
<1>4. PICK I : I = [T \in SUBSET D |-> J(T)]
  OBVIOUS
<1>5. <<>> \in I[{}]
  <2>1. <<>> \in Seq(Entry) /\ DOMAIN <<>> = {}
    OBVIOUS
  <2>2. CountedFrom(<<>>, d, {})
    BY <2>1 DEF CountedFrom
  <2>3. <<>> \in J({})
    BY <2>1, <2>2
  <2> QED BY <1>4, <2>3
<1>6. ASSUME NEW T \in SUBSET DOMAIN d, NEW x \in (DOMAIN d) \ T, NEW a \in I[T]
      PROVE  AppendRecord(d[x], a) \in I[T \cup {x}]
  <2>1. T \in SUBSET D /\ T \cup {x} \in SUBSET D
    BY <1>1
  <2>2. a \in J(T) /\ I[T \cup {x}] = J(T \cup {x})
    BY <1>4, <2>1
  <2>3. a \o d[x] \in J(T \cup {x})
    BY <2>2, CountRecord
  <2> QED BY <2>2, <2>3 DEF AppendRecord
<1>7. Counts!FunctionFold(<<>>, d) \in I[DOMAIN d]
  BY <1>3, <1>5, <1>6, Counts!FunctionFoldSteps
<1>8. FoldFunction(AppendRecord, <<>>, d) = Counts!FunctionFold(<<>>, d)
  BY DEF Counts!FunctionFold, Counts!SetAt, Counts!SetSteps, FoldFunction, FoldFunctionOnSet,
         MapThenFoldSet
<1>9. Counts!FunctionFold(<<>>, d) \in J(D)
  BY <1>1, <1>4, <1>7
<1> QED BY <1>1, <1>8, <1>9

\* The balance counts the unspent coins.
LEMMA BalanceIs ==
    ASSUME CoinInv
    PROVE  BalanceExact
<1>1. PICK U, d : U = Utxo(ActiveChain) /\ d = FlushMainCache(CoinDB).db
  OBVIOUS
<1>2. OneRecord(d, U)
  BY <1>1, FlushedRecords DEF CoinInv
<1>3. PICK s : s = CountedCoins(CoinDB)
  OBVIOUS
<1>4. s \in Seq(Entry) /\ CountedFrom(s, d, DOMAIN d)
  BY <1>1, <1>2, <1>3, CountAll DEF CountedCoins
<1>5. IsInjective([k \in DOMAIN s |-> s[k].coin])
  BY <1>4 DEF CountedFrom, IsInjective
<1>6. ASSUME NEW x PROVE (\E k \in DOMAIN s : s[k].coin = x) <=> x \in U
  <2>1. (\E k \in DOMAIN s : s[k].coin = x) <=>
           \E tx \in DOMAIN d : \E e \in ToSet(d[tx]) : e.coin = x
    BY <1>4 DEF CountedFrom
  <2>2. (\E tx \in DOMAIN d : \E e \in ToSet(d[tx]) : e.coin = x) <=> x \in U
    BY <1>2 DEF OneRecord
  <2> QED BY <2>1, <2>2
<1>7. {e.coin : e \in ToSet(s)} = U
  <2>1. {e.coin : e \in ToSet(s)} = {s[k].coin : k \in DOMAIN s}
    BY DEF ToSet
  <2> QED BY <1>6, <2>1
<1> QED BY <1>1, <1>3, <1>5, <1>7 DEF BalanceExact

\* Until a fork is adopted, GetBalance counts every unspent output of the
\* active chain, once, with its own amount and script.
THEOREM BalanceIsExact == Spec /\ OnlyExtends => []BalanceExact
<1>1. CoinInv => BalanceExact
  BY BalanceIs
<1> QED BY <1>1, CoinsHold, PTL
=============================================================================
