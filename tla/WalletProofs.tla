----------------------------- MODULE WalletProofs -----------------------------
(***************************************************************************)
(* Proofs about Wallet, for all amounts, depths and bounds and for blocks  *)
(* that reach the wallet in any order, as long as there is one chain: none *)
(* has left it, and no block of our miner missed it.                       *)
(*                                                                         *)
(* The argument: on one chain the blocks the wallet was told of never      *)
(* become fewer, and a transaction is in one block at most, so that a      *)
(* locator stands for one CoinInfo.  Every coin starts among the received  *)
(* ones when its block is told and from there only moves on: confirmed,    *)
(* set aside with the transaction that spends it, spent in a told block.   *)
(***************************************************************************)
EXTENDS Wallet, SetSums

-----------------------------------------------------------------------------
(* The inductive invariant                                                 *)

\* CoinsOf with the transactions as a parameter.
CoinsIn(t, b) ==
    {[hash |-> x[1], index |-> x[2], amount |-> t[x[1]].Outputs[x[2]].amount, ptr |-> b.serial] :
        x \in {y \in b.txs \X (1..3) :
                  y[2] \in DOMAIN t[y[1]].Outputs /\ t[y[1]].Outputs[y[2]].mine}}

\* The blocks HandleBlock was called for, by their serial numbers, the coins
\* they brought and the transactions in them.
Told == {s \in 1..blocks : s \notin pending \cup missed}
ToldCoins == UNION {CoinsIn(txs, chain[s]) : s \in Told}
ToldTxs == UNION {chain[s].txs : s \in Told}

OutputType == [amount : Int, mine : BOOLEAN]
TransactionType == [Inputs : SUBSET (Nat \X Nat), Outputs : Seq(OutputType)]

ChainInv ==
    /\ txs \in Seq(TransactionType)
    /\ blocks \in Nat
    /\ chain \in Seq([serial : Nat, txs : SUBSET Nat])
    /\ Len(chain) = blocks
    /\ \A s \in 1..blocks : chain[s].serial = s /\ chain[s].txs \subseteq DOMAIN txs
    /\ \A s, t \in 1..blocks : s # t => chain[s].txs \cap chain[t].txs = {}
    /\ pending \subseteq 1..blocks /\ missed \subseteq 1..blocks
    /\ pending \cap missed = {}

\* Coins come from told blocks and are in one place.
PlacesInv ==
    /\ CoinCollection \subseteq ToldCoins
    /\ DOMAIN UnconfirmedSpentCoins \subseteq ToldCoins
    /\ DOMAIN UnconfirmedReceivedCoins \subseteq ToldCoins
    /\ CoinCollection \cap DOMAIN UnconfirmedSpentCoins = {}
    /\ CoinCollection \cap DOMAIN UnconfirmedReceivedCoins = {}
    /\ DOMAIN UnconfirmedSpentCoins \cap DOMAIN UnconfirmedReceivedCoins = {}

\* What is set aside for transaction h is what h spends, and for h alone.
UnseenInv ==
    /\ DOMAIN UnseenSpentCoins \subseteq DOMAIN txs \ ToldTxs
    /\ \A h \in DOMAIN UnseenSpentCoins :
         /\ txs[h].Inputs = Locators(UnseenSpentCoins[h])
         /\ UnseenSpentCoins[h] \subseteq ToldCoins
         /\ UnseenSpentCoins[h] \cap CoinCollection = {}
         /\ UnseenSpentCoins[h] \cap DOMAIN UnconfirmedSpentCoins = {}
         /\ UnseenSpentCoins[h] \cap DOMAIN UnconfirmedReceivedCoins = {}
         /\ \A g \in DOMAIN UnseenSpentCoins :
              g # h => UnseenSpentCoins[h] \cap UnseenSpentCoins[g] = {}

\* A transaction spends coins the wallet had and, fundings aside, cannot spend
\* once more.
InputsInv ==
    \A h \in DOMAIN txs : \A cl \in txs[h].Inputs :
        \E c \in ToldCoins : /\ Locator(c) = cl
                             /\ c \notin DOMAIN UnconfirmedReceivedCoins
                             /\ NoFunding => c \notin CoinCollection

\* The coins of a transaction are set aside until its block is told.
RequestsInv ==
    NoFunding => \A h \in DOMAIN txs \ ToldTxs :
                    txs[h].Inputs # {} => h \in DOMAIN UnseenSpentCoins

SpendsInv == NoFunding => NoCoinSpentTwice

\* OwnedExactly, for coins in place of their locators.
OwnedInv ==
    missed = {} /\ NoFunding =>
        \A c \in ToldCoins :
            c \in CoinCollection \cup Reserved \cup DOMAIN UnconfirmedReceivedCoins
                <=> Locator(c) \notin SpentBy(ToldTxs)

\* The confirmations of a coin are blocks on top of it or lower blocks that its
\* own overtook, and the pending ones will still be counted.
DeepInv ==
    /\ IsFiniteSet(pending) /\ blocks <= MaxBlocks /\ overtook \in [1..MaxBlocks -> Nat]
    /\ \A c \in DOMAIN UnconfirmedReceivedCoins :
         /\ UnconfirmedReceivedCoins[c] \in Nat
         /\ UnconfirmedReceivedCoins[c] + Cardinality(pending)
               <= overtook[c.ptr] + blocks - c.ptr + 1
    /\ \A c \in CoinCollection : overtook[c.ptr] + blocks - c.ptr >= SafeBlockAmount

ValueInv ==
    /\ IsFiniteSet(CoinCollection)
    /\ IsFiniteSet(DOMAIN UnconfirmedReceivedCoins)
    /\ BalanceIsCoins

NoForkInv ==
    /\ ChainInv /\ PlacesInv /\ UnseenInv /\ InputsInv /\ RequestsInv /\ SpendsInv
    /\ OwnedInv /\ DeepInv /\ ValueInv

WInv == forks \in Nat /\ (OneChain => NoForkInv)

-----------------------------------------------------------------------------
(* Coins and locators                                                      *)

\* What a coin of a block is.
LEMMA CoinFacts ==
    ASSUME NEW t, NEW b, NEW c \in CoinsIn(t, b)
    PROVE  /\ c.ptr = b.serial /\ c.hash \in b.txs /\ c.index \in 1..3
           /\ c = [hash |-> c.hash, index |-> c.index,
                   amount |-> t[c.hash].Outputs[c.index].amount, ptr |-> b.serial]
           /\ c.index \in DOMAIN t[c.hash].Outputs /\ t[c.hash].Outputs[c.index].mine
<1>1. PICK x \in b.txs \X (1..3) :
         /\ c = [hash |-> x[1], index |-> x[2],
                 amount |-> t[x[1]].Outputs[x[2]].amount, ptr |-> b.serial]
         /\ x[2] \in DOMAIN t[x[1]].Outputs /\ t[x[1]].Outputs[x[2]].mine
  BY DEF CoinsIn
<1> QED BY <1>1

\* HandleBlock finds these coins.
LEMMA CoinsOfIsCoinsIn ==
    ASSUME NEW b
    PROVE  CoinsOf(b) = CoinsIn(txs, b)
BY DEF CoinsOf, CoinsIn

\* They depend on the transactions in the block only.
LEMMA CoinsInKept ==
    ASSUME NEW t, NEW u, NEW b, \A h \in b.txs : u[h] = t[h]
    PROVE  CoinsIn(u, b) = CoinsIn(t, b)
BY DEF CoinsIn

\* A coin of a told block: its pointer is that block.
LEMMA ToldFacts ==
    ASSUME ChainInv, NEW c \in ToldCoins
    PROVE  /\ c.ptr \in Told /\ c \in CoinsIn(txs, chain[c.ptr]) /\ c.hash \in chain[c.ptr].txs
           /\ c.hash \in ToldTxs
           /\ c.hash \in DOMAIN txs /\ c.index \in 1..3
           /\ c.amount \in Int
<1>1. PICK s \in Told : c \in CoinsIn(txs, chain[s])
  BY DEF ToldCoins
<1>2. s \in 1..blocks /\ chain[s].serial = s
  BY DEF Told, ChainInv
<1>3. c.ptr = s /\ c.hash \in chain[s].txs /\ c.index \in 1..3
  BY <1>1, <1>2, CoinFacts
<1>4. c.hash \in DOMAIN txs
  BY <1>2, <1>3 DEF ChainInv
<1>5. /\ c.amount = txs[c.hash].Outputs[c.index].amount
      /\ c.index \in DOMAIN txs[c.hash].Outputs
  <2>1. /\ c = [hash |-> c.hash, index |-> c.index,
                amount |-> txs[c.hash].Outputs[c.index].amount, ptr |-> chain[s].serial]
        /\ c.index \in DOMAIN txs[c.hash].Outputs
    BY <1>1, CoinFacts
  <2> QED BY <2>1
<1>6. txs[c.hash].Outputs[c.index] \in OutputType
  <2>1. txs[c.hash] \in TransactionType
    BY <1>4 DEF ChainInv
  <2>2. txs[c.hash].Outputs \in Seq(OutputType)
    BY <2>1 DEF TransactionType
  <2> QED BY <1>5, <2>2
<1>7. c.amount \in Int
  BY <1>5, <1>6 DEF OutputType
<1> QED BY <1>1, <1>3, <1>4, <1>7 DEF ToldTxs

\* A locator stands for one told coin.
LEMMA OneCoin ==
    ASSUME ChainInv, NEW c \in ToldCoins, NEW d \in ToldCoins, Locator(c) = Locator(d)
    PROVE  c = d
<1>1. c.hash = d.hash /\ c.index = d.index
  BY DEF Locator
<1>2. c.ptr = d.ptr
  BY <1>1, ToldFacts DEF ChainInv, Told
<1>3. /\ c = [hash |-> c.hash, index |-> c.index,
              amount |-> txs[c.hash].Outputs[c.index].amount, ptr |-> chain[c.ptr].serial]
      /\ d = [hash |-> d.hash, index |-> d.index,
              amount |-> txs[d.hash].Outputs[d.index].amount, ptr |-> chain[d.ptr].serial]
  BY ToldFacts, CoinFacts
<1> QED BY <1>1, <1>2, <1>3

\* A coin whose locator is in the locators of told coins is one of them.
LEMMA LocatorIn ==
    ASSUME ChainInv, NEW c \in ToldCoins, NEW S \in SUBSET ToldCoins,
           Locator(c) \in Locators(S)
    PROVE  c \in S
BY OneCoin DEF Locators

\* The choice of inputs only takes coins of the collection.
LEMMA ChoicesFromCollection ==
    ASSUME NEW need, NEW coins \in InputChoices(need)
    PROVE  coins \subseteq CoinCollection
BY DEF InputChoices

-----------------------------------------------------------------------------
(* Amounts                                                                 *)

\* Total is a sum in the sense of SetSums.
LEMMA TotalIsSum ==
    ASSUME NEW S, IsFiniteSet(S), NEW f, \A c \in S : f[c] = c.amount
    PROVE  Total(S) = SumOver(f, S)
<1> DEFINE Is(g) == g = [s \in SUBSET S |-> IF s = {} THEN 0
                          ELSE LET x == CHOOSE y \in s : TRUE IN x.amount + g[s \ {x}]]
<1>1. Total(S) = (CHOOSE g : Is(g))[S]
  BY DEF Total, MapThenSumSet, MapThenFoldSet
<1>2. \A s \in SUBSET S : s # {} =>
         LET x == CHOOSE y \in s : TRUE IN x.amount = f[x]
  OBVIOUS
<1>3. ASSUME NEW g PROVE Is(g) <=> Sums(f, g, SUBSET S)
  BY <1>2 DEF Sums
<1>4. PICK g : g = CHOOSE j : Sums(f, j, SUBSET S)
  OBVIOUS
<1>5. Sums(f, g, SUBSET S) /\ SumOver(f, S) = g[S]
  BY <1>4, SumsExist, SumIsFold
<1>6. PICK k : k = CHOOSE j : Is(j)
  OBVIOUS
<1> HIDE DEF Is
<1>7. Is(k) /\ Total(S) = k[S]
  BY <1>1, <1>3, <1>5, <1>6
<1>8. k[S] = g[S]
  BY <1>3, <1>5, <1>7, SumsAgree
<1> QED BY <1>5, <1>7, <1>8

\* A total of amounts is an integer.
LEMMA TotalType ==
    ASSUME NEW S, IsFiniteSet(S), \A c \in S : c.amount \in Int
    PROVE  Total(S) \in Int
<1>1. PICK f : f = [c \in S |-> c.amount]
  OBVIOUS
<1>2. \A c \in S : f[c] = c.amount /\ f[c] \in Int
  BY <1>1
<1> QED BY <1>2, SumType, TotalIsSum

\* The totals of two disjoint sets of coins add up.
LEMMA TotalUnion ==
    ASSUME NEW A, NEW B, IsFiniteSet(A), IsFiniteSet(B), A \cap B = {},
           \A c \in A \cup B : c.amount \in Int
    PROVE  Total(A \cup B) = Total(A) + Total(B)
<1>1. PICK f : f = [c \in A \cup B |-> c.amount]
  OBVIOUS
<1>2. \A c \in A \cup B : f[c] = c.amount /\ f[c] \in Int
  BY <1>1
<1>3. SumOver(f, A \cup B) = SumOver(f, A) + SumOver(f, B)
  BY <1>2, SumUnion
<1>4. IsFiniteSet(A \cup B)
  BY FS_Union
<1> QED BY <1>2, <1>3, <1>4, TotalIsSum

\* Without coins there is no amount.
LEMMA TotalEmpty == Total({}) = 0
<1>1. PICK f : f = [c \in {} |-> 0]
  OBVIOUS
<1> QED BY <1>1, FS_EmptySet, SumEmpty, TotalIsSum

-----------------------------------------------------------------------------
(* Steps that tell the wallet nothing                                      *)

\* Transactions and blocks are added; the told blocks stay the same.
Extended ==
    /\ \A h \in DOMAIN txs : h \in DOMAIN txs' /\ txs'[h] = txs[h]
    /\ \A s \in 1..blocks : chain'[s] = chain[s]
    /\ Told' = Told

\* Then the wallet has seen the same coins and transactions as before.
LEMMA ToldKept ==
    ASSUME ChainInv, Extended
    PROVE  /\ ToldCoins' = ToldCoins
           /\ ToldTxs' = ToldTxs
           /\ SpentBy(ToldTxs)' = SpentBy(ToldTxs)
           /\ NoFunding' => NoFunding
<1>1. \A s \in Told : s \in 1..blocks /\ chain'[s] = chain[s] /\ chain[s].txs \subseteq DOMAIN txs
  BY DEF Told, Extended, ChainInv
<1>2. \A s \in Told : CoinsIn(txs', chain'[s]) = CoinsIn(txs, chain[s])
  BY <1>1, CoinsInKept DEF Extended
<1>3. ToldCoins' = ToldCoins
  BY <1>2 DEF ToldCoins, Extended
<1>4. ToldTxs' = ToldTxs
  BY <1>1 DEF ToldTxs, Extended
<1>5. ToldTxs \subseteq DOMAIN txs
  BY <1>1 DEF ToldTxs
<1>6. SpentBy(ToldTxs)' = SpentBy(ToldTxs)
  BY <1>4, <1>5 DEF SpentBy, Extended
<1>7. NoFunding' => NoFunding
  BY DEF NoFunding, Extended
<1> QED BY <1>3, <1>4, <1>6, <1>7

\* A transaction is made.
LEMMA TransactionMade ==
    ASSUME ChainInv, NEW t \in TransactionType, txs' = Append(txs, t),
           UNCHANGED <<chain, pending, missed, blocks>>
    PROVE  /\ ChainInv' /\ Extended
           /\ Len(txs) + 1 \notin DOMAIN txs
           /\ DOMAIN txs' = DOMAIN txs \cup {Len(txs) + 1}
           /\ txs'[Len(txs) + 1] = t
<1>1. txs \in Seq(TransactionType) /\ Len(txs) \in Nat /\ DOMAIN txs = 1..Len(txs)
  BY DEF ChainInv
<1>2. /\ txs' \in Seq(TransactionType)
      /\ DOMAIN txs' = 1..(Len(txs) + 1)
      /\ \A h \in DOMAIN txs : txs'[h] = txs[h]
      /\ txs'[Len(txs) + 1] = t
  BY <1>1
<1>3. Extended
  BY <1>1, <1>2 DEF Extended, Told
<1>4. ChainInv'
  BY <1>1, <1>2 DEF ChainInv
<1> QED BY <1>1, <1>2, <1>3, <1>4

\* The coins a transaction takes have locators and an amount.
LEMMA TakenCoins ==
    ASSUME NoForkInv, NEW coins \in SUBSET CoinCollection
    PROVE  /\ coins \in SUBSET ToldCoins
           /\ IsFiniteSet(coins) /\ IsFiniteSet(CoinCollection \ coins)
           /\ Locators(coins) \in SUBSET (Nat \X Nat)
           /\ Total(coins) \in Int /\ Total(CoinCollection \ coins) \in Int
           /\ Total(CoinCollection) = Total(coins) + Total(CoinCollection \ coins)
<1>1. coins \in SUBSET ToldCoins /\ CoinCollection \in SUBSET ToldCoins
  BY DEF NoForkInv, PlacesInv
<1>2. \A c \in CoinCollection : c.amount \in Int /\ c.hash \in Nat /\ c.index \in Nat
  <2>1. \A c \in CoinCollection : c.amount \in Int /\ c.hash \in DOMAIN txs /\ c.index \in 1..3
    BY <1>1, ToldFacts DEF NoForkInv
  <2>2. DOMAIN txs \subseteq Nat
    BY DEF NoForkInv, ChainInv
  <2> QED BY <2>1, <2>2
<1>3. IsFiniteSet(CoinCollection)
  BY DEF NoForkInv, ValueInv
<1>4. IsFiniteSet(coins) /\ IsFiniteSet(CoinCollection \ coins)
  BY <1>3, FS_Subset
<1>5. Locators(coins) \in SUBSET (Nat \X Nat)
  BY <1>2 DEF Locators, Locator
<1>6. Total(coins) \in Int /\ Total(CoinCollection \ coins) \in Int
  BY <1>2, <1>4, TotalType
<1>7. Total(CoinCollection) = Total(coins) + Total(CoinCollection \ coins)
  <2>1. CoinCollection = coins \cup (CoinCollection \ coins)
    OBVIOUS
  <2>2. coins \cap (CoinCollection \ coins) = {}
    OBVIOUS
  <2>3. Total(coins \cup (CoinCollection \ coins)) = Total(coins) + Total(CoinCollection \ coins)
    BY <1>2, <1>4, <2>2, TotalUnion
  <2> QED BY <2>1, <2>3
<1> QED BY <1>1, <1>4, <1>5, <1>6, <1>7

\* A funding leaves the wallet as it is, and is one more spender of its coins.
LEMMA FundingStep ==
    ASSUME NoForkInv, NEW amount \in Int, NEW fee \in Int,
           GenerateFundingTransaction(amount, fee)
    PROVE  NoForkInv'
<1> USE WordAssumption
<1>0. PICK need : need = (amount + 2 * fee) % Word /\ need \in Int
  OBVIOUS
<1>1. PICK coins \in InputChoices(need) :
         txs' = Append(txs, [Inputs |-> Locators(coins),
                             Outputs |-> <<Output(amount, TRUE), Output(0, TRUE),
                                    Output((Total(coins) - need + fee) % Word, TRUE)>>])
  BY <1>0 DEF GenerateFundingTransaction
<1>2. coins \in SUBSET CoinCollection
  BY <1>1, ChoicesFromCollection
<1>3. UNCHANGED <<walletVars, chain, pending, missed, overtook, blocks>>
  BY DEF GenerateFundingTransaction
<1>4. PICK t : t = [Inputs |-> Locators(coins),
                    Outputs |-> <<Output(amount, TRUE), Output(0, TRUE),
                                  Output((Total(coins) - need + fee) % Word, TRUE)>>]
  OBVIOUS
<1>5. t \in TransactionType /\ Len(t.Outputs) = 3 /\ t.Inputs = Locators(coins)
  <2>1. (Total(coins) - need + fee) % Word \in Int
    <3>1. PICK total : total = Total(coins)
      OBVIOUS
    <3>2. total \in Int
      BY <1>2, <3>1, TakenCoins
    <3>3. (total - need + fee) % Word \in Int
      BY <1>0, <3>2
    <3> QED BY <3>1, <3>3
  <2>2. <<Output(amount, TRUE), Output(0, TRUE),
          Output((Total(coins) - need + fee) % Word, TRUE)>> \in Seq(OutputType)
    BY <2>1 DEF Output, OutputType
  <2> QED BY <1>2, <1>4, <2>2, TakenCoins DEF TransactionType
<1>6. /\ ChainInv' /\ Extended
      /\ Len(txs) + 1 \notin DOMAIN txs
      /\ DOMAIN txs' = DOMAIN txs \cup {Len(txs) + 1}
      /\ txs'[Len(txs) + 1] = t
  BY <1>1, <1>3, <1>4, <1>5, TransactionMade DEF NoForkInv
<1>7. /\ ToldCoins' = ToldCoins /\ ToldTxs' = ToldTxs /\ Told' = Told
      /\ \A h \in DOMAIN txs : txs'[h] = txs[h]
  BY <1>6, ToldKept DEF NoForkInv, Extended
<1>8. ~NoFunding'
  <2>1. PICK h : h = Len(txs) + 1
    OBVIOUS
  <2>2. h \in DOMAIN txs' /\ Len(txs'[h].Outputs) = 3
    BY <1>5, <1>6, <2>1
  <2>3. ASSUME NoFunding' PROVE FALSE
    <3>1. PICK n : n = Len(txs'[h].Outputs)
      OBVIOUS
    <3>2. n < 3
      BY <2>2, <2>3, <3>1, Zenon DEF NoFunding
    <3>3. n = 3
      BY <2>2, <3>1
    <3> QED BY <3>2, <3>3
  <2> QED BY <2>3
<1>9. PlacesInv' /\ DeepInv' /\ ValueInv'
  BY <1>3, <1>7 DEF NoForkInv, PlacesInv, DeepInv, ValueInv, BalanceIsCoins, walletVars
<1>10. UnseenInv'
  BY <1>3, <1>6, <1>7 DEF NoForkInv, UnseenInv, walletVars
<1>11. InputsInv'
  <2> SUFFICES ASSUME NEW h \in DOMAIN txs', NEW cl \in txs'[h].Inputs
               PROVE  \E c \in ToldCoins : /\ Locator(c) = cl
                                           /\ c \notin DOMAIN UnconfirmedReceivedCoins
    BY <1>3, <1>7, <1>8 DEF InputsInv, walletVars
  <2>1. CASE h \in DOMAIN txs
    BY <1>7, <2>1 DEF NoForkInv, InputsInv
  <2>2. CASE h = Len(txs) + 1
    BY <1>2, <1>5, <1>6, <2>2 DEF NoForkInv, PlacesInv, Locators
  <2> QED BY <1>6, <2>1, <2>2
<1> QED BY <1>6, <1>8, <1>9, <1>10, <1>11 DEF NoForkInv, RequestsInv, SpendsInv, OwnedInv

\* The coins set aside, one by one.
LEMMA ReservedFacts ==
    ASSUME NEW c
    PROVE  c \in Reserved <=> \E h \in DOMAIN UnseenSpentCoins : c \in UnseenSpentCoins[h]
BY DEF Reserved, Range

\* Sequences of two elements at most.
LEMMA ShortSequences ==
    ASSUME NEW S, NEW x \in S, NEW y \in S
    PROVE  <<x, y>> \in Seq(S) /\ <<x>> \in Seq(S) /\ <<>> \in Seq(S)
OBVIOUS

\* The balance goes down by what is taken, whatever wraps on the way.
BalanceGoesDown(total, taken, spent, change) ==
    ((total % Word) - (spent + change)) % Word = (total - taken) % Word

\* It does when the change is what is taken less what is spent.
LEMMA BalanceTaken ==
    ASSUME NEW total \in Int, NEW taken \in Int, NEW spent \in Int, NEW change,
           change = (taken - (spent % Word)) % Word
    PROVE  BalanceGoesDown(total, taken, spent, change)
<1> USE WordAssumption DEF BalanceGoesDown
<1>2. change = (taken - spent) % Word
  BY WordSubtract
<1>3. change \in Int
  BY <1>2
<1>4. ((total % Word) - (spent + change)) % Word = (total - (spent + change)) % Word
  <2>1. PICK m : m = -(spent + change) /\ m \in Int
    BY <1>3
  <2>2. ((total % Word) + m) % Word = (total + m) % Word
    BY <2>1, WordAdd
  <2>3. PICK r : r = total % Word /\ r \in Int
    OBVIOUS
  <2>4. r + m = r - (spent + change) /\ total + m = total - (spent + change)
    BY <1>3, <2>1, <2>3
  <2> QED BY <2>2, <2>3, <2>4
<1>5. (total - (spent + change)) % Word = (total - taken) % Word
  <2>1. PICK b, d : b = total - spent /\ d = taken - spent /\ b \in Int /\ d \in Int
    OBVIOUS
  <2>2. (b - (d % Word)) % Word = (b - d) % Word
    BY <2>1, WordSubtract
  <2>3. b - change = total - (spent + change) /\ b - d = total - taken /\ change = d % Word
    BY <1>2, <1>3, <2>1
  <2> QED BY <2>2, <2>3
<1> QED BY <1>4, <1>5

\* A request moves coins from the collection to the transaction it makes.
LEMMA RequestStep ==
    ASSUME NoForkInv, NEW amount \in Int, NEW fee \in Int, NEW receiver \in BOOLEAN,
           RequestTransaction(amount, fee, receiver)
    PROVE  NoForkInv'
<1> USE WordAssumption
<1>0. PICK cost : cost = Cost(amount, fee) /\ cost \in Int
  BY DEF Cost
<1>1. PICK coins, change, n, t :
         /\ coins \in InputChoices(cost)
         /\ change = (Total(coins) - cost) % Word
         /\ coins # {}
         /\ n = Len(txs) + 1
         /\ t = [Inputs |-> Locators(coins),
                 Outputs |-> generateTransactionOutputs(amount, receiver, change)]
         /\ txs' = Append(txs, t)
         /\ UnseenSpentCoins' = [h \in DOMAIN UnseenSpentCoins \cup {n} |->
                                    IF h = n THEN coins ELSE UnseenSpentCoins[h]]
         /\ CoinCollection' = CoinCollection \ coins
         /\ Balance' = (Balance - (amount + fee + change)) % Word
  BY <1>0 DEF RequestTransaction, TakeAside
<1>2. coins \in SUBSET CoinCollection
  BY <1>1, ChoicesFromCollection
<1>3. UNCHANGED <<UnconfirmedSpentCoins, UnconfirmedReceivedCoins, chain, pending, missed,
                  overtook, blocks>>
  BY DEF RequestTransaction
<1>4. PICK total : total = Total(coins) /\ total \in Int
  BY <1>2, TakenCoins
<1>5. t \in TransactionType /\ t.Inputs = Locators(coins)
  <2>1. change \in Int
    BY <1>0, <1>1, <1>4
  <2>2. generateTransactionOutputs(amount, receiver, change) \in Seq(OutputType)
    <3>1. Output(amount, FALSE) \in OutputType /\ Output(change, TRUE) \in OutputType
      BY <2>1 DEF Output, OutputType
    <3>2. /\ <<Output(amount, FALSE), Output(change, TRUE)>> \in Seq(OutputType)
          /\ <<Output(amount, FALSE)>> \in Seq(OutputType) /\ <<>> \in Seq(OutputType)
      BY <3>1, ShortSequences
    <3> QED BY <3>2 DEF generateTransactionOutputs
  <2> QED BY <1>1, <1>2, <2>2, TakenCoins DEF TransactionType
<1>6. /\ ChainInv' /\ Extended
      /\ n \notin DOMAIN txs
      /\ DOMAIN txs' = DOMAIN txs \cup {n}
      /\ txs'[n] = t
  BY <1>1, <1>3, <1>5, TransactionMade DEF NoForkInv
<1>7. /\ ToldCoins' = ToldCoins /\ ToldTxs' = ToldTxs /\ Told' = Told
      /\ SpentBy(ToldTxs)' = SpentBy(ToldTxs)
      /\ NoFunding' => NoFunding
      /\ \A h \in DOMAIN txs : txs'[h] = txs[h]
  BY <1>6, ToldKept DEF NoForkInv, Extended
<1>8. coins \in SUBSET ToldCoins /\ CoinCollection' = CoinCollection \ coins
  BY <1>1, <1>2, TakenCoins
<1>9. PlacesInv'
  BY <1>1, <1>3, <1>7 DEF NoForkInv, PlacesInv
<1>10. DOMAIN UnseenSpentCoins \subseteq DOMAIN txs
  BY DEF NoForkInv, UnseenInv
<1>11. /\ DOMAIN UnseenSpentCoins' = DOMAIN UnseenSpentCoins \cup {n}
       /\ UnseenSpentCoins'[n] = coins
       /\ \A h \in DOMAIN UnseenSpentCoins : UnseenSpentCoins'[h] = UnseenSpentCoins[h]
  BY <1>1, <1>6, <1>10
<1>12. UnseenInv'
  <2>1. n \notin ToldTxs
    BY <1>6 DEF NoForkInv, ChainInv, ToldTxs, Told
  <2>2. DOMAIN UnseenSpentCoins' \subseteq DOMAIN txs' \ ToldTxs'
    BY <1>6, <1>7, <1>11, <2>1 DEF NoForkInv, UnseenInv
  <2>3. ASSUME NEW h \in DOMAIN UnseenSpentCoins'
        PROVE  /\ txs'[h].Inputs = Locators(UnseenSpentCoins'[h])
               /\ UnseenSpentCoins'[h] \subseteq ToldCoins'
               /\ UnseenSpentCoins'[h] \cap CoinCollection' = {}
               /\ UnseenSpentCoins'[h] \cap DOMAIN UnconfirmedSpentCoins' = {}
               /\ UnseenSpentCoins'[h] \cap DOMAIN UnconfirmedReceivedCoins' = {}
    <3>1. CASE h = n
      BY <1>2, <1>3, <1>5, <1>6, <1>7, <1>8, <1>11, <3>1 DEF NoForkInv, PlacesInv
    <3>2. CASE h \in DOMAIN UnseenSpentCoins
      BY <1>3, <1>7, <1>8, <1>10, <1>11, <3>2 DEF NoForkInv, UnseenInv
    <3> QED BY <1>11, <3>1, <3>2
  <2>4. ASSUME NEW h \in DOMAIN UnseenSpentCoins', NEW g \in DOMAIN UnseenSpentCoins', g # h
        PROVE  UnseenSpentCoins'[h] \cap UnseenSpentCoins'[g] = {}
    <3>1. \A k \in DOMAIN UnseenSpentCoins : UnseenSpentCoins[k] \cap coins = {}
      BY <1>2 DEF NoForkInv, UnseenInv
    <3>2. CASE h = n
      BY <1>11, <2>4, <3>1, <3>2
    <3>3. CASE g = n
      BY <1>11, <2>4, <3>1, <3>3
    <3>4. CASE h # n /\ g # n
      BY <1>11, <2>4, <3>4 DEF NoForkInv, UnseenInv
    <3> QED BY <3>2, <3>3, <3>4
  <2> QED BY <2>2, <2>3, <2>4 DEF UnseenInv
<1>13. InputsInv'
  <2> SUFFICES ASSUME NEW h \in DOMAIN txs', NEW cl \in txs'[h].Inputs
               PROVE  \E c \in ToldCoins' : /\ Locator(c) = cl
                                            /\ c \notin DOMAIN UnconfirmedReceivedCoins'
                                            /\ NoFunding' => c \notin CoinCollection'
    BY DEF InputsInv
  <2>1. CASE h \in DOMAIN txs
    BY <1>3, <1>7, <1>8, <2>1 DEF NoForkInv, InputsInv
  <2>2. CASE h = n
    BY <1>2, <1>3, <1>5, <1>6, <1>7, <1>8, <2>2 DEF NoForkInv, PlacesInv, Locators
  <2> QED BY <1>6, <2>1, <2>2
<1>14. RequestsInv'
  BY <1>6, <1>7, <1>11 DEF NoForkInv, RequestsInv
<1>15. SpendsInv'
  <2> SUFFICES ASSUME NoFunding
               PROVE  NoCoinSpentTwice'
    BY <1>7 DEF SpendsInv
  <2>1. ASSUME NEW g \in DOMAIN txs
        PROVE  txs[g].Inputs \cap Locators(coins) = {}
    <3> SUFFICES ASSUME NEW cl \in txs[g].Inputs, cl \in Locators(coins)
                 PROVE  FALSE
      OBVIOUS
    <3>1. PICK c \in ToldCoins : Locator(c) = cl /\ c \notin CoinCollection
      BY DEF NoForkInv, InputsInv
    <3>2. c \in coins
      BY <1>8, <3>1, LocatorIn DEF NoForkInv
    <3> QED BY <1>2, <3>1, <3>2
  <2>2. NoCoinSpentTwice
    BY DEF NoForkInv, SpendsInv
  <2> SUFFICES ASSUME NEW g \in DOMAIN txs', NEW h \in DOMAIN txs', g # h
               PROVE  txs'[g].Inputs \cap txs'[h].Inputs = {}
    BY DEF NoCoinSpentTwice
  <2>3. CASE g = n
    BY <1>5, <1>6, <1>7, <2>1, <2>3
  <2>4. CASE h = n
    BY <1>5, <1>6, <1>7, <2>1, <2>4
  <2>5. CASE g # n /\ h # n
    BY <1>6, <1>7, <2>2, <2>5 DEF NoCoinSpentTwice
  <2> QED BY <2>3, <2>4, <2>5
<1>16. OwnedInv'
  <2>1. ASSUME NEW c
        PROVE  c \in CoinCollection' \cup Reserved' <=> c \in CoinCollection \cup Reserved
    <3>1. c \in Reserved' <=> \E h \in DOMAIN UnseenSpentCoins' : c \in UnseenSpentCoins'[h]
      BY DEF Reserved, Range
    <3>2. c \in Reserved' <=> c \in coins \/ c \in Reserved
      BY <1>11, <3>1, ReservedFacts
    <3> QED BY <1>1, <1>2, <3>2
  <2> QED BY <1>3, <1>7, <2>1 DEF NoForkInv, OwnedInv
<1>17. DeepInv'
  BY <1>1, <1>3, <1>7 DEF NoForkInv, DeepInv
<1>18. ValueInv'
  <2>1. PICK all, rest : all = Total(CoinCollection) /\ rest = Total(CoinCollection \ coins)
    OBVIOUS
  <2>2. all \in Int /\ rest \in Int /\ all = total + rest
    BY <1>2, <1>4, <2>1, TakenCoins
  <2>3. PICK spent : spent = amount + fee /\ spent \in Int
    OBVIOUS
  <2>4. cost = spent % Word
    BY <1>0, <2>3 DEF Cost
  <2>5. ((all % Word) - (spent + change)) % Word = (all - total) % Word
    <3>1. change = (total - (spent % Word)) % Word
      BY <1>1, <1>4, <2>4
    <3>2. all \in Int /\ total \in Int /\ spent \in Int
      BY <1>4, <2>2, <2>3
    <3>3. BalanceGoesDown(all, total, spent, change)
      BY ONLY <3>1, <3>2, BalanceTaken
    <3> QED BY <3>3 DEF BalanceGoesDown
  <2>6. all - total = rest
    BY <1>4, <2>2
  <2>7. Balance = all % Word
    BY <2>1 DEF NoForkInv, ValueInv, BalanceIsCoins
  <2>8. Balance' = rest % Word
    BY <1>1, <2>3, <2>5, <2>6, <2>7
  <2>9. BalanceIsCoins'
    BY <1>8, <2>1, <2>8 DEF BalanceIsCoins
  <2>10. IsFiniteSet(CoinCollection')
    BY <1>1, <1>2, TakenCoins
  <2> QED BY <1>3, <2>9, <2>10 DEF NoForkInv, ValueInv
<1> QED BY <1>6, <1>9, <1>12, <1>13, <1>14, <1>15, <1>16, <1>17, <1>18 DEF NoForkInv

\* A block with transactions that are in no other one is added.
LEMMA BlockAdded ==
    ASSUME ChainInv, NEW held, NEW receipt \in TransactionType,
           \/ txs' = txs /\ held \in SUBSET (DOMAIN txs \ OnChain)
           \/ /\ txs' = Append(txs, receipt)
              /\ \E hashes \in SUBSET (DOMAIN txs \ OnChain) : held = hashes \cup {Len(txs) + 1},
           chain' = Append(chain, [serial |-> blocks + 1, txs |-> held]),
           blocks' = blocks + 1,
           \/ pending' = pending \cup {blocks + 1} /\ missed' = missed
           \/ pending' = pending /\ missed' = missed \cup {blocks + 1}
    PROVE  /\ ChainInv' /\ Extended
           /\ \A h \in DOMAIN txs' \ DOMAIN txs : txs'[h] = receipt
<1>0. txs \in Seq(TransactionType) /\ Len(txs) \in Nat /\ DOMAIN txs = 1..Len(txs)
  BY DEF ChainInv
<1>1. /\ txs \in Seq(TransactionType) /\ Len(txs) \in Nat /\ DOMAIN txs = 1..Len(txs)
      /\ blocks \in Nat /\ Len(chain) = blocks /\ chain \in Seq([serial : Nat, txs : SUBSET Nat])
      /\ DOMAIN chain = 1..blocks
  BY DEF ChainInv
<1>2. /\ txs' \in Seq(TransactionType)
      /\ \A h \in DOMAIN txs : h \in DOMAIN txs' /\ txs'[h] = txs[h]
      /\ \A h \in DOMAIN txs' \ DOMAIN txs : txs'[h] = receipt
      /\ held \subseteq DOMAIN txs'
      /\ DOMAIN txs' \subseteq Nat
  <2>1. CASE txs' = txs /\ held \in SUBSET (DOMAIN txs \ OnChain)
    BY ONLY <1>0, <2>1
  <2>2. CASE /\ txs' = Append(txs, receipt)
             /\ \E hashes \in SUBSET (DOMAIN txs \ OnChain) : held = hashes \cup {Len(txs) + 1}
    <3>1. txs' \in Seq(TransactionType) /\ DOMAIN txs' = 1..(Len(txs) + 1)
      BY ONLY <1>0, <2>2, receipt \in TransactionType
    <3>2. /\ \A h \in DOMAIN txs : h \in DOMAIN txs' /\ txs'[h] = txs[h]
          /\ txs'[Len(txs) + 1] = receipt
      BY ONLY <1>0, <2>2, <3>1
    <3>3. DOMAIN txs' \ DOMAIN txs = {Len(txs) + 1}
      BY <1>1, <3>1
    <3>4. held \subseteq DOMAIN txs \cup {Len(txs) + 1} /\ Len(txs) + 1 \in DOMAIN txs'
      BY ONLY <1>0, <2>2, <3>1
    <3> QED BY <3>1, <3>2, <3>3, <3>4
  <2> QED BY <2>1, <2>2
<1>3. \A s \in 1..blocks : chain[s].txs \subseteq OnChain /\ chain[s].txs \subseteq DOMAIN txs
  <2>1. \A s \in 1..blocks : chain[s] \in ToSet(chain)
    BY <1>1 DEF ToSet
  <2> QED BY <2>1 DEF OnChain, ChainInv
<1>4. \A s \in 1..blocks : chain[s].txs \cap held = {}
  <2>1. Len(txs) + 1 \notin DOMAIN txs
    BY <1>1
  <2> QED BY <1>3, <2>1
<1>5. PICK b : b = [serial |-> blocks + 1, txs |-> held]
  OBVIOUS
<1>6. b \in [serial : Nat, txs : SUBSET Nat] /\ b.serial = blocks + 1 /\ b.txs = held
  BY <1>1, <1>2, <1>5
<1>7. /\ chain' \in Seq([serial : Nat, txs : SUBSET Nat])
      /\ Len(chain') = blocks + 1
      /\ \A s \in 1..blocks : chain'[s] = chain[s]
      /\ chain'[blocks + 1] = b
  <2>1. chain' = Append(chain, b)
    BY <1>5
  <2>2. PICK B : B = [serial : Nat, txs : SUBSET Nat]
    OBVIOUS
  <2>3. chain \in Seq(B) /\ b \in B
    BY <1>1, <1>6, <2>2
  <2>4. chain' \in Seq(B)
    BY <2>1, <2>3
  <2> QED BY <1>1, <2>1, <2>2, <2>3, <2>4
<1>8. Told' = Told
  BY <1>1 DEF Told, ChainInv
<1>9. Extended
  BY <1>2, <1>7, <1>8 DEF Extended
<1>10. \A s \in 1..(blocks + 1) : s \in 1..blocks \/ s = blocks + 1
  BY <1>1
<1>11. \A s \in 1..blocks' : chain'[s].serial = s /\ chain'[s].txs \subseteq DOMAIN txs'
  <2>1. ASSUME NEW s \in 1..blocks
        PROVE  chain'[s].serial = s /\ chain'[s].txs \subseteq DOMAIN txs'
    BY <1>2, <1>3, <1>7 DEF ChainInv
  <2>2. chain'[blocks + 1].serial = blocks + 1 /\ chain'[blocks + 1].txs \subseteq DOMAIN txs'
    BY <1>2, <1>6, <1>7
  <2> QED BY <1>10, <2>1, <2>2
<1>12. ASSUME NEW s \in 1..blocks', NEW u \in 1..blocks', s # u
       PROVE  chain'[s].txs \cap chain'[u].txs = {}
  <2>1. CASE s = blocks + 1
    <3>1. u \in 1..blocks
      BY <1>10, <1>12, <2>1
    <3> QED BY <1>4, <1>6, <1>7, <2>1, <3>1
  <2>2. CASE u = blocks + 1
    <3>1. s \in 1..blocks
      BY <1>10, <1>12, <2>2
    <3> QED BY <1>4, <1>6, <1>7, <2>2, <3>1
  <2>3. CASE s \in 1..blocks /\ u \in 1..blocks
    BY <1>7, <1>12, <2>3 DEF ChainInv
  <2> QED BY <1>10, <2>1, <2>2, <2>3
<1>13. pending' \subseteq 1..blocks' /\ missed' \subseteq 1..blocks' /\ pending' \cap missed' = {}
  <2>1. /\ pending \subseteq 1..blocks /\ missed \subseteq 1..blocks /\ pending \cap missed = {}
        /\ blocks + 1 \notin 1..blocks /\ 1..blocks' = 1..blocks \cup {blocks + 1}
    BY <1>1 DEF ChainInv
  <2> QED BY <2>1
<1>14. ChainInv'
  BY <1>1, <1>2, <1>7, <1>11, <1>12, <1>13 DEF ChainInv
<1> QED BY <1>2, <1>9, <1>14

\* A new block changes nothing for the wallet before it is told.
LEMMA NewBlockStep ==
    ASSUME NoForkInv, NewBlock
    PROVE  NoForkInv'
<1>1. PICK hashes, paid, receipt, held :
         /\ hashes \in SUBSET DOMAIN txs /\ paid \in Receipts \cup {0}
         /\ Minable(hashes, OnChain)
         /\ receipt = Receipt(paid)
         /\ held = hashes \cup (IF paid = 0 THEN {} ELSE {Len(txs) + 1})
         /\ txs' = IF paid = 0 THEN txs ELSE Append(txs, receipt)
         /\ chain' = Append(chain, [serial |-> blocks + 1, txs |-> held])
  BY DEF NewBlock
<1>2. /\ blocks' = blocks + 1
      /\ \/ pending' = pending \cup {blocks + 1} /\ missed' = missed
         \/ pending' = pending /\ missed' = missed \cup {blocks + 1}
      /\ UNCHANGED <<walletVars, overtook>> /\ blocks < MaxBlocks
  BY DEF NewBlock
<1>3. receipt \in TransactionType /\ receipt.Inputs = {}
  <2>1. paid \in Int
    BY <1>1, AmountsAssumption, WordAssumption
  <2>2. <<Output(paid, TRUE)>> \in Seq(OutputType)
    <3>1. Output(paid, TRUE) \in OutputType
      BY <2>1 DEF Output, OutputType
    <3> QED BY <3>1, ShortSequences
  <2> QED BY <1>1, <2>2 DEF TransactionType, Receipt
<1>4. hashes \in SUBSET (DOMAIN txs \ OnChain)
  BY <1>1 DEF Minable
<1>5. \/ txs' = txs /\ held \in SUBSET (DOMAIN txs \ OnChain)
      \/ /\ txs' = Append(txs, receipt)
         /\ \E hs \in SUBSET (DOMAIN txs \ OnChain) : held = hs \cup {Len(txs) + 1}
  BY <1>1, <1>4
<1>6. /\ ChainInv' /\ Extended
      /\ \A h \in DOMAIN txs' \ DOMAIN txs : txs'[h] = receipt
  <2>1. ChainInv
    BY DEF NoForkInv
  <2>2. chain' = Append(chain, [serial |-> blocks + 1, txs |-> held])
    BY <1>1
  <2> QED BY <1>2, <1>3, <1>5, <2>1, <2>2, BlockAdded
<1>7. /\ ToldCoins' = ToldCoins /\ ToldTxs' = ToldTxs /\ Told' = Told
      /\ SpentBy(ToldTxs)' = SpentBy(ToldTxs)
      /\ NoFunding' => NoFunding
      /\ \A h \in DOMAIN txs : h \in DOMAIN txs' /\ txs'[h] = txs[h]
  BY <1>6, ToldKept DEF NoForkInv, Extended
<1>8. \A h \in DOMAIN txs' : h \in DOMAIN txs \/ txs'[h].Inputs = {}
  BY <1>3, <1>6
<1>9. PlacesInv' /\ ValueInv'
  BY <1>2, <1>7 DEF NoForkInv, PlacesInv, ValueInv, BalanceIsCoins, walletVars
<1>10. UnseenInv'
  BY <1>2, <1>7 DEF NoForkInv, UnseenInv, walletVars
<1>11. InputsInv'
  <2> SUFFICES ASSUME NEW h \in DOMAIN txs', NEW cl \in txs'[h].Inputs
               PROVE  \E c \in ToldCoins' : /\ Locator(c) = cl
                                            /\ c \notin DOMAIN UnconfirmedReceivedCoins'
                                            /\ NoFunding' => c \notin CoinCollection'
    BY DEF InputsInv
  <2>1. h \in DOMAIN txs
    BY <1>8
  <2> QED BY <1>2, <1>7, <2>1 DEF NoForkInv, InputsInv, walletVars
<1>12. RequestsInv' /\ SpendsInv'
  BY <1>2, <1>7, <1>8 DEF NoForkInv, RequestsInv, SpendsInv, NoCoinSpentTwice, walletVars
<1>13. OwnedInv'
  <2>1. missed' = {} => missed = {}
    BY <1>2
  <2>2. Reserved' = Reserved
    BY <1>2 DEF Reserved, walletVars
  <2> QED BY <1>2, <1>7, <2>1, <2>2 DEF NoForkInv, OwnedInv, walletVars
<1>14. DeepInv'
  <2>1. /\ blocks \in Nat /\ pending \subseteq 1..blocks /\ MaxBlocks \in Nat
        /\ \A c \in ToldCoins : c.ptr \in 1..blocks
    BY ToldFacts, BoundsAssumption DEF NoForkInv, ChainInv, Told
  <2>2. DeepInv
    BY DEF NoForkInv
  <2>3. PICK k \in Nat : k = Cardinality(pending)
    BY <2>2, FS_CardinalityType DEF DeepInv
  <2>4. IsFiniteSet(pending') /\ Cardinality(pending') \in Nat /\ Cardinality(pending') <= k + 1
    <3>1. CASE pending' = pending
      BY <2>2, <2>3, <3>1 DEF DeepInv
    <3>2. CASE pending' = pending \cup {blocks + 1}
      <4>1. blocks + 1 \notin pending
        BY <2>1
      <4>2. IsFiniteSet(pending)
        BY <2>2 DEF DeepInv
      <4>3. /\ IsFiniteSet(pending \cup {blocks + 1})
            /\ Cardinality(pending \cup {blocks + 1}) = Cardinality(pending) + 1
        BY ONLY <4>1, <4>2, FS_AddElement
      <4> QED BY <2>3, <3>2, <4>3
    <3> QED BY <1>2, <3>1, <3>2
  <2>5. blocks' \in Nat /\ blocks' <= MaxBlocks /\ blocks' = blocks + 1
    BY <1>2, <2>1
  <2>6. \A c \in DOMAIN UnconfirmedReceivedCoins \cup CoinCollection :
           c.ptr \in 1..blocks /\ overtook[c.ptr] \in Nat
    <3>1. \A c \in DOMAIN UnconfirmedReceivedCoins \cup CoinCollection : c.ptr \in 1..blocks
      BY <2>1 DEF NoForkInv, PlacesInv
    <3>2. \A i \in 1..blocks : i \in 1..MaxBlocks
      BY <2>1, <2>2 DEF DeepInv
    <3> QED BY <2>2, <3>1, <3>2 DEF DeepInv
  <2>7. ASSUME NEW c \in DOMAIN UnconfirmedReceivedCoins
        PROVE  UnconfirmedReceivedCoins[c] + Cardinality(pending')
                 <= overtook[c.ptr] + blocks' - c.ptr + 1
    <3>1. /\ UnconfirmedReceivedCoins[c] \in Nat
          /\ UnconfirmedReceivedCoins[c] + k <= overtook[c.ptr] + blocks - c.ptr + 1
      BY <2>2, <2>3 DEF DeepInv
    <3> QED BY <2>1, <2>4, <2>5, <2>6, <3>1
  <2>8. ASSUME NEW c \in CoinCollection
        PROVE  overtook[c.ptr] + blocks' - c.ptr >= SafeBlockAmount
    <3>1. overtook[c.ptr] + blocks - c.ptr >= SafeBlockAmount
      BY <2>2 DEF DeepInv
    <3> QED BY <2>1, <2>5, <2>6, <3>1, WordAssumption
  <2>9. UNCHANGED <<CoinCollection, UnconfirmedReceivedCoins, overtook>>
    BY <1>2 DEF walletVars
  <2> QED BY <2>2, <2>4, <2>5, <2>7, <2>8, <2>9 DEF DeepInv
<1> QED BY <1>6, <1>9, <1>10, <1>11, <1>12, <1>13, <1>14 DEF NoForkInv

-----------------------------------------------------------------------------
(* HandleBlock                                                             *)

\* A block brings finitely many coins.
LEMMA CoinsFinite ==
    ASSUME NEW t, NEW b, IsFiniteSet(b.txs)
    PROVE  IsFiniteSet(CoinsIn(t, b))
<1>1. PICK N, D : N = CoinsIn(t, b) /\ D = b.txs \X (1..3)
  OBVIOUS
<1>2. IsFiniteSet(D)
  <2>1. IsFiniteSet(1..3)
    <3>1. 1..3 \in SUBSET Nat /\ \A i \in 1..3 : i <= 3
      OBVIOUS
    <3> QED BY <3>1, FS_BoundedSetOfNaturals
  <2> QED BY <1>1, <2>1, FS_Product
<1>3. PICK f : f = [c \in N |-> <<c.hash, c.index>>]
  OBVIOUS
<1>4. f \in [N -> D]
  BY <1>1, <1>3, CoinFacts
<1>5. ASSUME NEW c \in N, NEW d \in N, f[c] = f[d] PROVE c = d
  <2>1. c.hash = d.hash /\ c.index = d.index
    BY <1>3, <1>5
  <2>2. /\ c = [hash |-> c.hash, index |-> c.index,
                amount |-> t[c.hash].Outputs[c.index].amount, ptr |-> b.serial]
        /\ d = [hash |-> d.hash, index |-> d.index,
                amount |-> t[d.hash].Outputs[d.index].amount, ptr |-> b.serial]
    BY <1>1, CoinFacts
  <2> QED BY <2>1, <2>2
<1>6. f \in Injection(N, D)
  BY <1>4, <1>5 DEF Injection, IsInjective
<1> QED BY <1>1, <1>2, <1>6, FS_Injection

\* Where the coins go: news are the coins of the block, shown those whose
\* spending it shows, done the received coins that are confirmed and gone the
\* spent ones that are.
Moves(news, shown, done, gone) ==
    /\ done \subseteq DOMAIN UnconfirmedReceivedCoins \cup news
    /\ gone \subseteq DOMAIN UnconfirmedSpentCoins \cup shown
    /\ CoinCollection' = (CoinCollection \ gone) \cup done
    /\ Balance' = (Balance + Total(done)) % Word
    /\ DOMAIN UnconfirmedSpentCoins' \subseteq DOMAIN UnconfirmedSpentCoins \cup shown
    /\ DOMAIN UnconfirmedReceivedCoins' = (DOMAIN UnconfirmedReceivedCoins \cup news) \ done
    /\ \A c \in done : c \notin news => UnconfirmedReceivedCoins[c] = SafeBlockAmount
    /\ \A c \in done : c \in news => SafeBlockAmount = 0
    /\ \A c \in DOMAIN UnconfirmedReceivedCoins' :
          UnconfirmedReceivedCoins'[c] = (IF c \in news THEN 0 ELSE UnconfirmedReceivedCoins[c]) + 1

\* HandleBlock moves coins in this way.
LEMMA HandleBlockMoves ==
    ASSUME NEW b, HandleBlock(b), NEW news, news = CoinsOf(b), NEW shown,
           shown = UNION {UnseenSpentCoins[h] : h \in Seen(b)}
    PROVE  \E done, gone : Moves(news, shown, done, gone)
<1>1. PICK spent, received :
         /\ spent = StartCounting(UnconfirmedSpentCoins, shown)
         /\ received = StartCounting(UnconfirmedReceivedCoins, news)
  OBVIOUS
<1>2. /\ UnconfirmedSpentCoins' = CountUp(spent)
      /\ UnconfirmedReceivedCoins' = CountUp(received)
      /\ CoinCollection' = (CoinCollection \ Confirmed(spent)) \cup Confirmed(received)
      /\ Balance' = (Balance + Total(Confirmed(received))) % Word
  BY <1>1 DEF HandleBlock
<1>3. /\ DOMAIN spent = DOMAIN UnconfirmedSpentCoins \cup shown
      /\ DOMAIN received = DOMAIN UnconfirmedReceivedCoins \cup news
      /\ \A c \in DOMAIN received :
            received[c] = IF c \in news THEN 0 ELSE UnconfirmedReceivedCoins[c]
  BY <1>1 DEF StartCounting
<1>4. PICK done, gone : done = Confirmed(received) /\ gone = Confirmed(spent)
  OBVIOUS
<1>5. /\ done \in SUBSET DOMAIN received /\ gone \in SUBSET DOMAIN spent
      /\ \A c \in done : received[c] = SafeBlockAmount
  BY <1>4 DEF Confirmed
<1>6. /\ DOMAIN UnconfirmedSpentCoins' = DOMAIN spent \ gone
      /\ DOMAIN UnconfirmedReceivedCoins' = DOMAIN received \ done
      /\ \A c \in DOMAIN received \ done : UnconfirmedReceivedCoins'[c] = received[c] + 1
  BY <1>2, <1>4 DEF CountUp
<1>7. /\ CoinCollection' = (CoinCollection \ gone) \cup done
      /\ Balance' = (Balance + Total(done)) % Word
  BY <1>2, <1>4
<1>8. /\ \A c \in done : c \notin news => UnconfirmedReceivedCoins[c] = SafeBlockAmount
      /\ \A c \in done : c \in news => SafeBlockAmount = 0
  BY <1>3, <1>5
<1>9. \A c \in DOMAIN UnconfirmedReceivedCoins' :
         UnconfirmedReceivedCoins'[c] = (IF c \in news THEN 0 ELSE UnconfirmedReceivedCoins[c]) + 1
  BY <1>3, <1>6
<1>10. Moves(news, shown, done, gone)
  BY <1>3, <1>5, <1>6, <1>7, <1>8, <1>9 DEF Moves
<1> QED BY <1>10

\* What becomes told: the block, its coins and its transactions, all new.
LEMMA BlockTold ==
    ASSUME ChainInv, NEW b \in ToSet(chain), HandleBlock(b)
    PROVE  /\ ChainInv' /\ b.serial \in pending /\ b = chain[b.serial]
           /\ b.serial \in 1..blocks /\ b.serial \notin Told /\ b.serial \notin missed
           /\ Told' = Told \cup {b.serial}
           /\ ToldCoins' = ToldCoins \cup CoinsIn(txs, b)
           /\ ToldTxs' = ToldTxs \cup b.txs
           /\ CoinsIn(txs, b) \cap ToldCoins = {}
           /\ b.txs \cap ToldTxs = {}
           /\ b.txs \subseteq DOMAIN txs /\ IsFiniteSet(b.txs)
<1>1. PICK s \in 1..blocks : b = chain[s]
  BY DEF ToSet, ChainInv
<1>2. b.serial = s /\ s \in pending /\ b.txs \subseteq DOMAIN txs
  BY <1>1 DEF ChainInv, HandleBlock
<1>3. /\ UNCHANGED <<txs, chain, missed, blocks>>
      /\ pending' = pending \ {s}
  BY <1>2 DEF HandleBlock
<1>4. s \notin missed /\ s \notin Told
  BY <1>2 DEF ChainInv, Told
<1>5. Told' = Told \cup {s}
  BY <1>1, <1>3, <1>4 DEF Told
<1>6. ToldCoins' = UNION {CoinsIn(txs, chain[r]) : r \in Told'}
  BY <1>3 DEF ToldCoins
<1>7. ToldCoins' = ToldCoins \cup CoinsIn(txs, b)
  BY <1>1, <1>5, <1>6 DEF ToldCoins
<1>8. ToldTxs' = ToldTxs \cup b.txs
  <2>1. ToldTxs' = UNION {chain[r].txs : r \in Told'}
    BY <1>3 DEF ToldTxs
  <2> QED BY <1>1, <1>5, <2>1 DEF ToldTxs
<1>9. CoinsIn(txs, b) \cap ToldCoins = {}
  <2> SUFFICES ASSUME NEW c \in CoinsIn(txs, b), c \in ToldCoins PROVE FALSE
    OBVIOUS
  <2>1. c.ptr = s
    BY <1>2, CoinFacts
  <2> QED BY <1>4, <2>1, ToldFacts
<1>10. b.txs \cap ToldTxs = {}
  <2>1. \A r \in Told : chain[r].txs \cap b.txs = {}
    BY <1>1, <1>4 DEF Told, ChainInv
  <2> QED BY <2>1 DEF ToldTxs
<1>11. IsFiniteSet(b.txs)
  <2>1. Len(txs) \in Nat /\ DOMAIN txs = 1..Len(txs)
    BY DEF ChainInv
  <2>2. b.txs \in SUBSET Nat /\ \A h \in b.txs : h <= Len(txs)
    BY <1>2, <2>1
  <2> QED BY <2>1, <2>2, FS_BoundedSetOfNaturals
<1>12. ChainInv'
  BY <1>3 DEF ChainInv
<1> QED BY <1>1, <1>2, <1>4, <1>5, <1>7, <1>8, <1>9, <1>10, <1>11, <1>12

\* HandleBlock keeps the invariant, whichever pending block it is called for.
LEMMA HandleBlockStep ==
    ASSUME NoForkInv, NEW b \in ToSet(chain), HandleBlock(b)
    PROVE  NoForkInv'
<1>1. ChainInv
  BY DEF NoForkInv
<1>2. PICK s, news, shown : /\ s = b.serial /\ news = CoinsIn(txs, b)
                            /\ shown = UNION {UnseenSpentCoins[h] : h \in Seen(b)}
  OBVIOUS
<1>3. /\ ChainInv' /\ s \in pending /\ b = chain[s]
      /\ s \in 1..blocks /\ s \notin Told /\ s \notin missed
      /\ Told' = Told \cup {s}
      /\ ToldCoins' = ToldCoins \cup news
      /\ ToldTxs' = ToldTxs \cup b.txs
      /\ news \cap ToldCoins = {}
      /\ b.txs \cap ToldTxs = {}
      /\ b.txs \subseteq DOMAIN txs /\ IsFiniteSet(b.txs)
  BY <1>1, <1>2, BlockTold
<1>4a. PICK done, gone : Moves(news, shown, done, gone)
  <2>1. news = CoinsOf(b)
    BY <1>2, CoinsOfIsCoinsIn
  <2>2. shown = UNION {UnseenSpentCoins[h] : h \in Seen(b)}
    BY <1>2
  <2> QED BY <2>1, <2>2, HandleBlockMoves
<1>4. /\ done \in SUBSET (DOMAIN UnconfirmedReceivedCoins \cup news)
      /\ gone \in SUBSET (DOMAIN UnconfirmedSpentCoins \cup shown)
      /\ CoinCollection' = (CoinCollection \ gone) \cup done
      /\ Balance' = (Balance + Total(done)) % Word
      /\ DOMAIN UnconfirmedSpentCoins' \subseteq DOMAIN UnconfirmedSpentCoins \cup shown
      /\ DOMAIN UnconfirmedReceivedCoins' = (DOMAIN UnconfirmedReceivedCoins \cup news) \ done
      /\ \A c \in done : c \notin news => UnconfirmedReceivedCoins[c] = SafeBlockAmount
      /\ \A c \in done : c \in news => SafeBlockAmount = 0
      /\ \A c \in DOMAIN UnconfirmedReceivedCoins' :
            UnconfirmedReceivedCoins'[c]
              = (IF c \in news THEN 0 ELSE UnconfirmedReceivedCoins[c]) + 1
  BY <1>4a DEF Moves
<1>5. /\ UNCHANGED <<txs, chain, missed, blocks>> /\ pending' = pending \ {s}
      /\ UnseenSpentCoins' = [h \in DOMAIN UnseenSpentCoins \ Seen(b) |-> UnseenSpentCoins[h]]
      /\ overtook' = [overtook EXCEPT ![s] = Cardinality({u \in pending : u < s})]
  BY <1>2 DEF HandleBlock
<1>6. /\ DOMAIN UnseenSpentCoins' = DOMAIN UnseenSpentCoins \ b.txs
      /\ \A h \in DOMAIN UnseenSpentCoins' : UnseenSpentCoins'[h] = UnseenSpentCoins[h]
  BY <1>5 DEF Seen
<1>7. \A c : c \in shown <=>
         \E h \in DOMAIN UnseenSpentCoins : h \in b.txs /\ c \in UnseenSpentCoins[h]
  BY <1>2 DEF Seen
<1>8. /\ shown \subseteq ToldCoins /\ shown \cap CoinCollection = {}
      /\ shown \cap DOMAIN UnconfirmedReceivedCoins = {}
  BY <1>7 DEF NoForkInv, UnseenInv
<1>9. CoinCollection' = CoinCollection \cup done
  BY <1>4, <1>8 DEF NoForkInv, PlacesInv
<1>10. PlacesInv'
  BY <1>3, <1>4, <1>8, <1>9 DEF NoForkInv, PlacesInv
<1>11. UnseenInv'
  <2>1. DOMAIN UnseenSpentCoins' \subseteq DOMAIN txs' \ ToldTxs'
    BY <1>3, <1>5, <1>6 DEF NoForkInv, UnseenInv
  <2>2. ASSUME NEW h \in DOMAIN UnseenSpentCoins'
        PROVE  /\ txs'[h].Inputs = Locators(UnseenSpentCoins'[h])
               /\ UnseenSpentCoins'[h] \subseteq ToldCoins'
               /\ UnseenSpentCoins'[h] \cap CoinCollection' = {}
               /\ UnseenSpentCoins'[h] \cap DOMAIN UnconfirmedSpentCoins' = {}
               /\ UnseenSpentCoins'[h] \cap DOMAIN UnconfirmedReceivedCoins' = {}
               /\ \A g \in DOMAIN UnseenSpentCoins' :
                    g # h => UnseenSpentCoins'[h] \cap UnseenSpentCoins'[g] = {}
    <3>1. /\ h \in DOMAIN UnseenSpentCoins /\ h \notin b.txs
          /\ UnseenSpentCoins'[h] = UnseenSpentCoins[h]
      BY <1>6
    <3>2. /\ txs[h].Inputs = Locators(UnseenSpentCoins[h])
          /\ UnseenSpentCoins[h] \subseteq ToldCoins
          /\ UnseenSpentCoins[h] \cap CoinCollection = {}
          /\ UnseenSpentCoins[h] \cap DOMAIN UnconfirmedSpentCoins = {}
          /\ UnseenSpentCoins[h] \cap DOMAIN UnconfirmedReceivedCoins = {}
          /\ \A g \in DOMAIN UnseenSpentCoins :
               g # h => UnseenSpentCoins[h] \cap UnseenSpentCoins[g] = {}
      BY <3>1 DEF NoForkInv, UnseenInv
    <3>3. UnseenSpentCoins[h] \cap shown = {}
      BY <1>7, <3>1, <3>2
    <3> QED BY <1>3, <1>4, <1>5, <1>6, <1>9, <3>1, <3>2, <3>3
  <2> QED BY <2>1, <2>2 DEF UnseenInv
<1>12. NoFunding' <=> NoFunding
  BY <1>5 DEF NoFunding
<1>13. InputsInv'
  <2> SUFFICES ASSUME NEW h \in DOMAIN txs', NEW cl \in txs'[h].Inputs
               PROVE  \E c \in ToldCoins' : /\ Locator(c) = cl
                                            /\ c \notin DOMAIN UnconfirmedReceivedCoins'
                                            /\ NoFunding' => c \notin CoinCollection'
    BY DEF InputsInv
  <2>1. PICK c \in ToldCoins : /\ Locator(c) = cl
                               /\ c \notin DOMAIN UnconfirmedReceivedCoins
                               /\ NoFunding => c \notin CoinCollection
    BY <1>5 DEF NoForkInv, InputsInv
  <2>2. c \notin news /\ c \notin done
    BY <1>3, <1>4, <2>1
  <2> QED BY <1>3, <1>4, <1>9, <1>12, <2>1, <2>2
<1>14. RequestsInv' /\ SpendsInv'
  BY <1>3, <1>5, <1>6, <1>12 DEF NoForkInv, RequestsInv, SpendsInv, NoCoinSpentTwice
<1>15. OwnedInv'
  <2> SUFFICES ASSUME missed = {}, NoFunding, NEW c \in ToldCoins'
               PROVE  c \in CoinCollection' \cup Reserved' \cup DOMAIN UnconfirmedReceivedCoins'
                          <=> Locator(c) \notin SpentBy(ToldTxs)'
    BY <1>5, <1>12 DEF OwnedInv
  <2>1. Locator(c) \in SpentBy(ToldTxs)' <=>
           \/ Locator(c) \in SpentBy(ToldTxs)
           \/ \E h \in b.txs : Locator(c) \in txs[h].Inputs
    BY <1>3, <1>5 DEF SpentBy
  <2>2. c \in Reserved' <=> \E h \in DOMAIN UnseenSpentCoins \ b.txs : c \in UnseenSpentCoins[h]
    <3>1. c \in Reserved' <=> \E h \in DOMAIN UnseenSpentCoins' : c \in UnseenSpentCoins'[h]
      BY DEF Reserved, Range
    <3> QED BY <1>6, <3>1
  <2>3. c \in CoinCollection' \cup DOMAIN UnconfirmedReceivedCoins'
           <=> c \in CoinCollection \cup DOMAIN UnconfirmedReceivedCoins \cup news
    BY <1>4, <1>9
  <2>4. CASE c \in ToldCoins
    <3>1. c \in CoinCollection \cup Reserved \cup DOMAIN UnconfirmedReceivedCoins
             <=> Locator(c) \notin SpentBy(ToldTxs)
      BY <2>4 DEF NoForkInv, OwnedInv
    <3>2. c \notin news
      BY <1>3, <2>4
    <3>3. c \in shown <=> \E h \in b.txs : Locator(c) \in txs[h].Inputs
      <4>1. ASSUME NEW h \in b.txs, Locator(c) \in txs[h].Inputs
            PROVE  c \in shown
        <5>1. h \in DOMAIN txs \ ToldTxs /\ txs[h].Inputs # {}
          BY <1>3, <4>1
        <5>2. h \in DOMAIN UnseenSpentCoins
          BY <5>1 DEF NoForkInv, RequestsInv
        <5>3. txs[h].Inputs = Locators(UnseenSpentCoins[h]) /\ UnseenSpentCoins[h] \subseteq ToldCoins
          BY <5>2 DEF NoForkInv, UnseenInv
        <5>4. c \in UnseenSpentCoins[h]
          BY <1>1, <2>4, <4>1, <5>3, LocatorIn
        <5> QED BY <1>7, <5>2, <5>4
      <4>2. ASSUME c \in shown
            PROVE  \E h \in b.txs : Locator(c) \in txs[h].Inputs
        <5>1. PICK h \in DOMAIN UnseenSpentCoins : h \in b.txs /\ c \in UnseenSpentCoins[h]
          BY <1>7, <4>2
        <5>2. txs[h].Inputs = Locators(UnseenSpentCoins[h])
          BY DEF NoForkInv, UnseenInv
        <5> QED BY <5>1, <5>2 DEF Locators
      <4> QED BY <4>1, <4>2
    <3>4. c \in Reserved <=> c \in Reserved' \/ c \in shown
      BY <1>7, <2>2, ReservedFacts
    <3>5. c \in shown => c \notin Reserved'
      BY <1>7, <2>2 DEF NoForkInv, UnseenInv
    <3> QED BY <1>8, <2>1, <2>3, <3>1, <3>2, <3>3, <3>4, <3>5
  <2>5. CASE c \in news
    <3>1. ASSUME NEW h \in DOMAIN txs PROVE Locator(c) \notin txs[h].Inputs
      <4> SUFFICES ASSUME Locator(c) \in txs[h].Inputs PROVE FALSE
        OBVIOUS
      <4>1. PICK d \in ToldCoins : Locator(d) = Locator(c)
        BY DEF NoForkInv, InputsInv
      <4>2. c.hash \in b.txs /\ d.hash \in ToldTxs
        BY <1>1, <1>2, <2>5, CoinFacts, ToldFacts
      <4> QED BY <1>3, <4>1, <4>2 DEF Locator
    <3>2. ToldTxs \subseteq DOMAIN txs
      BY <1>1 DEF ChainInv, ToldTxs, Told
    <3>3. Locator(c) \notin SpentBy(ToldTxs)'
      BY <1>3, <2>1, <3>1, <3>2 DEF SpentBy
    <3> QED BY <2>3, <2>5, <3>3
  <2> QED BY <1>3, <2>4, <2>5
<1>16. DeepInv'
  <2>0. DeepInv
    BY DEF NoForkInv
  <2>1. /\ blocks \in Nat /\ pending \subseteq 1..blocks /\ s \in 1..MaxBlocks
        /\ blocks <= MaxBlocks /\ MaxBlocks \in Nat
    BY <1>1, <1>3, <2>0, BoundsAssumption DEF ChainInv, DeepInv
  <2>2. PICK lower, upper, k, l :
           /\ lower = {u \in pending : u < s} /\ upper = {u \in pending : u > s}
           /\ k = Cardinality(pending) /\ l = Cardinality(lower)
    OBVIOUS
  <2>3. /\ IsFiniteSet(pending') /\ k \in Nat /\ l \in Nat
        /\ Cardinality(pending') = k - 1 /\ k - 1 \in Nat /\ k - 1 <= l + blocks - s
    <3>1. IsFiniteSet(lower) /\ IsFiniteSet(upper) /\ IsFiniteSet(pending)
      BY <2>0, <2>2, FS_Subset DEF DeepInv
    <3>0. s \in Nat /\ s <= blocks /\ \A u \in pending : u \in Nat /\ u <= blocks
      <4>1. s \in 1..blocks
        BY <1>3
      <4> QED BY ONLY <2>1, <4>1
    <3>a. \A u \in pending : u = s \/ u < s \/ u > s
      BY <3>0
    <3>b. \A u \in pending : ~(u < s /\ u > s) /\ (u = s => ~(u < s) /\ ~(u > s))
      BY <3>0
    <3>c. pending' = pending \ {s}
      BY <1>5
    <3>2. pending' = lower \cup upper /\ lower \cap upper = {}
      BY <2>2, <3>a, <3>b, <3>c, Zenon
    <3>3. k \in Nat /\ l \in Nat /\ Cardinality(upper) \in Nat
      BY <2>2, <3>1, FS_CardinalityType
    <3>4. IsFiniteSet(pending') /\ Cardinality(pending') = k - 1
      BY <1>3, <1>5, <2>2, <3>1, FS_RemoveElement
    <3>5. Cardinality(lower \cap upper) = 0
      BY <3>2, FS_EmptySet
    <3>6. Cardinality(pending') = l + Cardinality(upper)
      <4>1. Cardinality(lower \cup upper) = Cardinality(lower) + Cardinality(upper) - 0
        BY <3>1, <3>5, FS_Union
      <4> QED BY <2>2, <3>2, <3>3, <4>1
    <3>7. Cardinality(upper) <= blocks - s
      <4>1. upper \subseteq (s + 1)..blocks
        <5>1. \A u \in pending : u > s => u \in (s + 1)..blocks
          BY <2>1, <3>0
        <5> QED BY <2>2, <5>1
      <4>2. /\ IsFiniteSet((s + 1)..blocks)
            /\ Cardinality((s + 1)..blocks) = IF s + 1 > blocks THEN 0 ELSE blocks - (s + 1) + 1
        BY <2>1, <3>0, FS_Interval
      <4>3. Cardinality((s + 1)..blocks) = blocks - s
        BY ONLY <2>1, <3>0, <4>2
      <4> QED BY <4>1, <4>2, <4>3, FS_Subset
    <3> QED BY <1>3, <2>1, <3>3, <3>4, <3>6, <3>7
  <2>4. /\ overtook' \in [1..MaxBlocks -> Nat] /\ overtook'[s] = l
        /\ \A i \in 1..MaxBlocks : i # s => overtook'[i] = overtook[i]
    BY <1>5, <2>0, <2>1, <2>2, <2>3 DEF DeepInv
  <2>5. \A c \in news : c.ptr = s
    BY <1>2, CoinFacts
  <2>6. \A c \in ToldCoins : /\ c.ptr \in 1..blocks /\ c.ptr \in 1..MaxBlocks
                             /\ overtook'[c.ptr] = overtook[c.ptr] /\ overtook[c.ptr] \in Nat
    <3>1. \A c \in ToldCoins : c.ptr \in 1..blocks /\ c.ptr # s
      BY <1>1, <1>3, ToldFacts DEF Told
    <3>2. \A c \in ToldCoins : c.ptr \in 1..MaxBlocks
      BY <2>1, <3>1
    <3> QED BY <2>0, <2>4, <3>1, <3>2 DEF DeepInv
  <2>7. ASSUME NEW c \in DOMAIN UnconfirmedReceivedCoins
        PROVE  /\ UnconfirmedReceivedCoins[c] \in Nat /\ c \in ToldCoins
               /\ UnconfirmedReceivedCoins[c] + k <= overtook[c.ptr] + blocks - c.ptr + 1
    BY <2>0, <2>2 DEF NoForkInv, PlacesInv, DeepInv
  <2>8. ASSUME NEW c \in DOMAIN UnconfirmedReceivedCoins'
        PROVE  /\ UnconfirmedReceivedCoins'[c] \in Nat
               /\ UnconfirmedReceivedCoins'[c] + Cardinality(pending')
                    <= overtook'[c.ptr] + blocks - c.ptr + 1
    <3>1. CASE c \in news
      <4>1. UnconfirmedReceivedCoins'[c] = 1 /\ c.ptr = s
        BY <1>4, <2>5, <3>1
      <4> QED BY <1>3, <2>1, <2>3, <2>4, <4>1
    <3>2. CASE c \notin news
      <4>1. /\ UnconfirmedReceivedCoins'[c] = UnconfirmedReceivedCoins[c] + 1
            /\ c \in DOMAIN UnconfirmedReceivedCoins
        BY <1>4, <3>2
      <4> QED BY <2>1, <2>3, <2>6, <2>7, <4>1
    <3> QED BY <3>1, <3>2
  <2>9. ASSUME NEW c \in CoinCollection'
        PROVE  overtook'[c.ptr] + blocks - c.ptr >= SafeBlockAmount
    <3>1. CASE c \in CoinCollection
      BY <2>0, <2>6, <3>1 DEF NoForkInv, PlacesInv, DeepInv
    <3>2. CASE c \in done /\ c \in news
      BY <1>3, <1>4, <2>1, <2>3, <2>4, <2>5, <3>2
    <3>3. CASE c \in done /\ c \notin news
      <4>1. c \in DOMAIN UnconfirmedReceivedCoins /\ UnconfirmedReceivedCoins[c] = SafeBlockAmount
        BY <1>4, <3>3
      <4> QED BY <2>1, <2>3, <2>6, <2>7, <4>1
    <3> QED BY <1>9, <3>1, <3>2, <3>3
  <2>10. UNCHANGED blocks
    BY <1>5
  <2> QED BY <2>1, <2>3, <2>4, <2>8, <2>9, <2>10 DEF DeepInv
<1>17. ValueInv'
  <2>1. IsFiniteSet(news)
    BY <1>2, <1>3, CoinsFinite
  <2>2. IsFiniteSet(CoinCollection) /\ IsFiniteSet(DOMAIN UnconfirmedReceivedCoins)
    BY DEF NoForkInv, ValueInv
  <2>3. IsFiniteSet(DOMAIN UnconfirmedReceivedCoins \cup news)
    BY <2>1, <2>2, FS_Union
  <2>4. IsFiniteSet(done) /\ IsFiniteSet(DOMAIN UnconfirmedReceivedCoins')
    BY <1>4, <2>3, FS_Subset
  <2>5. IsFiniteSet(CoinCollection')
    BY <1>9, <2>2, <2>4, FS_Union
  <2>6. CoinCollection \cap done = {}
    BY <1>3, <1>4 DEF NoForkInv, PlacesInv
  <2>7. \A c \in CoinCollection \cup done : c.amount \in Int
    <3>1. \A c \in ToldCoins' : c.amount \in Int
      <4>1. ASSUME NEW c \in news PROVE c.amount \in Int
        <5>1. /\ c.hash \in b.txs /\ c.index \in DOMAIN txs[c.hash].Outputs
              /\ c = [hash |-> c.hash, index |-> c.index,
                      amount |-> txs[c.hash].Outputs[c.index].amount, ptr |-> b.serial]
          BY <1>2, CoinFacts
        <5>2. txs[c.hash] \in TransactionType
          BY <1>1, <1>3, <5>1 DEF ChainInv
        <5>3. txs[c.hash].Outputs \in Seq(OutputType)
          BY <5>2 DEF TransactionType
        <5>4. txs[c.hash].Outputs[c.index] \in OutputType
          BY <5>1, <5>3
        <5>5. c.amount = txs[c.hash].Outputs[c.index].amount
          BY <5>1
        <5> QED BY <5>4, <5>5 DEF OutputType
      <4> QED BY <1>1, <1>3, <4>1, ToldFacts
    <3> QED BY <1>9, <1>10, <3>1 DEF PlacesInv
  <2>8. PICK x, y, z : x = Total(CoinCollection) /\ y = Total(done) /\ z = Total(CoinCollection')
    OBVIOUS
  <2>9. x \in Int /\ y \in Int /\ z = x + y
    BY <1>9, <2>2, <2>4, <2>6, <2>7, <2>8, TotalType, TotalUnion
  <2>10. Balance = x % Word /\ Balance' = (Balance + y) % Word
    BY <1>4, <2>8 DEF NoForkInv, ValueInv, BalanceIsCoins
  <2>11. ((x % Word) + y) % Word = (x + y) % Word
    BY <2>9, WordAssumption, WordAdd
  <2>12. Balance' = z % Word
    BY <2>9, <2>10, <2>11
  <2>13. BalanceIsCoins'
    BY <2>8, <2>12 DEF BalanceIsCoins
  <2> QED BY <2>4, <2>5, <2>13 DEF ValueInv
<1> QED BY <1>3, <1>10, <1>11, <1>13, <1>14, <1>15, <1>16, <1>17 DEF NoForkInv

-----------------------------------------------------------------------------
(* The invariant holds                                                     *)

\* An empty wallet and an empty chain.
LEMMA WalletInit ==
    ASSUME Init
    PROVE  WInv
<1>1. /\ Balance = 0 /\ CoinCollection = {} /\ blocks = 0 /\ pending = {} /\ missed = {} /\ forks = 0
      /\ DOMAIN UnseenSpentCoins = {} /\ DOMAIN UnconfirmedSpentCoins = {}
      /\ DOMAIN UnconfirmedReceivedCoins = {} /\ DOMAIN txs = {}
      /\ txs = <<>> /\ chain = <<>> /\ Len(chain) = 0
      /\ overtook \in [1..MaxBlocks -> Nat]
  BY DEF Init
<1>2. Told = {} /\ ToldCoins = {} /\ ToldTxs = {}
  <2>1. Told = {}
    BY <1>1 DEF Told
  <2> QED BY <2>1 DEF ToldCoins, ToldTxs
<1>3. ChainInv
  <2>1. txs \in Seq(TransactionType)
    BY <1>1
  <2>2. chain \in Seq([serial : Nat, txs : SUBSET Nat])
    BY <1>1
  <2> QED BY <1>1, <2>1, <2>2 DEF ChainInv
<1>4. PlacesInv /\ UnseenInv /\ InputsInv /\ RequestsInv /\ OwnedInv
  BY <1>1, <1>2 DEF PlacesInv, UnseenInv, InputsInv, RequestsInv, OwnedInv
<1>5. SpendsInv /\ DeepInv
  BY <1>1, <1>2, FS_EmptySet, BoundsAssumption DEF SpendsInv, NoCoinSpentTwice, DeepInv
<1>6. ValueInv
  <2>1. 0 % Word = 0
    BY WordAssumption
  <2> QED BY <1>1, <2>1, TotalEmpty, FS_EmptySet DEF ValueInv, BalanceIsCoins
<1> QED BY <1>1, <1>3, <1>4, <1>5, <1>6 DEF WInv, NoForkInv

\* There never is one chain again.
LEMMA OneChainBefore ==
    ASSUME forks \in Nat, [Next]_vars, OneChain'
    PROVE  OneChain /\ UNCHANGED <<forks, strays>>
<1>1. ASSUME NEW s \in Spends, RequestTransaction(s[1], s[2], s[3])
      PROVE  UNCHANGED <<forks, strays>>
  BY <1>1 DEF RequestTransaction
<1>2. ASSUME NEW f \in Fundings, GenerateFundingTransaction(f[1], f[2])
      PROVE  UNCHANGED <<forks, strays>>
  BY <1>2 DEF GenerateFundingTransaction
<1>3. ASSUME NewBlock PROVE UNCHANGED <<forks, strays>>
  BY <1>3 DEF NewBlock
<1>4. ASSUME MinerBlockRefused PROVE FALSE
  <2>1. strays' # {}
    BY <1>4 DEF MinerBlockRefused
  <2> QED BY <2>1 DEF OneChain
<1>5. ASSUME NEW b \in ToSet(chain) \cup strays, HandleBlock(b)
      PROVE  UNCHANGED <<forks, strays>>
  BY <1>5 DEF HandleBlock
<1>6. ASSUME NEW n \in 1..MaxForkDepth, NEW same \in BOOLEAN, HandleFork(n, same) PROVE FALSE
  <2>1. forks' = forks + 1
    BY <1>6 DEF HandleFork
  <2> QED BY <2>1 DEF OneChain
<1>7. ASSUME UNCHANGED vars PROVE UNCHANGED <<forks, strays>>
  BY <1>7 DEF vars
<1>8. UNCHANGED <<forks, strays>>
  BY <1>1, <1>2, <1>3, <1>4, <1>5, <1>6, <1>7 DEF Next
<1> QED BY <1>8 DEF OneChain

\* Every step keeps the invariant; of other chains nothing is claimed.
LEMMA WalletStep ==
    ASSUME WInv, [Next]_vars
    PROVE  WInv'
<1>0. forks' \in Nat
  <2>1. forks' = forks \/ forks' = forks + 1
    BY Zenon DEF Next, vars, RequestTransaction, GenerateFundingTransaction, NewBlock,
                 MinerBlockRefused, HandleBlock, HandleFork
  <2> QED BY <2>1 DEF WInv
<1>a. SUFFICES ASSUME OneChain' PROVE NoForkInv'
  BY <1>0 DEF WInv
<1>b. OneChain /\ UNCHANGED <<forks, strays>> /\ NoForkInv
  BY <1>a, OneChainBefore DEF WInv
<1>1. ASSUME NEW s \in Spends, RequestTransaction(s[1], s[2], s[3]) PROVE NoForkInv'
  <2>1. s[1] \in Int /\ s[2] \in Int /\ s[3] \in BOOLEAN
    BY AmountsAssumption, WordAssumption
  <2>2. PICK amount \in Int, fee \in Int, receiver \in BOOLEAN :
           amount = s[1] /\ fee = s[2] /\ receiver = s[3]
    BY <2>1
  <2> QED BY <1>b, <1>1, <2>2, RequestStep
<1>2. ASSUME NEW f \in Fundings, GenerateFundingTransaction(f[1], f[2]) PROVE NoForkInv'
  <2>1. f[1] \in Int /\ f[2] \in Int
    BY AmountsAssumption, WordAssumption
  <2>2. PICK amount \in Int, fee \in Int : amount = f[1] /\ fee = f[2]
    BY <2>1
  <2> QED BY <1>b, <1>2, <2>2, FundingStep
<1>3. CASE NewBlock
  BY <1>b, <1>3, NewBlockStep
<1>4. ASSUME MinerBlockRefused PROVE FALSE
  <2>1. strays' # {}
    BY <1>4 DEF MinerBlockRefused
  <2> QED BY <1>a, <2>1 DEF OneChain
<1>5. ASSUME NEW b \in ToSet(chain) \cup strays, HandleBlock(b) PROVE NoForkInv'
  <2>1. b \in ToSet(chain)
    BY <1>b DEF OneChain
  <2> QED BY <1>b, <1>5, <2>1, HandleBlockStep
<1>7. ASSUME NEW n \in 1..MaxForkDepth, NEW same \in BOOLEAN, HandleFork(n, same) PROVE FALSE
  <2>1. forks' = forks + 1
    BY <1>7 DEF HandleFork
  <2> QED BY <1>b, <2>1 DEF WInv
<1>6. CASE UNCHANGED vars
  <2>1. /\ Told' = Told /\ ToldCoins' = ToldCoins /\ ToldTxs' = ToldTxs
        /\ UNCHANGED <<walletVars, txs, chain, pending, missed, overtook, blocks>>
    BY <1>6 DEF vars, Told, ToldCoins, ToldTxs
  <2>2. Reserved' = Reserved /\ SpentBy(ToldTxs)' = SpentBy(ToldTxs) /\ (NoFunding' <=> NoFunding)
    BY <2>1 DEF Reserved, SpentBy, NoFunding, walletVars
  <2>3. ChainInv => ChainInv'
    BY <2>1 DEF ChainInv
  <2>4. PlacesInv /\ UnseenInv => PlacesInv' /\ UnseenInv'
    BY <2>1 DEF PlacesInv, UnseenInv, walletVars
  <2>5. InputsInv /\ RequestsInv => InputsInv' /\ RequestsInv'
    BY <2>1, <2>2 DEF InputsInv, RequestsInv, walletVars
  <2>6. SpendsInv /\ OwnedInv => SpendsInv' /\ OwnedInv'
    BY <2>1, <2>2 DEF SpendsInv, NoCoinSpentTwice, OwnedInv, walletVars
  <2>7. DeepInv /\ ValueInv => DeepInv' /\ ValueInv'
    BY <2>1 DEF DeepInv, ValueInv, BalanceIsCoins, walletVars
  <2> QED BY <1>b, <2>3, <2>4, <2>5, <2>6, <2>7 DEF NoForkInv
<1> QED BY <1>1, <1>2, <1>3, <1>4, <1>5, <1>6, <1>7 DEF Next

\* The invariant holds in every state of every behaviour.
THEOREM WalletInvariance == Spec => []WInv
<1>1. Init => WInv
  BY WalletInit
<1>2. WInv /\ [Next]_vars => WInv'
  BY WalletStep
<1> QED BY <1>1, <1>2, PTL DEF Spec

-----------------------------------------------------------------------------
(* What follows from it                                                    *)

\* On one chain the wallet has exactly the coins it was paid
\* in the blocks it was told of and did not spend in one, however the calls of
\* HandleBlock, RequestTransaction and the arrival of blocks interleave.
THEOREM CoinsAreOwned == Spec => []OwnedExactly
<1>1. WInv => OwnedExactly
  <2> SUFFICES ASSUME NoForkInv, missed = {}, NoFunding
               PROVE  Locators(CoinCollection \cup Reserved \cup DOMAIN UnconfirmedReceivedCoins)
                         = Received \ SpentBy(HandledTxs)
    BY DEF WInv, OwnedExactly
  <2>1. ChainInv /\ PlacesInv /\ UnseenInv /\ OwnedInv
    BY DEF NoForkInv
  <2>2. Handled = {chain[s] : s \in Told}
    <3>1. DOMAIN chain = 1..blocks /\ \A s \in 1..blocks : chain[s].serial = s
      BY <2>1 DEF ChainInv
    <3>2. ToSet(chain) = {chain[s] : s \in 1..blocks}
      BY <3>1 DEF ToSet
    <3> QED BY <3>1, <3>2 DEF Handled, Told
  <2>3. HandledTxs = ToldTxs
    BY <2>2 DEF HandledTxs, ToldTxs
  <2>4. Received = Locators(ToldCoins)
    <3>1. \A s \in Told : CoinsOf(chain[s]) = CoinsIn(txs, chain[s])
      BY CoinsOfIsCoinsIn
    <3>2. Received = UNION {Locators(CoinsIn(txs, chain[s])) : s \in Told}
      BY <2>2, <3>1 DEF Received
    <3> QED BY <3>2 DEF ToldCoins, Locators
  <2>5. Reserved \subseteq ToldCoins
    BY <2>1, ReservedFacts DEF UnseenInv
  <2>6. CoinCollection \cup Reserved \cup DOMAIN UnconfirmedReceivedCoins
           = {c \in ToldCoins : Locator(c) \notin SpentBy(ToldTxs)}
    BY <2>1, <2>5 DEF PlacesInv, OwnedInv
  <2> QED BY <2>3, <2>4, <2>6 DEF Locators
<1> QED BY <1>1, WalletInvariance, PTL

\* On one chain, and fundings aside, no two transactions of the wallet spend the
\* same coin: what RequestTransaction set aside never comes back.
THEOREM CoinsAreSpentOnce == Spec => []RequestsSpendOnce
<1>1. WInv => RequestsSpendOnce
  BY DEF WInv, NoForkInv, SpendsInv, RequestsSpendOnce
<1> QED BY <1>1, WalletInvariance, PTL

\* On one chain every coin is in one of the wallet's places.
THEOREM CoinsAreInOnePlace == Spec => [](OneChain => CoinInOnePlace)
<1>1. WInv => (OneChain => CoinInOnePlace)
  <2> SUFFICES ASSUME NoForkInv PROVE CoinInOnePlace
    BY DEF WInv
  <2>1. PICK places : places = <<CoinCollection, Reserved, DOMAIN UnconfirmedSpentCoins,
                                 DOMAIN UnconfirmedReceivedCoins>>
    OBVIOUS
  <2>2. /\ DOMAIN places = 1..4 /\ places[1] = CoinCollection /\ places[2] = Reserved
        /\ places[3] = DOMAIN UnconfirmedSpentCoins
        /\ places[4] = DOMAIN UnconfirmedReceivedCoins
    BY <2>1
  <2>3. /\ Reserved \cap CoinCollection = {} /\ Reserved \cap DOMAIN UnconfirmedSpentCoins = {}
        /\ Reserved \cap DOMAIN UnconfirmedReceivedCoins = {} /\ Reserved \subseteq ToldCoins
    BY ReservedFacts DEF NoForkInv, UnseenInv
  <2>4. \A i, j \in DOMAIN places : i # j => places[i] \cap places[j] = {}
    <3>1. \A i \in DOMAIN places : i = 1 \/ i = 2 \/ i = 3 \/ i = 4
      BY <2>2
    <3> QED BY <2>2, <2>3, <3>1 DEF NoForkInv, PlacesInv
  <2>5. UNION Range(places) \subseteq ToldCoins
    <3>1. \A i \in DOMAIN places : i = 1 \/ i = 2 \/ i = 3 \/ i = 4
      BY <2>2
    <3>2. \A i \in DOMAIN places : places[i] \subseteq ToldCoins
      BY <2>2, <2>3, <3>1 DEF NoForkInv, PlacesInv
    <3> QED BY <3>2 DEF Range
  <2>6. \A c, d \in UNION Range(places) : Locator(c) = Locator(d) => c = d
    BY <2>5, OneCoin DEF NoForkInv
  <2> QED BY <2>1, <2>4, <2>6 DEF CoinInOnePlace
<1> QED BY <1>1, WalletInvariance, PTL

\* On one chain Balance is the value of the coins that
\* RequestTransaction draws on, also when the sums wrap.
THEOREM BalanceIsExact == Spec => [](OneChain => BalanceIsCoins)
<1>1. WInv => (OneChain => BalanceIsCoins)
  BY DEF WInv, NoForkInv, ValueInv
<1> QED BY <1>1, WalletInvariance, PTL

\* In whatever order the goroutines run, a coin is spendable only under
\* SafeBlockAmount blocks less the lower blocks that its own overtook.
THEOREM ConfirmedCoinsAreDeep == Spec => []ConfirmedIsDeep
<1>1. WInv => ConfirmedIsDeep
  <2> SUFFICES ASSUME NoForkInv, NEW c \in CoinCollection
               PROVE  c.hash \in OnChain /\ Depth(c.hash) + overtook[c.ptr] >= SafeBlockAmount
    BY DEF WInv, ConfirmedIsDeep
  <2>1. /\ ChainInv /\ c \in ToldCoins /\ overtook[c.ptr] + blocks - c.ptr >= SafeBlockAmount
        /\ overtook \in [1..MaxBlocks -> Nat] /\ blocks \in Nat /\ blocks <= MaxBlocks
    BY DEF NoForkInv, ChainInv, PlacesInv, DeepInv
  <2>2. c.ptr \in 1..blocks /\ c.hash \in chain[c.ptr].txs
    BY <2>1, ToldFacts DEF Told
  <2>3. DOMAIN chain = 1..blocks /\ Len(chain) = blocks
    BY <2>1 DEF ChainInv
  <2>4. c.hash \in OnChain
    BY <2>2, <2>3 DEF OnChain, ToSet
  <2>5. PICK i : i = CHOOSE j \in DOMAIN chain : c.hash \in chain[j].txs
    OBVIOUS
  <2>6. i \in 1..blocks /\ c.hash \in chain[i].txs
    BY <2>2, <2>3, <2>5
  <2>7. i = c.ptr
    BY <2>1, <2>2, <2>6 DEF ChainInv
  <2>8. Depth(c.hash) = blocks - c.ptr
    BY <2>3, <2>5, <2>7 DEF Depth
  <2>9. overtook[c.ptr] \in Nat
    BY <2>1, <2>2, BoundsAssumption
  <2>10. PICK k \in Nat : k = overtook[c.ptr]
    BY <2>9
  <2>11. (blocks - c.ptr) + k >= SafeBlockAmount
    BY <2>1, <2>2, <2>10, WordAssumption
  <2> QED BY <2>4, <2>8, <2>10, <2>11
<1> QED BY <1>1, WalletInvariance, PTL

-----------------------------------------------------------------------------
(* A payment is covered by its inputs                                      *)

\* What transaction h of t takes from each of its inputs and pays to each of
\* its outputs.
TakenBy(t, h) == [cl \in t[h].Inputs |-> t[cl[1]].Outputs[cl[2]].amount]
PaidBy(t, h) == [i \in DOMAIN t[h].Outputs |-> t[h].Outputs[i].amount]

\* Fundings aside, it does not pay more than it takes.
Covered(t, h) ==
    /\ IsFiniteSet(t[h].Inputs)
    /\ \A i \in DOMAIN t[h].Outputs : t[h].Outputs[i].amount >= 0
    /\ Len(t[h].Outputs) < 3 /\ t[h].Inputs # {} =>
         SumOver(PaidBy(t, h), DOMAIN t[h].Outputs) <= SumOver(TakenBy(t, h), t[h].Inputs)

PaysInv == \A h \in DOMAIN txs : Covered(txs, h)

\* No request is so large that its amount and fee wrap.
SpendsFit == \A s \in Spends : s[1] + s[2] < Word

\* The sums of PaysWhatItHas are these.
LEMMA PaidIsSum ==
    ASSUME NEW t, NEW h, IsFiniteSet(DOMAIN t[h].Outputs)
    PROVE  FoldSeq(LAMBDA o, sum : o.amount + sum, 0, t[h].Outputs)
              = SumOver(PaidBy(t, h), DOMAIN t[h].Outputs)
<1>1. PICK s, S, f : s = t[h].Outputs /\ S = DOMAIN s /\ f = PaidBy(t, h)
  OBVIOUS
<1>2. \A i \in S : f[i] = s[i].amount
  BY <1>1 DEF PaidBy
<1> DEFINE Is(g) == g = [u \in SUBSET S |-> IF u = {} THEN 0
                          ELSE LET x == CHOOSE y \in u : TRUE IN s[x].amount + g[u \ {x}]]
<1>3. FoldSeq(LAMBDA o, sum : o.amount + sum, 0, s) = (CHOOSE g : Is(g))[S]
  BY <1>1 DEF FoldSeq, FoldFunction, FoldFunctionOnSet, MapThenFoldSet
<1>4. \A u \in SUBSET S : u # {} =>
         LET x == CHOOSE y \in u : TRUE IN s[x].amount = f[x]
  BY <1>2
<1>5. ASSUME NEW g PROVE Is(g) <=> Sums(f, g, SUBSET S)
  BY <1>4 DEF Sums
<1>6. PICK g : g = CHOOSE j : Sums(f, j, SUBSET S)
  OBVIOUS
<1>7. Sums(f, g, SUBSET S) /\ SumOver(f, S) = g[S]
  BY <1>1, <1>6, SumsExist, SumIsFold
<1>8. PICK k : k = CHOOSE j : Is(j)
  OBVIOUS
<1> HIDE DEF Is
<1>9. Is(k) /\ FoldSeq(LAMBDA o, sum : o.amount + sum, 0, s) = k[S]
  BY <1>3, <1>5, <1>7, <1>8
<1>10. k[S] = g[S]
  <2>1. IsFiniteSet(S) /\ Sums(f, k, SUBSET S)
    BY <1>1, <1>5, <1>9
  <2> QED BY ONLY <1>7, <2>1, SumsAgree
<1> QED BY <1>1, <1>7, <1>9, <1>10

\* So are those of its right side.
LEMMA TakenIsSum ==
    ASSUME NEW h \in DOMAIN txs, IsFiniteSet(txs[h].Inputs)
    PROVE  MapThenSumSet(AmountAt, txs[h].Inputs) = SumOver(TakenBy(txs, h), txs[h].Inputs)
<1>1. PICK S, f : S = txs[h].Inputs /\ f = TakenBy(txs, h)
  OBVIOUS
<1>2. \A cl \in S : f[cl] = AmountAt(cl)
  BY <1>1 DEF TakenBy, AmountAt
<1> DEFINE Is(g) == g = [u \in SUBSET S |-> IF u = {} THEN 0
                          ELSE LET x == CHOOSE y \in u : TRUE IN AmountAt(x) + g[u \ {x}]]
<1>3. MapThenSumSet(AmountAt, S) = (CHOOSE g : Is(g))[S]
  BY DEF MapThenSumSet, MapThenFoldSet
<1>4. \A u \in SUBSET S : u # {} =>
         LET x == CHOOSE y \in u : TRUE IN AmountAt(x) = f[x]
  BY <1>2
<1>5. ASSUME NEW g PROVE Is(g) <=> Sums(f, g, SUBSET S)
  BY <1>4 DEF Sums
<1>6. PICK g : g = CHOOSE j : Sums(f, j, SUBSET S)
  OBVIOUS
<1>7. Sums(f, g, SUBSET S) /\ SumOver(f, S) = g[S]
  BY <1>1, <1>6, SumsExist, SumIsFold
<1>8. PICK k : k = CHOOSE j : Is(j)
  OBVIOUS
<1> HIDE DEF Is
<1>9. Is(k) /\ MapThenSumSet(AmountAt, S) = k[S]
  BY <1>3, <1>5, <1>7, <1>8
<1>10. k[S] = g[S]
  <2>1. IsFiniteSet(S) /\ Sums(f, k, SUBSET S)
    BY <1>1, <1>5, <1>9
  <2> QED BY ONLY <1>7, <2>1, SumsAgree
<1> QED BY <1>1, <1>7, <1>9, <1>10

\* A transaction that is covered stays so: its inputs are outputs that exist.
LEMMA CoveredStays ==
    ASSUME ChainInv, InputsInv, NEW t, \A g \in DOMAIN txs : t[g] = txs[g],
           NEW h \in DOMAIN txs, Covered(txs, h)
    PROVE  Covered(t, h)
<1>1. t[h] = txs[h]
  OBVIOUS
<1>2. ASSUME NEW cl \in txs[h].Inputs PROVE t[cl[1]] = txs[cl[1]]
  <2>1. PICK c \in ToldCoins : Locator(c) = cl
    BY DEF InputsInv
  <2>2. cl[1] \in DOMAIN txs
    BY <2>1, ToldFacts DEF Locator
  <2> QED BY <2>2
<1>3. TakenBy(t, h) = TakenBy(txs, h) /\ PaidBy(t, h) = PaidBy(txs, h)
  BY <1>1, <1>2 DEF TakenBy, PaidBy
<1> QED BY <1>1, <1>3 DEF Covered

\* What the coins of the wallet are worth, and what a transaction takes that
\* spends them.
LEMMA CoinsTaken ==
    ASSUME NoForkInv, PaysInv, NEW coins \in SUBSET CoinCollection,
           NEW t, \A g \in DOMAIN txs : t[g] = txs[g],
           NEW n, t[n].Inputs = Locators(coins)
    PROVE  /\ IsFiniteSet(Locators(coins))
           /\ Total(coins) \in Int /\ Total(coins) >= 0
           /\ SumOver(TakenBy(t, n), Locators(coins)) = Total(coins)
<1>1. coins \in SUBSET ToldCoins /\ IsFiniteSet(coins) /\ ChainInv
  BY TakenCoins DEF NoForkInv
<1>2. PICK f, r, g : /\ f = [c \in coins |-> c.amount] /\ r = [c \in coins |-> Locator(c)]
                     /\ g = TakenBy(t, n)
  OBVIOUS
<1>3. {r[c] : c \in coins} = Locators(coins)
  BY <1>2 DEF Locators
<1>4. ASSUME NEW c \in coins
      PROVE  /\ f[c] = c.amount /\ f[c] \in Int /\ f[c] >= 0
             /\ g[r[c]] = f[c]
  <2>1. c.hash \in DOMAIN txs /\ c.amount \in Int /\ c \in CoinsIn(txs, chain[c.ptr])
    BY <1>1, ToldFacts
  <2>2. /\ c.index \in DOMAIN txs[c.hash].Outputs
        /\ c.amount = txs[c.hash].Outputs[c.index].amount
    <3>1. /\ c = [hash |-> c.hash, index |-> c.index,
                  amount |-> txs[c.hash].Outputs[c.index].amount, ptr |-> chain[c.ptr].serial]
          /\ c.index \in DOMAIN txs[c.hash].Outputs
      BY <2>1, CoinFacts
    <3> QED BY <3>1
  <2>3. c.amount >= 0
    BY <2>1, <2>2 DEF PaysInv, Covered
  <2>4. PICK cl : cl = Locator(c)
    OBVIOUS
  <2>5. cl \in t[n].Inputs /\ cl[1] = c.hash /\ cl[2] = c.index /\ r[c] = cl
    BY <1>2, <2>4 DEF Locators, Locator
  <2>6. g[cl] = t[c.hash].Outputs[c.index].amount
    BY <1>2, <2>5 DEF TakenBy
  <2> QED BY <1>2, <2>1, <2>2, <2>3, <2>5, <2>6
<1>5. \A c, d \in coins : r[c] = r[d] => c = d
  BY <1>1, <1>2, OneCoin
<1>6. IsFiniteSet({r[c] : c \in coins})
  BY <1>1, FiniteImage
<1>7. SumOver(g, {r[c] : c \in coins}) = SumOver(f, coins)
  BY ONLY <1>1, <1>4, <1>5, SumImage
<1>8. Total(coins) = SumOver(f, coins)
  BY <1>1, <1>4, TotalIsSum
<1>9. SumOver(f, coins) \in Int /\ SumOver(f, coins) >= 0
  BY <1>1, <1>4, SumNatural
<1> QED BY <1>2, <1>3, <1>6, <1>7, <1>8, <1>9

\* What one output pays.
LEMMA PaidByOne ==
    ASSUME NEW t, NEW n, NEW x, x.amount \in Int, t[n].Outputs = <<x>>
    PROVE  SumOver(PaidBy(t, n), DOMAIN t[n].Outputs) = x.amount
<1>1. PICK f, S : f = PaidBy(t, n) /\ S = DOMAIN t[n].Outputs
  OBVIOUS
<1>2. S = {1} /\ f[1] = x.amount
  BY <1>1 DEF PaidBy
<1>3. IsFiniteSet(S)
  <2>1. S = 1..1
    BY <1>2
  <2> QED BY <2>1, IndicesFinite
<1>4. SumOver(f, S) = f[1] + SumOver(f, S \ {1})
  BY <1>2, <1>3, SumRemove
<1>5. S \ {1} = {} /\ SumOver(f, {}) = 0
  BY <1>2, SumEmpty
<1> QED BY <1>1, <1>2, <1>4, <1>5

\* What two outputs pay.
LEMMA PaidByTwo ==
    ASSUME NEW t, NEW n, NEW a \in Int, NEW b \in Int, NEW s, t[n].Outputs = s,
           DOMAIN s = {1, 2}, s[1].amount = a, s[2].amount = b
    PROVE  SumOver(PaidBy(t, n), DOMAIN s) = a + b
<1>1. PICK f, S : f = PaidBy(t, n) /\ S = DOMAIN s
  OBVIOUS
<1>2. S = {1, 2} /\ f[1] = a /\ f[2] = b
  BY <1>1 DEF PaidBy
<1>3. IsFiniteSet(S)
  <2>1. S = 1..2
    BY <1>2
  <2> QED BY <2>1, IndicesFinite
<1>4. PICK T : T = S \ {2}
  OBVIOUS
<1>5. T = {1} /\ IsFiniteSet(T)
  BY <1>2, <1>3, <1>4, FS_Subset
<1>6. SumOver(f, S) = f[2] + SumOver(f, T)
  BY <1>2, <1>3, <1>4, SumRemove
<1>7. SumOver(f, T) = f[1] + SumOver(f, T \ {1})
  BY <1>2, <1>5, SumRemove
<1>8. T \ {1} = {} /\ SumOver(f, {}) = 0
  BY <1>5, SumEmpty
<1>9. SumOver(f, T) = a
  BY <1>2, <1>7, <1>8
<1>10. SumOver(f, S) = b + a
  BY <1>2, <1>6, <1>9
<1> QED BY <1>1, <1>10

\* A request pays what its coins are worth less the fee.  They are worth its
\* cost: either they were taken until they are, or they are all the wallet
\* has, and the balance has been looked at first.
LEMMA RequestCovered ==
    ASSUME NoForkInv, PaysInv, NEW amount \in Nat, NEW fee \in Nat, amount + fee < Word,
           NEW receiver \in BOOLEAN, RequestTransaction(amount, fee, receiver)
    PROVE  PaysInv'
<1> USE WordAssumption
<1>0. PICK cost : cost = Cost(amount, fee) /\ cost = amount + fee
  BY WordLess DEF Cost
<1>1. PICK coins, change, n, s :
         /\ coins \in InputChoices(cost)
         /\ change = (Total(coins) - cost) % Word
         /\ n = Len(txs) + 1
         /\ s = generateTransactionOutputs(amount, receiver, change)
         /\ txs' = Append(txs, [Inputs |-> Locators(coins), Outputs |-> s])
  <2>1. PICK coins \in InputChoices(cost) :
           txs' = Append(txs, [Inputs |-> Locators(coins),
                               Outputs |-> generateTransactionOutputs(amount, receiver,
                                              (Total(coins) - cost) % Word)])
    BY <1>0 DEF RequestTransaction
  <2> QED BY <2>1
<1>b. Balance >= cost
  BY <1>0 DEF RequestTransaction
<1>2. coins \in SUBSET CoinCollection
  BY <1>1, ChoicesFromCollection
<1>3. PICK t : t = txs'
  OBVIOUS
<1>4. /\ DOMAIN t = DOMAIN txs \cup {n} /\ \A g \in DOMAIN txs : t[g] = txs[g]
      /\ t[n] = [Inputs |-> Locators(coins), Outputs |-> s]
  <2>1. txs \in Seq(TransactionType)
    BY DEF NoForkInv, ChainInv
  <2>2. Len(txs) \in Nat /\ DOMAIN txs = 1..Len(txs)
    BY <2>1
  <2> QED BY <1>1, <1>3, <2>1, <2>2
<1>5. PICK total \in Int : /\ total = Total(coins) /\ total >= 0
                           /\ SumOver(TakenBy(t, n), Locators(coins)) = total
                           /\ IsFiniteSet(Locators(coins))
  <2>1. t[n].Inputs = Locators(coins)
    BY <1>4
  <2> QED BY <1>2, <1>4, <2>1, CoinsTaken
<1>6. total % Word >= cost
  <2>1. CASE ~(Total(coins) % Word < cost)
    <3>1. total % Word \in Int /\ cost \in Int
      BY <1>0, <1>5
    <3> QED BY <1>5, <2>1, <3>1
  <2>2. CASE coins = CoinCollection
    BY <1>b, <1>5, <2>2 DEF NoForkInv, ValueInv, BalanceIsCoins
  <2> QED BY <1>1, <2>1, <2>2 DEF InputChoices
<1>7. total >= cost
  <2>1. total % Word <= total /\ total % Word \in Int
    BY <1>5, WordLess, WordOf
  <2> QED BY <1>0, <1>6, <2>1
<1>8. change \in Int /\ change >= 0 /\ change <= total - cost
  <2>1. PICK d \in Int : d = total - cost /\ d >= 0
    BY <1>0, <1>7
  <2>2. d % Word <= d /\ d % Word \in Int /\ d % Word >= 0
    BY <2>1, WordLess, WordOf
  <2> QED BY <1>1, <1>5, <2>1, <2>2
<1>9. PICK x, y : x = Output(amount, FALSE) /\ y = Output(change, TRUE)
  OBVIOUS
<1>a. x.amount = amount /\ y.amount = change /\ x.amount \in Int /\ y.amount \in Int
  BY <1>8, <1>9 DEF Output
<1>10. s = <<>> \/ s = <<x>> \/ s = <<x, y>>
  BY <1>1, <1>9 DEF generateTransactionOutputs
<1>11. t[n].Outputs = s /\ t[n].Inputs = Locators(coins)
  BY <1>4
<1>12. \A i \in DOMAIN s : s[i].amount >= 0
  <2>1. amount >= 0 /\ change >= 0
    BY <1>8
  <2>2. CASE s = <<x>>
    BY <1>a, <2>1, <2>2
  <2>3. CASE s = <<x, y>>
    BY <1>a, <2>1, <2>3
  <2>4. CASE s = <<>>
    BY <2>4
  <2> QED BY <1>10, <2>2, <2>3, <2>4
<1>13. SumOver(PaidBy(t, n), DOMAIN s) <= total
  <2>1. CASE s = <<x>>
    <3>1. SumOver(PaidBy(t, n), DOMAIN s) = amount
      BY <1>a, <1>11, <2>1, PaidByOne
    <3> QED BY <1>0, <1>7, <3>1
  <2>2. CASE s = <<x, y>>
    <3>1. SumOver(PaidBy(t, n), DOMAIN s) = amount + change
      <4>1. DOMAIN s = {1, 2} /\ s[1].amount = amount /\ s[2].amount = change
        BY <1>a, <2>2
      <4>2. amount \in Int /\ change \in Int /\ t[n].Outputs = s
        BY <1>8, <1>11
      <4> QED BY ONLY <4>1, <4>2, PaidByTwo
    <3> QED BY <1>0, <1>8, <3>1
  <2>3. CASE s = <<>>
    <3>1. DOMAIN s = {} /\ SumOver(PaidBy(t, n), {}) = 0
      BY <2>3, SumEmpty
    <3> QED BY <1>5, <3>1
  <2> QED BY <1>10, <2>1, <2>2, <2>3
<1>14. Covered(t, n)
  BY <1>5, <1>11, <1>12, <1>13 DEF Covered
<1>15. ASSUME NEW h \in DOMAIN txs PROVE Covered(t, h)
  BY <1>4, CoveredStays DEF NoForkInv, PaysInv
<1> QED BY <1>3, <1>4, <1>14, <1>15 DEF PaysInv

\* A funding has outputs of no negative amount.
LEMMA FundingCovered ==
    ASSUME NoForkInv, PaysInv, NEW amount \in Nat, NEW fee \in Nat,
           GenerateFundingTransaction(amount, fee)
    PROVE  PaysInv'
<1> USE WordAssumption
<1>1. PICK coins, change, n, s, need :
         /\ need = (amount + 2 * fee) % Word
         /\ coins \in InputChoices(need)
         /\ change = (Total(coins) - need + fee) % Word
         /\ n = Len(txs) + 1
         /\ s = <<Output(amount, TRUE), Output(0, TRUE), Output(change, TRUE)>>
         /\ txs' = Append(txs, [Inputs |-> Locators(coins), Outputs |-> s])
  BY DEF GenerateFundingTransaction
<1>2. coins \in SUBSET CoinCollection
  BY <1>1, ChoicesFromCollection
<1>3. PICK t : t = txs'
  OBVIOUS
<1>4. /\ DOMAIN t = DOMAIN txs \cup {n} /\ \A g \in DOMAIN txs : t[g] = txs[g]
      /\ t[n] = [Inputs |-> Locators(coins), Outputs |-> s]
  <2>1. txs \in Seq(TransactionType)
    BY DEF NoForkInv, ChainInv
  <2>2. Len(txs) \in Nat /\ DOMAIN txs = 1..Len(txs)
    BY <2>1
  <2> QED BY <1>1, <1>3, <2>1, <2>2
<1>5. t[n].Outputs = s /\ t[n].Inputs = Locators(coins)
  BY <1>4
<1>6. IsFiniteSet(Locators(coins)) /\ Total(coins) \in Int
  BY <1>2, <1>4, <1>5, CoinsTaken
<1>7. change \in Int /\ change >= 0
  <2>1. PICK d \in Int : d = Total(coins) - need + fee
    BY <1>1, <1>6
  <2> QED BY <1>1, <2>1, WordOf
<1>8. Len(s) = 3 /\ \A i \in DOMAIN s : s[i].amount >= 0
  BY <1>1, <1>7 DEF Output
<1>9. Covered(t, n)
  BY <1>5, <1>6, <1>8 DEF Covered
<1>10. ASSUME NEW h \in DOMAIN txs PROVE Covered(t, h)
  BY <1>4, CoveredStays DEF NoForkInv, PaysInv
<1> QED BY <1>3, <1>4, <1>9, <1>10 DEF PaysInv

\* A payment to us has no inputs.
LEMMA NewBlockCovered ==
    ASSUME NoForkInv, PaysInv, NewBlock
    PROVE  PaysInv'
<1>1. PICK paid, receipt :
         /\ paid \in Receipts \cup {0}
         /\ receipt = Receipt(paid)
         /\ txs' = IF paid = 0 THEN txs ELSE Append(txs, receipt)
  BY DEF NewBlock
<1>2. PICK t, n : t = txs' /\ n = Len(txs) + 1
  OBVIOUS
<1>3. /\ \A g \in DOMAIN txs : t[g] = txs[g]
      /\ \A h \in DOMAIN t \ DOMAIN txs : t[h] = receipt
  <2>1. txs \in Seq(TransactionType)
    BY DEF NoForkInv, ChainInv
  <2>2. Len(txs) \in Nat /\ DOMAIN txs = 1..Len(txs)
    BY <2>1
  <2>3. CASE paid = 0
    BY <1>1, <1>2, <2>3
  <2>4. CASE paid # 0
    BY <1>1, <1>2, <2>1, <2>2, <2>4
  <2> QED BY <2>3, <2>4
<1>4. paid \in Int /\ paid >= 0
  BY <1>1, AmountsAssumption, WordAssumption
<1>5. receipt.Inputs = {} /\ \A i \in DOMAIN receipt.Outputs : receipt.Outputs[i].amount >= 0
  BY <1>1, <1>4 DEF Output, Receipt
<1>6. ASSUME NEW h \in DOMAIN t \ DOMAIN txs PROVE Covered(t, h)
  BY <1>3, <1>5, FS_EmptySet DEF Covered
<1>7. ASSUME NEW h \in DOMAIN txs PROVE Covered(t, h)
  BY <1>3, CoveredStays DEF NoForkInv, PaysInv
<1> QED BY <1>2, <1>6, <1>7 DEF PaysInv

\* Every step keeps the payments covered while there is one chain.
LEMMA CoveredStep ==
    ASSUME SpendsFit, WInv, OneChain => PaysInv, [Next]_vars
    PROVE  OneChain' => PaysInv'
<1>0. SUFFICES ASSUME OneChain' PROVE PaysInv'
  OBVIOUS
<1>a. OneChain /\ UNCHANGED <<forks, strays>> /\ NoForkInv /\ PaysInv /\ forks \in Nat
  BY <1>0, OneChainBefore DEF WInv
<1>1. ASSUME NEW s \in Spends, RequestTransaction(s[1], s[2], s[3]) PROVE PaysInv'
  <2>1. PICK amount \in Nat, fee \in Nat, receiver \in BOOLEAN :
           amount = s[1] /\ fee = s[2] /\ receiver = s[3]
    BY AmountsAssumption, WordAssumption
  <2>2. amount + fee < Word /\ RequestTransaction(amount, fee, receiver)
    BY <1>1, <2>1 DEF SpendsFit
  <2> QED BY <1>a, <2>2, RequestCovered
<1>2. ASSUME NEW f \in Fundings, GenerateFundingTransaction(f[1], f[2])
      PROVE  PaysInv'
  <2>1. PICK amount \in Nat, fee \in Nat : amount = f[1] /\ fee = f[2]
    BY AmountsAssumption, WordAssumption
  <2>2. GenerateFundingTransaction(amount, fee)
    BY <1>2, <2>1
  <2> QED BY <1>a, <2>2, FundingCovered
<1>3. CASE NewBlock
  BY <1>a, <1>3, NewBlockCovered
<1>4. ASSUME MinerBlockRefused PROVE FALSE
  <2>1. strays' # {}
    BY <1>4 DEF MinerBlockRefused
  <2> QED BY <1>0, <2>1 DEF OneChain
<1>5. ASSUME NEW b \in ToSet(chain) \cup strays, HandleBlock(b) PROVE PaysInv'
  <2>1. txs' = txs
    BY <1>5 DEF HandleBlock
  <2> QED BY <1>a, <2>1 DEF PaysInv
<1>6. ASSUME NEW n \in 1..MaxForkDepth, NEW same \in BOOLEAN, HandleFork(n, same) PROVE FALSE
  <2>1. forks' = forks + 1
    BY <1>6 DEF HandleFork
  <2> QED BY <1>a, <2>1
<1>7. CASE UNCHANGED vars
  <2>1. txs' = txs
    BY <1>7 DEF vars
  <2> QED BY <1>a, <2>1 DEF PaysInv
<1> QED BY <1>1, <1>2, <1>3, <1>4, <1>5, <1>6, <1>7 DEF Next

\* Requests that do not wrap are paid from coins that are worth them: on one
\* chain no transaction of RequestTransaction pays out more than it takes in,
\* whichever coins Go's map order picks.
THEOREM PaymentsAreCovered ==
    ASSUME SpendsFit
    PROVE  Spec => []PaysWhatItHas
<1>1. Init => (OneChain => PaysInv)
  BY DEF Init, PaysInv
<1>2. WInv /\ (OneChain => PaysInv) /\ [Next]_vars => (OneChain => PaysInv)'
  BY CoveredStep
<1>3. WInv /\ (OneChain => PaysInv) => PaysWhatItHas
  <2> SUFFICES ASSUME NoForkInv, PaysInv, NEW h \in DOMAIN txs, txs[h].Inputs # {},
                      Len(txs[h].Outputs) < 3
               PROVE  FoldSeq(LAMBDA o, sum : o.amount + sum, 0, txs[h].Outputs)
                         <= MapThenSumSet(AmountAt, txs[h].Inputs)
    BY DEF WInv, PaysWhatItHas
  <2>1. Covered(txs, h)
    BY DEF PaysInv
  <2>2. IsFiniteSet(DOMAIN txs[h].Outputs)
    <3>0. txs[h] \in TransactionType
      BY DEF NoForkInv, ChainInv
    <3>1. PICK s \in Seq(OutputType) : s = txs[h].Outputs
      BY <3>0 DEF TransactionType
    <3>2. Len(s) \in Nat /\ DOMAIN s = 1..Len(s)
      BY <3>1
    <3> QED BY <3>1, <3>2, IndicesFinite
  <2>3. FoldSeq(LAMBDA o, sum : o.amount + sum, 0, txs[h].Outputs)
           = SumOver(PaidBy(txs, h), DOMAIN txs[h].Outputs)
    BY <2>2, PaidIsSum
  <2>4. MapThenSumSet(AmountAt, txs[h].Inputs) = SumOver(TakenBy(txs, h), txs[h].Inputs)
    BY <2>1, TakenIsSum DEF Covered
  <2> QED BY <2>1, <2>3, <2>4 DEF Covered
<1> QED BY <1>1, <1>2, <1>3, WalletInvariance, PTL DEF Spec

=============================================================================
