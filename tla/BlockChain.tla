----------------------------- MODULE BlockChain -----------------------------
(***************************************************************************)
(* A node's block chain (pkg/blockchain with its block info database and   *)
(* coin database) and the two ways blocks get into it: a peer forwards one *)
(* (Node.ForwardBlock, checked against the coins of the active chain) or   *)
(* the node hands one over unchecked (Bootstrap, and its own miner's       *)
(* blocks).  Blocks arrive in any order and more than once.                *)
(*                                                                         *)
(* A BlockRecord keeps the height and the undo block; <<>> stands for a    *)
(* record without an undo file.  What block and undo files hold is the     *)
(* business of module ChainWriter; here a block is read back by its hash.  *)
(* HandleBlock is one step; BlockIntake takes it apart.                    *)
(* early and loose are history variables: no action looks at them.         *)
(***************************************************************************)
EXTENDS CoinDatabase

CONSTANTS
    Forwarded,      \* blocks the peers forward
    Unchecked,      \* blocks that come from Bootstrap or the own miner
    MaxHashes,      \* unsafe hashes kept, 6 in the code
    MaxHeaders,     \* hashes in a GetBlocksResponse, 500 in the code
    MaxDeliveries   \* bound: calls of HandleBlock and GetBalance

ASSUME ChainAssumption ==
    /\ Forwarded \subseteq Hashes /\ Unchecked \subseteq Hashes
    /\ MaxHashes \in Nat \ {0} /\ MaxHeaders \in Nat \ {0} /\ MaxDeliveries \in Nat

VARIABLES
    Length, LastHash, UnsafeHashes,     \* as in BlockChain
    BlockInfoDB,                        \* hash -> [Height, Undo]
    CoinDB,
    SeenBlocks,                         \* Node's count of what was forwarded
    crashed,                            \* the process died of a panic
    early,                              \* history: blocks that came before their parents
    loose,                              \* history: blocks that came last, unchecked, when
                                        \* a coin they spend was not unspent
    deliveries                          \* for the bound

chainVars == <<Length, LastHash, UnsafeHashes, BlockInfoDB, CoinDB, crashed>>
vars == <<chainVars, SeenBlocks, early, loose, deliveries>>

-----------------------------------------------------------------------------
(* Block records                                                           *)

\* A record that is not there decodes to an empty one.
GetBlockRecordOrMark(db, h) ==                \* mutant: an absent block has height -1
    IF h \in DOMAIN db THEN db[h] ELSE [Height |-> -1, Undo |-> <<>>]
GetBlockRecord(db, h) == IF h \in DOMAIN db THEN db[h] ELSE [Height |-> 0, Undo |-> <<>>]
RecordedParent(db, h) == IF h \in DOMAIN db THEN PreviousHash[h] ELSE NoHash

\* The hash n steps below h, going by the records.
StepBack(s, i) == [s EXCEPT !.hash = RecordedParent(s.db, @)]
Back(db, h, n) == FoldLeft(StepBack, [db |-> db, hash |-> h], [i \in 1..n |-> i]).hash

\* The undo block lists the coins the block spends.  If one of them is not
\* known it is empty.
makeUndoBlock(txs) ==
    LET spent == InputsOf(txs)
    IN IF \A cl \in ToSet(spent) : HasCoin(CoinDB, cl)
       THEN [k \in DOMAIN spent |-> [hash |-> spent[k][1], index |-> spent[k][2],
                                     coin |-> GetCoin(CoinDB, spent[k])]]
       ELSE <<>>

HeightOnLastHash(h) == Length + 1             \* mutant: assumes that the block appends
HeightOf(h) == GetBlockRecord(BlockInfoDB, PreviousHash[h]).Height + 1

IsAsHigh(h) == HeightOf(h) >= Length           \* mutant: a tie is enough
IsHigher(h) == HeightOf(h) > Length

StoreRecord(h) ==
    PutInMap(BlockInfoDB, h, [Height |-> HeightOf(h), Undo |-> makeUndoBlock(Transactions[h])])

-----------------------------------------------------------------------------
(* HandleBlock                                                             *)

appendsToActiveChain(h) == PreviousHash[h] = LastHash

RefuseBlock(h) ==
    /\ appendsToActiveChain(h)
    /\ ~ValidateBlock(CoinDB, Transactions[h])
    /\ UNCHANGED chainVars

\* UnsafeHashes after an append: the oldest goes when there are enough.
AppendUnsafe(h) ==
    Append(IF Len(UnsafeHashes) >= MaxHashes THEN Tail(UnsafeHashes) ELSE UnsafeHashes, h)

AppendBlock(h) ==
    /\ appendsToActiveChain(h)
    /\ ValidateBlock(CoinDB, Transactions[h])
    /\ BlockInfoDB' = StoreRecord(h)
    /\ CoinDB' = StoreBlock(CoinDB, Transactions[h])
    /\ Length' = Length + 1
    /\ LastHash' = h
    /\ UnsafeHashes' = AppendUnsafe(h)
    /\ UNCHANGED crashed

\* A block beside the active chain that is not higher is only kept.
KeepBlock(h) ==
    /\ ~appendsToActiveChain(h)
    /\ ~IsHigher(h)
    /\ BlockInfoDB' = StoreRecord(h)
    /\ UNCHANGED <<Length, LastHash, UnsafeHashes, CoinDB, crashed>>

\* How many steps below h an unsafe hash is found; -1: too far, or nowhere.
getForkLength(db, h) ==
    LET found == {i \in 0..Len(UnsafeHashes) : Back(db, h, i) \in ToSet(UnsafeHashes)}
    IN IF found = {} THEN -1 ELSE Min(found)

\* The n newest blocks of the active chain, newest first.
getBlocks(db, n) == [i \in 1..n |-> Back(db, LastHash, i - 1)]

\* The hashes dropped from the end: the loop counts down from the
\* forkLength-th entry to the second and stops at the ancestor.
TrimmedUnsafe(n, ancestor) ==
    LET min == IF n < MaxHashes THEN n ELSE MaxHashes
        stops == {i \in 2..min : UnsafeHashes[i] = ancestor}
        dropped == IF stops # {} THEN min - Max(stops) ELSE IF min > 1 THEN min - 1 ELSE 0
    IN SubSeq(UnsafeHashes, 1, Len(UnsafeHashes) - dropped)

InvalidFork(h) ==
    /\ ~appendsToActiveChain(h)
    /\ IsHigher(h)
    /\ LET db == StoreRecord(h)
       IN /\ getForkLength(db, h) < 0
          /\ BlockInfoDB' = db
    /\ UNCHANGED <<Length, LastHash, UnsafeHashes, CoinDB, crashed>>

StoreAgain(coinDB, h) == StoreBlock(coinDB, Transactions[h])

\* handleFork undoes as many blocks of the active chain as the fork has, and
\* stores those same blocks again.
handleFork(h) ==
    /\ ~appendsToActiveChain(h)
    /\ IsHigher(h)
    /\ LET db == StoreRecord(h)
           n == getForkLength(db, h)
           blocks == getBlocks(db, n)
           undoBlocks == [i \in 1..n |-> GetBlockRecord(db, blocks[i]).Undo]
           undone == UndoCoins(CoinDB, blocks, undoBlocks)
       IN /\ n >= 0
          /\ \A i \in 1..n : undoBlocks[i] # <<>>
          /\ BlockInfoDB' = db
          /\ UnsafeHashes' = TrimmedUnsafe(n, Back(db, h, n)) \o Reverse(blocks)
          /\ CoinDB' = FoldLeft(StoreAgain, undone, blocks)
    /\ LastHash' = h
    /\ Length' = HeightOf(h)
    /\ UNCHANGED crashed

\* One of the undo blocks was never written: reading it panics.
handleForkPanics(h) ==
    /\ ~appendsToActiveChain(h)
    /\ IsHigher(h)
    /\ LET db == StoreRecord(h)
           n == getForkLength(db, h)
       IN /\ \E i \in 1..n : GetBlockRecord(db, getBlocks(db, n)[i]).Undo = <<>>
          /\ BlockInfoDB' = db
    /\ crashed' = TRUE
    /\ UNCHANGED <<Length, LastHash, UnsafeHashes, CoinDB>>

HandleBlock(h) ==
    \/ RefuseBlock(h) \/ AppendBlock(h) \/ KeepBlock(h)
    \/ InvalidFork(h) \/ handleFork(h) \/ handleForkPanics(h)

-----------------------------------------------------------------------------
(* The node around the chain                                               *)

Init ==
    /\ Length = 1
    /\ LastHash = Genesis
    /\ UnsafeHashes = <<Genesis>>
    /\ BlockInfoDB = PutInMap(<<>>, Genesis, [Height |-> 1, Undo |-> <<>>])
    /\ CoinDB = StoreBlock(New, Transactions[Genesis])
    /\ SeenBlocks = [h \in Hashes |-> 0]
    /\ crashed = FALSE
    /\ early = {}
    /\ loose = {}
    /\ deliveries = 0

Deliver ==
    /\ ~crashed
    /\ deliveries < MaxDeliveries
    /\ deliveries' = deliveries + 1

\* early after block h was handed over.
NoteEarly(h) ==
    early' = IF h = Genesis \/ PreviousHash[h] \in DOMAIN BlockInfoDB THEN early ELSE early \cup {h}

\* ForwardBlock looks at a block twice, and only if its transactions are valid
\* on the active chain.
CheckAnything(h) == TRUE                      \* mutant: peers are trusted
CheckBlock(h) == ValidateBlock(CoinDB, Transactions[h])

ForwardBlock(h) ==
    /\ Deliver
    /\ h \in Forwarded
    /\ SeenBlocks' = [SeenBlocks EXCEPT ![h] = @ + 1]
    /\ SeenBlocks[h] < 2
    /\ CheckBlock(h)
    /\ HandleBlock(h)
    /\ NoteEarly(h)
    /\ loose' = loose \ {h}

\* A block that was seen twice, or is not valid on the active chain.
IgnoreBlock(h) ==
    /\ Deliver
    /\ h \in Forwarded
    /\ SeenBlocks' = [SeenBlocks EXCEPT ![h] = @ + 1]
    /\ SeenBlocks[h] >= 2 \/ ~CheckBlock(h)
    /\ UNCHANGED <<chainVars, early, loose>>

\* One round of Bootstrap's loop, or HandleMinerBlock.
Bootstrap(h) ==
    /\ Deliver
    /\ h \in Unchecked
    /\ SeenBlocks' = [SeenBlocks EXCEPT ![h] = 1]
    /\ HandleBlock(h)
    /\ NoteEarly(h)
    /\ loose' = IF ValidateBlock(CoinDB, Transactions[h]) THEN loose \ {h} ELSE loose \cup {h}

GetBalance ==
    /\ Deliver
    /\ CoinDB' = FlushMainCache(CoinDB)
    /\ UNCHANGED <<Length, LastHash, UnsafeHashes, BlockInfoDB, SeenBlocks, crashed, early, loose>>

Next ==
    \/ \E h \in Hashes : ForwardBlock(h) \/ IgnoreBlock(h) \/ Bootstrap(h)
    \/ GetBalance

Spec == Init /\ [][Next]_vars

-----------------------------------------------------------------------------
(* Queries                                                                 *)

\* The hashes of heights start to end, walking back from LastHash.
GetHashes(start, end) ==
    LET top == IF end < Length THEN end ELSE Length
    IN Reverse([i \in 1..(top - start + 1) |-> Back(BlockInfoDB, LastHash, Length - top + i - 1)])

\* The answer to a peer whose top block is h: what lies above the height of h.
GetBlocksRPC(h) ==
    LET ind == GetBlockRecord(BlockInfoDB, h).Height
        upperIndex == IF ind + MaxHeaders < Length THEN ind + MaxHeaders ELSE Length
    IN IF ind < Length THEN GetHashes(ind + 1, upperIndex) ELSE <<>>

-----------------------------------------------------------------------------
(* Properties                                                              *)

Coins == UNION {ToSet(TransactionOutputs(tx)) : tx \in DOMAIN Inputs}
ActiveChain == ChainOf[LastHash]
Spendable == {cl \in Coins : IsUnspent(CoinDB, cl)}

UndoBlocks == Seq([hash : DOMAIN Inputs, index : Nat, coin : Coins])
CoinRecords == Seq([index : Nat, coin : Coins])

TypeOK ==
    /\ Length \in Nat
    /\ LastHash \in Hashes
    /\ UnsafeHashes \in Seq(Hashes)
    /\ DOMAIN BlockInfoDB \subseteq Hashes
    /\ \A h \in DOMAIN BlockInfoDB :
          BlockInfoDB[h] \in [Height : Nat \ {0}, Undo : UndoBlocks]
    /\ DOMAIN CoinDB.mainCache \subseteq Coins
    /\ \A cl \in DOMAIN CoinDB.mainCache : CoinDB.mainCache[cl] \in BOOLEAN
    /\ CoinDB.mainCacheSize \in 0..(Word - 1)
    /\ DOMAIN CoinDB.db \subseteq DOMAIN Inputs
    /\ \A tx \in DOMAIN CoinDB.db : CoinDB.db[tx] \in CoinRecords
    /\ SeenBlocks \in [Hashes -> Nat]
    /\ crashed \in BOOLEAN

\* The chain with its coin database behaves like a ledger: blocks are only
\* appended, each spends coins that were unspent before it, once, and the
\* coins that pass validation are exactly the ledger's unspent outputs, in
\* cache or db, whatever is flushed, repeated, refused or out of order.
L == INSTANCE Ledger WITH chain <- ActiveChain, utxo <- Spendable
ImplementsLedger == L!Spec

\* GetBalance counts every unspent output of the active chain, once, with its
\* own amount and script.
BalanceExact ==
    LET counted == CountedCoins(CoinDB)
    IN /\ {e.coin : e \in ToSet(counted)} = Utxo(ActiveChain)
       /\ IsInjective([k \in DOMAIN counted |-> counted[k].coin])

\* Every block of the chain that ends in h came after its parent.  Heights are
\* taken from the parent's record, so the others have heights that are too low,
\* and so have the blocks above them, for good.
Rooted(h) == ToSet(ChainOf[h]) \cap early = {}

\* A peer whose top block is on our active chain is sent what follows it, in
\* order and without a gap (heights in the records, Length, headers), whatever
\* blocks came early to other chains.
PeersCatchUp ==
    Rooted(LastHash) =>
        /\ Length = Len(ActiveChain)
        /\ \A i \in DOMAIN ActiveChain :
              GetBlocksRPC(ActiveChain[i])
                  = SubSeq(ActiveChain, i + 1,
                           IF i + MaxHeaders < Length THEN i + MaxHeaders ELSE Length)

\* "UnsafeHashes are the hashes of the unsafe blocks on the active chain": its
\* newest blocks, at most MaxHashes of them (fails when a fork is adopted, which
\* puts the blocks it reverts there in place of the new ones).
UnsafeOnActiveChain ==
    LET n == Len(UnsafeHashes)
    IN /\ n <= MaxHashes
       /\ n <= Len(ActiveChain)
       /\ UnsafeHashes = SubSeq(ActiveChain, Len(ActiveChain) - n + 1, Len(ActiveChain))

\* The record of block h names the coins that undoing h makes usable again,
\* those h spent; what it keeps of each is that coin's own amount and script.
UndoNamed(h) ==
    LET ub == GetBlockRecord(BlockInfoDB, h).Undo
    IN [k \in DOMAIN ub |-> <<ub[k].hash, ub[k].index>>] = InputsOf(Transactions[h])
UndoOwn(h) ==
    LET ub == GetBlockRecord(BlockInfoDB, h).Undo
    IN [k \in DOMAIN ub |-> ub[k].coin] = InputsOf(Transactions[h])

\* Every block of the active chain has a record that names the coins it spent,
\* whatever forks were adopted and whatever was delivered early or again; those
\* blocks aside that Bootstrap or the miner handed over when their coins were
\* not unspent.
UndoKept ==
    \A h \in ToSet(ActiveChain) : h \in DOMAIN BlockInfoDB /\ (h \notin loose => UndoNamed(h))

\* Until a fork is adopted the records keep the amounts and scripts too.
UndoExact == \A h \in ToSet(ActiveChain) \ loose : UndoOwn(h)

\* "UndoBlock is used to reverse the side effects causes by a Block": that of
\* every block of the active chain (fails when Bootstrap hands a block over
\* again, whose coins are spent by then).
UndoComplete == \A h \in ToSet(ActiveChain) : UndoOwn(h)

\* The active chain is only given up for a longer one, whatever blocks of the
\* other one came early.
OnlyForLonger ==
    [][LastHash' # LastHash /\ Rooted(LastHash) =>
         Len(ChainOf[LastHash']) > Len(ChainOf[LastHash])]_vars

\* "mainCacheSize is how many Coins are currently in the mainCache."
SizeIsCount == CoinDB.mainCacheSize = Cardinality(DOMAIN CoinDB.mainCache)

\* "Height is the height of the Block": its distance from the genesis block.
HeightIsHeight ==
    \A h \in DOMAIN BlockInfoDB : BlockInfoDB[h].Height = Len(ChainOf[h])

\* "... and not be a double spend on that chain": no coin is spent twice by
\* the blocks of the active chain, unless it was created again.
NoDoubleSpend ==
    \A h \in ToSet(ActiveChain) : IsInjective(InputsOf(Transactions[h]))

\* "Store our new blocks in the coinDB!": the coins that pass validation are
\* those of the active chain, after a fork too.
CoinsOfActiveChain == ~crashed => Spendable = Utxo(ActiveChain)

\* "handleFork updates the BlockChain when a fork occurs": it does not die.
ForkSurvives == ~crashed
=============================================================================
