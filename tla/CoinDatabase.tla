---------------------------- MODULE CoinDatabase ----------------------------
(***************************************************************************)
(* The coin database (pkg/blockchain/coindatabase): which outputs can be   *)
(* spent.  It keeps a cache of coins, each marked spent or not, and a      *)
(* levelDB that has for each transaction a record of its unspent coins.    *)
(* Records are written when a block is stored and trimmed when the cache   *)
(* is flushed, so a coin that is spent in the cache is still in the db.    *)
(*                                                                         *)
(* coinDB is [mainCache, mainCacheSize, db].  mainCache maps a coin to its *)
(* IsSpent.  db maps a transaction to its CoinRecord, a sequence of        *)
(* [index, coin]: coin is the output whose amount and locking script are   *)
(* stored under that index, which UndoCoins may get from elsewhere.  An    *)
(* undo block is a sequence of [hash, index, coin].                        *)
(***************************************************************************)
EXTENDS Blocks

CONSTANTS
    MainCacheCapacity,      \* config: when to flush
    Word                    \* size of the counter's type, 2^32 in the code

ASSUME CapacityAssumption == MainCacheCapacity \in Nat /\ Word \in Nat \ {0}

New == [mainCache |-> <<>>, mainCacheSize |-> 0, db |-> <<>>]

PutInMap(f, k, v) == [x \in DOMAIN f \cup {k} |-> IF x = k THEN v ELSE f[x]]
DeleteFromMap(f, k) == Restrict(f, DOMAIN f \ {k})

Without(coinDB, tx) == [coinDB EXCEPT !.db = DeleteFromMap(@, tx)]
putRecordInDB(coinDB, tx, cr) == [coinDB EXCEPT !.db = PutInMap(@, tx, cr)]

\* An absent record reads as an empty one.
RecordOf(coinDB, tx) == IF tx \in DOMAIN coinDB.db THEN coinDB.db[tx] ELSE <<>>

\* Position of an output index in a record (from 1), 0 if it is not there.
indexOf(cr, index) == SelectInSeq(cr, LAMBDA e : e.index = index)

removeCoinFromRecord(cr, index) == RemoveFirstMatch(cr, LAMBDA e : e.index = index)

createCoinRecord(tx) ==
    [i \in 1..Outputs[tx] |-> [index |-> i - 1, coin |-> <<tx, i - 1>>]]

\* A coin passes validation: the cache decides if it has the coin.
IsUnspent(coinDB, cl) ==
    IF cl \in DOMAIN coinDB.mainCache THEN ~coinDB.mainCache[cl]
    ELSE indexOf(RecordOf(coinDB, cl[1]), cl[2]) > 0

ValidateTransaction(coinDB, tx) == \A cl \in ToSet(Inputs[tx]) : IsUnspent(coinDB, cl)

\* Every transaction is held against the database as it was before the block.
ValidateFirstTransaction(coinDB, txs) ==      \* mutant: returns after one transaction
    txs # <<>> => ValidateTransaction(coinDB, Head(txs))
ValidateBlock(coinDB, txs) == \A tx \in ToSet(txs) : ValidateTransaction(coinDB, tx)

\* The output GetCoin returns for a locator (nil: there is none).  A spent
\* coin that is still in the cache is returned too.
HasCoin(coinDB, cl) ==
    cl \in DOMAIN coinDB.mainCache \/ indexOf(RecordOf(coinDB, cl[1]), cl[2]) > 0
GetCoin(coinDB, cl) ==
    IF cl \in DOMAIN coinDB.mainCache THEN cl
    ELSE LET cr == RecordOf(coinDB, cl[1]) IN cr[indexOf(cr, cl[2])].coin

\* Spent coins leave the cache and their records; unspent ones stay in both.
\* The counter restarts at 0 all the same.
FlushMainCacheOnly(coinDB) ==                 \* mutant: the records are not updated
    [coinDB EXCEPT !.mainCache = RestrictValues(@, LAMBDA isSpent : ~isSpent),
                   !.mainCacheSize = 0]
RemoveIndex(index, cr) == removeCoinFromRecord(cr, index)
FlushMainCache(coinDB) ==
    LET spent == {cl \in DOMAIN coinDB.mainCache : coinDB.mainCache[cl]}
        updated == {cl[1] : cl \in spent}
        updatedCoinRecord(tx) ==
            FoldSet(RemoveIndex, RecordOf(coinDB, tx), {cl[2] : cl \in {c \in spent : c[1] = tx}})
        emptied == {tx \in updated : updatedCoinRecord(tx) = <<>>}
    IN [mainCache |-> Restrict(coinDB.mainCache, DOMAIN coinDB.mainCache \ spent),
        mainCacheSize |-> 0,
        db |-> [tx \in (DOMAIN coinDB.db \cup updated) \ emptied |->
                   IF tx \in updated THEN updatedCoinRecord(tx) ELSE coinDB.db[tx]]]

\* Removes a coin from the record of txHash, or the whole record if it holds
\* at most one coin.
removeCoinFromDB(coinDB, txHash, cl) ==
    IF txHash \notin DOMAIN coinDB.db THEN coinDB
    ELSE IF Len(coinDB.db[txHash]) <= 1 THEN Without(coinDB, txHash)
    ELSE putRecordInDB(coinDB, txHash, removeCoinFromRecord(coinDB.db[txHash], cl[2]))

\* An input of tx: its coin is marked in the cache.  If it is not there the
\* code looks for it in the record of the SPENDING transaction.
SpendCoin(coinDB, tx, cl) ==
    IF cl \in DOMAIN coinDB.mainCache
    THEN [coinDB EXCEPT !.mainCache[cl] = TRUE]
    ELSE removeCoinFromDB(coinDB, tx, cl)

\* The loops over the inputs of a transaction and over the transactions.
SpendInput(s, cl) == [s EXCEPT !.coinDB = SpendCoin(@, s.tx, cl)]
SpendInputs(coinDB, tx) ==
    FoldLeft(SpendInput, [coinDB |-> coinDB, tx |-> tx], Inputs[tx]).coinDB
updateSpentCoins(coinDB, txs) == FoldLeft(SpendInputs, coinDB, txs)

\* One output of tx enters the cache, after a flush if the cache is near its
\* capacity.
StoreCoin(coinDB, cl) ==
    LET flush == (coinDB.mainCacheSize + Outputs[cl[1]]) % Word >= MainCacheCapacity
        c == IF flush THEN FlushMainCache(coinDB) ELSE coinDB
    IN [c EXCEPT !.mainCache = PutInMap(@, cl, FALSE),
                 !.mainCacheSize = (@ + 1) % Word]

storeTransactionsInMainCache(coinDB, txs) == FoldLeft(StoreCoin, coinDB, OutputsOf(txs))

StoreInDB(coinDB, tx) == putRecordInDB(coinDB, tx, createCoinRecord(tx))
storeTransactionsInDB(coinDB, txs) == FoldLeft(StoreInDB, coinDB, txs)

StoreBlock(coinDB, txs) ==
    storeTransactionsInDB(storeTransactionsInMainCache(updateSpentCoins(coinDB, txs), txs), txs)

\* Part (1) of UndoCoins: the coins a transaction created go, cache and record.
EraseTransaction(coinDB, tx) ==
    [mainCache |-> Restrict(coinDB.mainCache,
                            DOMAIN coinDB.mainCache \ ToSet(TransactionOutputs(tx))),
     mainCacheSize |-> (coinDB.mainCacheSize - Outputs[tx]) % Word,
     db |-> DeleteFromMap(coinDB.db, tx)]

\* The record of an undo block's entry after that entry is restored.  A record
\* made anew gets every coin of the undo block.
addCoinToRecord(coinDB, ub, j) ==
    IF ub[j].hash \in DOMAIN coinDB.db
    THEN Append(coinDB.db[ub[j].hash], [index |-> ub[j].index, coin |-> ub[j].coin])
    ELSE [k \in DOMAIN ub |-> [index |-> ub[k].index, coin |-> ub[k].coin]]

\* Part (2) of UndoCoins: entry j of an undo block is usable again.
RestoreCoin(coinDB, ub, j) ==
    LET cl == <<ub[j].hash, ub[j].index>>
        c == IF cl \in DOMAIN coinDB.mainCache
             THEN [coinDB EXCEPT !.mainCache[cl] = FALSE] ELSE coinDB
    IN putRecordInDB(c, ub[j].hash, addCoinToRecord(coinDB, ub, j))

\* A block and its undo block: both parts.
RestoreEntry(s, j) == [s EXCEPT !.coinDB = RestoreCoin(@, s.undo, j)]
RestoreCoins(coinDB, ub) ==
    FoldLeftDomain(RestoreEntry, [coinDB |-> coinDB, undo |-> ub], ub).coinDB
UndoPair(coinDB, pair) ==
    RestoreCoins(FoldLeft(EraseTransaction, coinDB, Transactions[pair.block]), pair.undo)

\* blocks and undoBlocks are of equal length, the newest block first.
UndoCoins(coinDB, blocks, undoBlocks) ==
    FoldLeft(UndoPair, coinDB,
             [i \in DOMAIN blocks |-> [block |-> blocks[i], undo |-> undoBlocks[i]]])

\* GetBalance flushes the cache and adds up what the db's records hold.
AppendRecord(cr, counted) == counted \o cr
CountedCoins(coinDB) == FoldFunction(AppendRecord, <<>>, FlushMainCache(coinDB).db)
=============================================================================
