------------------------------- MODULE Wallet -------------------------------
(***************************************************************************)
(* The wallet of a node (pkg/wallet) and the chain it watches.             *)
(*                                                                         *)
(* The node hands every block that extends its chain to HandleBlock in a   *)
(* goroutine of its own (ForwardBlock), so the calls run in any order, and *)
(* every block of its own miner, whether or not the chain took it; the     *)
(* user calls RequestTransaction and the lightning node asks for funding   *)
(* transactions in between.  Each of these calls is one step.              *)
(*                                                                         *)
(* A transaction is known by its place in txs, which stands for its hash.  *)
(* Its outputs carry an amount and whether the wallet takes them for its   *)
(* own: the locking script decodes to our public key.  A CoinInfo holds a  *)
(* pointer to the output, so the same output decoded from another block is *)
(* another CoinInfo: ptr is the block it came from.  Signatures, scripts   *)
(* and what happens to a transaction before it is mined are left out.      *)
(* overtook is a history variable: no action looks at it.                  *)
(***************************************************************************)
EXTENDS Integers, Sequences, SequencesExt, FiniteSetsExt

CONSTANTS
    Word,               \* 2^32 in the code: amounts are unsigned words
    SafeBlockAmount,    \* config: blocks on top before a coin counts
    Receipts,           \* amounts others pay us
    Spends,             \* <<amount, fee, receiver>> the user asks RequestTransaction
                        \* for; receiver: FALSE if the public key is nil or empty
    Fundings,           \* <<amount, fee>> of GenerateFundingTransaction
    HasMiner,           \* config: blocks also come from the node's own miner
    Bootstraps,         \* TRUE: blocks also come from Bootstrap
    MaxForkDepth,       \* bound: blocks that leave the chain at once
    MaxForks,           \* bound: forks
    MaxBlocks,          \* bound: blocks that ever arrive
    MaxRequests         \* bound: transactions the wallet makes

ASSUME WordAssumption == Word \in Nat \ {0} /\ SafeBlockAmount \in Nat
ASSUME AmountsAssumption ==
    /\ Receipts \subseteq 1..(Word - 1)
    /\ Spends \subseteq (0..(Word - 1)) \X (0..(Word - 1)) \X BOOLEAN
    /\ Fundings \subseteq (0..(Word - 1)) \X (0..(Word - 1))
ASSUME SwitchesAssumption == {HasMiner, Bootstraps} \subseteq BOOLEAN
ASSUME BoundsAssumption == {MaxForkDepth, MaxForks, MaxBlocks, MaxRequests} \subseteq Nat

VARIABLES
    Balance, CoinCollection, UnseenSpentCoins,          \* as in Wallet
    UnconfirmedSpentCoins, UnconfirmedReceivedCoins,
    txs,            \* all transactions there are
    chain,          \* the active chain above the genesis block
    pending,        \* blocks whose HandleBlock goroutine did not run yet
    missed,         \* blocks that the wallet is never told of
    strays,         \* blocks off the chain that the wallet is told of
    overtook,       \* history: block -> lower blocks pending when it was handled
    blocks,         \* blocks that ever arrived
    requests,       \* transactions the wallet made, for the bound
    forks           \* calls of HandleFork, for the bound

walletVars == <<Balance, CoinCollection, UnseenSpentCoins, UnconfirmedSpentCoins,
                UnconfirmedReceivedCoins>>
vars == <<walletVars, txs, chain, pending, missed, strays, overtook, blocks, requests, forks>>

-----------------------------------------------------------------------------
(* Coins and transactions                                                  *)

Total(coins) == MapThenSumSet(LAMBDA c : c.amount, coins)

Locator(c) == <<c.hash, c.index>>
Locators(coins) == {Locator(c) : c \in coins}

\* The coins HandleBlock finds in block b.
CoinsOf(b) ==
    {[hash |-> x[1], index |-> x[2], amount |-> txs[x[1]].Outputs[x[2]].amount, ptr |-> b.serial] :
        x \in {y \in b.txs \X (1..3) :
                  y[2] \in DOMAIN txs[y[1]].Outputs /\ txs[y[1]].Outputs[y[2]].mine}}

OnChain == UNION {b.txs : b \in ToSet(chain)}
SpentBy(hashes) == UNION {txs[h].Inputs : h \in hashes}

\* Go ranges over CoinCollection in any order and stops when need is reached,
\* or when there are no more coins.
InputChoicesShort(need) ==                                     \* mutant: stops at the first coin
    {coins \in SUBSET CoinCollection : Cardinality(coins) = 1}
InputChoices(need) ==
    LET short(coins) == Total(coins) % Word < need
        \* what n rounds of the loop can have taken
        taken[n \in 0..Cardinality(CoinCollection)] ==
            IF n = 0 THEN {{}}
            ELSE UNION {{coins \cup {c} : c \in CoinCollection \ coins} :
                           coins \in {s \in taken[n - 1] : short(s)}}
    IN {coins \in (UNION Range(taken)) \cap SUBSET CoinCollection :
            ~short(coins) \/ coins = CoinCollection}

Output(amount, mine) == [amount |-> amount, mine |-> mine]

\* Without a receiver there are no outputs, and the caller carries on.
generateTransactionOutputs(amount, receiver, change) ==
    CASE ~receiver -> <<>>
      [] receiver /\ change # 0 -> <<Output(amount, FALSE), Output(change, TRUE)>>
      [] receiver /\ change = 0 -> <<Output(amount, FALSE)>>

-----------------------------------------------------------------------------
Init ==
    /\ Balance = 0
    /\ CoinCollection = {}
    /\ UnseenSpentCoins = <<>>
    /\ UnconfirmedSpentCoins = <<>>
    /\ UnconfirmedReceivedCoins = <<>>
    /\ txs = <<>>
    /\ chain = <<>>
    /\ pending = {}
    /\ missed = {}
    /\ strays = {}
    /\ overtook = [s \in 1..MaxBlocks |-> 0]
    /\ blocks = 0
    /\ requests = 0
    /\ forks = 0

\* The coins of a request are set aside until a block shows the transaction.
TakeAsideNot(coins) == CoinCollection                          \* mutant: the coins stay
TakeAside(coins) == CoinCollection \ coins

Cost(amount, fee) == (amount + fee) % Word

\* A request that the balance does not cover, or that needs no coin, is refused.
RequestTransaction(amount, fee, receiver) ==
    /\ requests < MaxRequests
    /\ requests' = requests + 1
    /\ Balance >= Cost(amount, fee)
    /\ \E coins \in InputChoices(Cost(amount, fee)) :
         LET change == (Total(coins) - Cost(amount, fee)) % Word
         IN /\ coins # {}
            /\ txs' = Append(txs, [Inputs |-> Locators(coins),
                                   Outputs |-> generateTransactionOutputs(amount, receiver, change)])
            /\ UnseenSpentCoins' = [h \in DOMAIN UnseenSpentCoins \cup {Len(txs) + 1} |->
                                       IF h = Len(txs) + 1 THEN coins ELSE UnseenSpentCoins[h]]
            /\ CoinCollection' = TakeAside(coins)
            /\ Balance' = (Balance - (amount + fee + change)) % Word
    /\ UNCHANGED <<UnconfirmedSpentCoins, UnconfirmedReceivedCoins, chain, pending,
                   missed, strays, overtook, blocks, forks>>

\* The funding transaction of a channel.  The wallet keeps no note of it.  The
\* multi-party scripts of all three outputs decode to our public key, because
\* the fields of MultiParty and PayToPublicKey have the same numbers.
GenerateFundingTransaction(amount, fee) ==
    /\ requests < MaxRequests
    /\ requests' = requests + 1
    /\ LET need == (amount + 2 * fee) % Word
       IN \E coins \in InputChoices(need) :
            txs' = Append(txs,
                     [Inputs |-> Locators(coins),
                      Outputs |-> <<Output(amount, TRUE), Output(0, TRUE),
                                    Output((Total(coins) - need + fee) % Word, TRUE)>>])
    /\ UNCHANGED <<walletVars, chain, pending, missed, strays, overtook, blocks, forks>>

\* Transactions that a miner can put in a block above the transactions in
\* below: their inputs are there, unspent, and no two of them spend the same.
Minable(hashes, below) ==
    /\ hashes \subseteq DOMAIN txs \ below
    /\ \A h \in hashes : /\ \A cl \in txs[h].Inputs : cl[1] \in below
                         /\ txs[h].Inputs \cap SpentBy(below \cup (hashes \ {h})) = {}

Receipt(paid) == [Inputs |-> {}, Outputs |-> <<Output(paid, TRUE)>>]

\* A block extends the chain; it may hold a payment to us.  A block of
\* Bootstrap does not get to the wallet.
NewBlock ==
    /\ blocks < MaxBlocks
    /\ blocks' = blocks + 1
    /\ \E hashes \in {s \in SUBSET DOMAIN txs : Minable(s, OnChain)}, paid \in Receipts \cup {0} :
         LET held == hashes \cup (IF paid = 0 THEN {} ELSE {Len(txs) + 1})
         IN /\ txs' = IF paid = 0 THEN txs ELSE Append(txs, Receipt(paid))
            /\ chain' = Append(chain, [serial |-> blocks + 1, txs |-> held])
    /\ \/ /\ pending' = pending \cup {blocks + 1}
          /\ UNCHANGED missed
       \/ /\ Bootstraps
          /\ missed' = missed \cup {blocks + 1}
          /\ UNCHANGED pending
    /\ UNCHANGED <<walletVars, strays, overtook, requests, forks>>

\* The chain does not take a block of the node's own miner: such a block lies on
\* the genesis block, whatever the chain, or its transactions, any of those in
\* the pool, are not valid.  HandleMinerBlock hands it to the wallet all the same.
MinerBlockRefused ==
    /\ HasMiner
    /\ blocks < MaxBlocks
    /\ blocks' = blocks + 1
    /\ \E hashes \in SUBSET DOMAIN txs, paid \in Receipts \cup {0} :
         LET held == hashes \cup (IF paid = 0 THEN {} ELSE {Len(txs) + 1})
         IN /\ chain # <<>> \/ ~Minable(hashes, {})
            /\ txs' = IF paid = 0 THEN txs ELSE Append(txs, Receipt(paid))
            /\ strays' = strays \cup {[serial |-> blocks + 1, txs |-> held]}
    /\ pending' = pending \cup {blocks + 1}
    /\ UNCHANGED <<walletVars, chain, missed, overtook, requests, forks>>

\* Each of the unconfirmed coins: one more confirmation, or confirmed.
ConfirmedEarly(unconfirmed) ==                                 \* mutant: off by one
    {c \in DOMAIN unconfirmed : unconfirmed[c] >= SafeBlockAmount - 1}
Confirmed(unconfirmed) ==
    {c \in DOMAIN unconfirmed : unconfirmed[c] = SafeBlockAmount}
CountUp(unconfirmed) ==
    [c \in DOMAIN unconfirmed \ Confirmed(unconfirmed) |-> unconfirmed[c] + 1]

StartCounting(unconfirmed, coins) ==
    [c \in DOMAIN unconfirmed \cup coins |-> IF c \in coins THEN 0 ELSE unconfirmed[c]]

\* Our transactions in block b.
SeenNone(b) == {}                                              \* mutant: not looked up
Seen(b) == b.txs \cap DOMAIN UnseenSpentCoins

HandleBlock(b) ==
    /\ b.serial \in pending
    /\ LET spent == StartCounting(UnconfirmedSpentCoins,
                                  UNION {UnseenSpentCoins[h] : h \in Seen(b)})
           received == StartCounting(UnconfirmedReceivedCoins, CoinsOf(b))
       IN /\ UnconfirmedSpentCoins' = CountUp(spent)
          /\ UnconfirmedReceivedCoins' = CountUp(received)
          /\ CoinCollection' = (CoinCollection \ Confirmed(spent)) \cup Confirmed(received)
          /\ Balance' = (Balance + Total(Confirmed(received))) % Word
    /\ UnseenSpentCoins' = [h \in DOMAIN UnseenSpentCoins \ Seen(b) |-> UnseenSpentCoins[h]]
    /\ pending' = pending \ {b.serial}
    /\ overtook' = [overtook EXCEPT ![b.serial] = Cardinality({s \in pending : s < b.serial})]
    /\ UNCHANGED <<txs, chain, missed, strays, blocks, requests, forks>>

\* The coins a reverted transaction h spent go back to UnseenSpentCoins unless
\* they had all their confirmations.
Respent(h) ==
    {c \in DOMAIN UnconfirmedSpentCoins :
        Locator(c) \in txs[h].Inputs /\ UnconfirmedSpentCoins[c] < SafeBlockAmount}

\* The received coins that leave with the blocks, compared by pointer: found only
\* if HandleFork gets the very blocks that HandleBlock got.
RemoveFromUnconfirmed(reverted, same) ==
    {c \in DOMAIN UnconfirmedReceivedCoins :
        /\ same
        /\ \E b \in reverted : c \in CoinsOf(b)
        /\ UnconfirmedReceivedCoins[c] < SafeBlockAmount}

\* The last n blocks leave the chain and the wallet is told (nothing in the node
\* calls HandleFork yet).
HandleFork(n, same) ==
    /\ n \in 1..Len(chain)
    /\ forks < MaxForks
    /\ forks' = forks + 1
    /\ pending = {}
    /\ LET reverted == {chain[i] : i \in (Len(chain) - n + 1)..Len(chain)}
           again == {h \in UNION {b.txs : b \in reverted} : Respent(h) # {}}
           removed == RemoveFromUnconfirmed(reverted, same)
       IN /\ UnseenSpentCoins' = [h \in DOMAIN UnseenSpentCoins \cup again |->
                                     IF h \in again THEN Respent(h) ELSE UnseenSpentCoins[h]]
          /\ UnconfirmedSpentCoins' =
                [c \in DOMAIN UnconfirmedSpentCoins \ UNION {Respent(h) : h \in again} |->
                    UnconfirmedSpentCoins[c]]
          /\ UnconfirmedReceivedCoins' =
                [c \in DOMAIN UnconfirmedReceivedCoins \ removed |-> UnconfirmedReceivedCoins[c]]
    /\ chain' = SubSeq(chain, 1, Len(chain) - n)
    /\ UNCHANGED <<Balance, CoinCollection, txs, pending, missed, strays, overtook, blocks,
                   requests>>

Next ==
    \/ \E s \in Spends : RequestTransaction(s[1], s[2], s[3])
    \/ \E f \in Fundings : GenerateFundingTransaction(f[1], f[2])
    \/ NewBlock
    \/ MinerBlockRefused
    \/ \E b \in ToSet(chain) \cup strays : HandleBlock(b)
    \/ \E n \in 1..MaxForkDepth, same \in BOOLEAN : HandleFork(n, same)

Spec == Init /\ [][Next]_vars

-----------------------------------------------------------------------------
(* Properties                                                              *)

\* No block left the chain, and the wallet was told of none that is not on it.
OneChain == forks = 0 /\ strays = {}

Handled == {b \in ToSet(chain) : b.serial \notin pending}
HandledTxs == UNION {b.txs : b \in Handled}

Received == UNION {Locators(CoinsOf(b)) : b \in Handled}
Reserved == UNION Range(UnseenSpentCoins)

\* The wallet has every coin paid to us in a block it handled and not spent in
\* one, and only those: spendable, set aside for a request or waiting for
\* confirmations, whatever the order of blocks and requests; as long as it is
\* told of every block of the chain and of no other (Bootstrap keeps blocks from
\* it, node.go:337, and HandleMinerBlock shows it blocks that the chain did not
\* take, node.go:224), and made no funding, which does not set its coins aside
\* (wallet.go:389).
NoFunding == \A h \in DOMAIN txs : Len(txs[h].Outputs) < 3
OwnedExactly ==
    OneChain /\ missed = {} /\ NoFunding =>
        Locators(CoinCollection \cup Reserved \cup DOMAIN UnconfirmedReceivedCoins)
            = Received \ SpentBy(HandledTxs)

\* A coin is in one of the wallet's four places at most, whatever blocks come,
\* go or miss the chain; and under one CoinInfo, while there is one chain.
CoinInOnePlace ==
    LET places == <<CoinCollection, Reserved, DOMAIN UnconfirmedSpentCoins,
                    DOMAIN UnconfirmedReceivedCoins>>
    IN /\ \A i, j \in DOMAIN places : i # j => places[i] \cap places[j] = {}
       /\ OneChain => \A c, d \in UNION Range(places) : Locator(c) = Locator(d) => c = d

\* The balance RequestTransaction checks is the value of the coins it draws on.
BalanceIsCoins == Balance = Total(CoinCollection) % Word

\* "... so that the wallet owner can't keep spamming their coin": no two
\* transactions of the wallet spend the same coin (fails with fundings, whose
\* coins stay in the collection).
NoCoinSpentTwice ==
    \A g, h \in DOMAIN txs : g # h => txs[g].Inputs \cap txs[h].Inputs = {}

\* What RequestTransaction set aside never comes back to be spent again, in
\* whatever order blocks show it and other requests are made.
RequestsSpendOnce == OneChain /\ NoFunding => NoCoinSpentTwice

AmountAt(cl) == txs[cl[1]].Outputs[cl[2]].amount

\* "have to ensure that we have enough money to actually make this
\* transaction": what RequestTransaction makes pays out no more than it takes
\* in (fails when amount and fee wrap).
PaysWhatItHas ==
    OneChain => \A h \in DOMAIN txs :
        txs[h].Inputs # {} /\ Len(txs[h].Outputs) < 3 =>
            FoldSeq(LAMBDA o, sum : o.amount + sum, 0, txs[h].Outputs)
                <= MapThenSumSet(AmountAt, txs[h].Inputs)

\* How many blocks lie on top of the block with transaction h.
Depth(h) ==
    LET i == CHOOSE j \in DOMAIN chain : h \in chain[j].txs IN Len(chain) - i

\* A coin is spendable only when SafeBlockAmount blocks lie on top of the block
\* that holds it, less one for each lower block that its own overtook: a
\* goroutine that comes late counts as one more confirmation.
ConfirmedIsDeep ==
    OneChain => \A c \in CoinCollection :
                    c.hash \in OnChain /\ Depth(c.hash) + overtook[c.ptr] >= SafeBlockAmount

\* "We can't confirm we've received a Coin until we've seen enough POW on top
\* the block containing our received transaction": SafeBlockAmount blocks, for
\* every coin on the chain (fails when the goroutines run out of order).
SeenEnoughWork ==
    \A c \in CoinCollection : c.hash \in OnChain => Depth(c.hash) >= SafeBlockAmount

\* The same sentence, for the block itself: a coin is spendable only if the chain
\* holds the transaction that paid it (fails after a miner's block that the
\* chain did not take).
PaidOnChain == forks = 0 => \A c \in CoinCollection : c.hash \in OnChain
=============================================================================
