-------------------------------- MODULE Miner --------------------------------
(***************************************************************************)
(* The miner with its transaction pool (pkg/miner), the event loop of the  *)
(* node (Node.Start) and the node's mutex.                                 *)
(*                                                                         *)
(* Calls is a set of calls, each made once and running in a goroutine of   *)
(* its own: the wallet sends a transaction to the loop ("request"), a peer *)
(* forwards one ("forward") or a block ("block"), somebody calls Mine      *)
(* ("mine"), the lightning node asks for a funding transaction ("fund").   *)
(* A call is cut at every channel operation, lock and atomic counter.      *)
(*                                                                         *)
(* All Go channels here are unbuffered: a send happens together with its   *)
(* receive.  loop is Select, or what the loop is trying to send and the    *)
(* call that asked for it.  The loop's own work between two channel        *)
(* operations is one step.  The chain is seen only through the input sums  *)
(* it reports: 0 may be reported for a transaction that is on it already.  *)
(* The pool's own lock covers one heap operation, which is one step; Mine  *)
(* reads the heap without that lock, here in one step too.                 *)
(***************************************************************************)
EXTENDS TransactionHeap, FiniteSetsExt

CONSTANTS
    Calls, Kind, Txs,               \* Txs[c]: the transactions call c is about
    Transactions, InputSum, OutputSum, Size, Segwit,
    Word,                           \* 2^32 in the code
    TransactionPoolCapacity, PriorityLimit, BlockSize,      \* as in Config
    InitialSubsidy, SubsidyHalvingRate, MaxHalvings,
    InitialPool,                    \* transactions that were added before
    MaxCalls,                       \* how many of the calls a behaviour has
    MayStart                        \* TRUE: the user calls StartMiner at some time

ASSUME CallsAssumption ==
    /\ Kind \in [Calls -> {"request", "forward", "block", "mine", "fund"}]
    /\ Txs \in [Calls -> Seq(Transactions)]
    /\ \A c \in Calls : Kind[c] \in {"request", "forward"} => Len(Txs[c]) = 1
    /\ \A c, d \in Calls : Kind[c] = "mine" /\ Kind[d] = "mine" => c = d
    /\ IsFiniteSet(Calls) /\ MaxCalls \in Nat
ASSUME TransactionsAssumption ==
    /\ Word \in Nat \ {0, 1}
    /\ InputSum \in [Transactions -> 0..(Word - 1)]
    /\ OutputSum \in [Transactions -> 0..(Word - 1)]
    /\ Size \in [Transactions -> 1..(Word - 1)]
    /\ Segwit \subseteq Transactions /\ InitialPool \in Seq(Transactions)
ASSUME ConfigAssumption ==
    /\ {TransactionPoolCapacity, PriorityLimit, BlockSize, InitialSubsidy, MaxHalvings} \subseteq Nat
    /\ SubsidyHalvingRate \in Nat \ {0} /\ MayStart \in BOOLEAN

VARIABLES
    TxQ, Count, CurrentPriority,    \* as in TxPool
    MiningPool, ChainLength, Active,    \* as in Miner
    SeenTransactions, mutex,        \* as in Node; the call that holds the mutex
    pc,                             \* where each call is
    sum, num, pri,                  \* its local variables
    coinbase,                       \* the amount of the coinbase being mined
    loop,
    onChain,                        \* transactions in blocks of the chain
    late,                           \* history: a call gave up on its answer
    applied                         \* history: the calls that changed the heap

poolVars == <<TxQ, Count, CurrentPriority>>
minerVars == <<MiningPool, ChainLength, Active, coinbase>>
nodeVars == <<SeenTransactions, mutex, loop, onChain>>
localVars == <<sum, num, pri>>
history == <<late, applied>>
vars == <<poolVars, minerVars, nodeVars, localVars, pc, history>>

Select == [chan |-> "none"]
Free == "free"

Goto(c, label) == pc' = [pc EXCEPT ![c] = label]
ForgetLocals(c) ==
    /\ sum' = [sum EXCEPT ![c] = 0]
    /\ num' = [num EXCEPT ![c] = 0]
    /\ pri' = [pri EXCEPT ![c] = 0]

-----------------------------------------------------------------------------
(* The pool                                                                *)

Total(heap) == FoldFunction(+, 0, [i \in DOMAIN heap |-> heap[i].Priority])
Amounts(f, ts) == FoldFunction(+, 0, [i \in DOMAIN ts |-> f[ts[i]]])

\* The fee per size, at least 1; the fee wraps when the outputs exceed sumInputs.
CalculatePriorityZero(t, sumInputs) ==                \* mutant: without the least priority
    ((((sumInputs - OutputSum[t]) % Word) * 100) % Word) \div Size[t]
CalculatePriority(t, sumInputs) ==
    LET fees == (sumInputs - OutputSum[t]) % Word
        pr == ((fees * 100) % Word) \div Size[t]
    IN IF pr = 0 THEN 1 ELSE pr

PriorityMet == CurrentPriority >= PriorityLimit

\* A round of NewMiningPool: the next node of the heap's array, until the block
\* is full.
PickRoundOverfull(s, node) ==                         \* mutant: the size is added too late
    IF ~s.full /\ s.blkSz < BlockSize
    THEN [s EXCEPT !.blkSz = (@ + Size[node.Transaction]) % Word,
                   !.txs = Append(@, node.Transaction)]
    ELSE [s EXCEPT !.full = TRUE]
PickRound(s, node) ==
    LET blkSz == (s.blkSz + Size[node.Transaction]) % Word
    IN IF ~s.full /\ blkSz < BlockSize
       THEN [blkSz |-> blkSz, full |-> FALSE, txs |-> Append(s.txs, node.Transaction)]
       ELSE [s EXCEPT !.full = TRUE]

NewMiningPool == FoldLeft(PickRound, [blkSz |-> 100, full |-> FALSE, txs |-> <<>>], TxQ).txs

\* math.Pow(2, halvings), by doubling.
Double(power, i) == 2 * power
PowerOfTwo(halvings) == FoldLeft(Double, 1, [i \in 1..halvings |-> i])

CalculateMintingReward ==
    IF ChainLength >= SubsidyHalvingRate * MaxHalvings THEN 0
    ELSE InitialSubsidy \div PowerOfTwo(ChainLength \div SubsidyHalvingRate)

CalculateFees(ts, inSum) ==
    LET outSum == Amounts(OutputSum, ts) % Word
    IN IF inSum > outSum THEN inSum - outSum ELSE 0

-----------------------------------------------------------------------------
AddInitial(heap, t) == AddToHeap(heap, CalculatePriority(t, InputSum[t]), t)

Init ==
    LET added == FoldLeft(AddInitial, <<>>, InitialPool)
    IN /\ TxQ = added
       /\ Count = Len(added) % Word
       /\ CurrentPriority = Total(added) % Word
       /\ MiningPool = <<>>
       /\ ChainLength = 1
       /\ Active = FALSE
       /\ SeenTransactions = ToSet(InitialPool)
       /\ mutex = Free
       /\ \E made \in SUBSET Calls :
            /\ Cardinality(made) <= MaxCalls
            /\ pc = [c \in Calls |-> IF c \in made THEN "start" ELSE "absent"]
       /\ sum = [c \in Calls |-> 0]
       /\ num = [c \in Calls |-> 0]
       /\ pri = [c \in Calls |-> 0]
       /\ coinbase = 0
       /\ loop = Select
       /\ onChain = {}
       /\ late = FALSE
       /\ applied = {}

StartMiner ==
    /\ MayStart /\ ~Active
    /\ Active' = TRUE
    /\ UNCHANGED <<poolVars, MiningPool, ChainLength, coinbase, nodeVars, localVars, pc, history>>

-----------------------------------------------------------------------------
(* How a call gets to the miner                                            *)

\* The loop takes the wallet's transaction: BroadcastTransaction.
BroadcastTransaction(c) ==
    /\ Kind[c] = "request" /\ pc[c] = "start" /\ loop = Select
    /\ SeenTransactions' = SeenTransactions \cup ToSet(Txs[c])
    /\ Goto(c, "ask")
    /\ UNCHANGED <<poolVars, minerVars, mutex, loop, onChain, localVars, history>>

\* The handler keeps the mutex until HandleTransaction returns.  A transaction
\* that was seen before goes to the miner again.
ForwardTransaction(c) ==
    /\ Kind[c] = "forward" /\ pc[c] = "start" /\ mutex = Free
    /\ mutex' = c
    /\ SeenTransactions' = SeenTransactions \cup ToSet(Txs[c])
    /\ Goto(c, "ask")
    /\ UNCHANGED <<poolVars, minerVars, loop, onChain, localVars, history>>

\* The witnesses of a new SegWit transaction could not be fetched.
WitnessesMissing(c) ==
    /\ Kind[c] = "forward" /\ pc[c] = "start" /\ mutex = Free
    /\ ToSet(Txs[c]) \subseteq Segwit \ SeenTransactions
    /\ Goto(c, "done")
    /\ UNCHANGED <<poolVars, minerVars, nodeVars, localVars, history>>

\* A block of the network.  Only one that extends the main chain gets to the
\* miner, in a goroutine that does not hold the mutex.
ForwardBlock(c) ==
    /\ Kind[c] = "block" /\ pc[c] = "start" /\ mutex = Free
    /\ \/ /\ onChain' = onChain \cup ToSet(Txs[c])
          /\ Goto(c, "length")
       \/ /\ Goto(c, "done")
          /\ UNCHANGED onChain
    /\ UNCHANGED <<poolVars, minerVars, SeenTransactions, mutex, loop, localVars, history>>

FundingRequest(c) ==
    /\ Kind[c] = "fund" /\ pc[c] = "start"
    /\ Goto(c, "ask")
    /\ UNCHANGED <<poolVars, minerVars, nodeVars, localVars, history>>

Mine(c) ==
    /\ Kind[c] = "mine" /\ pc[c] = "start"
    /\ IF PriorityMet
       THEN /\ MiningPool' = NewMiningPool
            /\ Goto(c, "ask")
       ELSE /\ Goto(c, "done")
            /\ UNCHANGED MiningPool
    /\ UNCHANGED <<poolVars, ChainLength, Active, coinbase, nodeVars, localVars, history>>

-----------------------------------------------------------------------------
(* Asking the loop: getInputSums, getTransactionFromWallet                 *)

\* The transactions call c sends along, and the channel for the answer.
Asked(c) == IF Kind[c] = "mine" THEN MiningPool ELSE Txs[c]
Channel(c) == IF Kind[c] = "fund" THEN "ReceiveTransactionFromWallet" ELSE "InputSums"

\* BlockChain.GetInputSums, added up.
GetInputSums(ts) ==
    {Amounts([t \in Transactions |-> IF t \in gone THEN 0 ELSE InputSum[t]], ts) % Word :
        gone \in SUBSET (onChain \cap ToSet(ts))}

LoopTakesAll == TRUE                          \* mutant: the answer is left to a goroutine
LoopReady == loop = Select

\* The request is handed over.  There is no time-out on this send.
Ask(c) ==
    /\ pc[c] = "ask" /\ LoopReady
    /\ \E s \in GetInputSums(Asked(c)) :
         loop' = [chan |-> Channel(c), asker |-> c, sums |-> s]
    /\ Goto(c, "wait")
    /\ UNCHANGED <<poolVars, minerVars, SeenTransactions, mutex, onChain, localVars, history>>

Answered(c) ==
    Goto(c, CASE Kind[c] = "mine" -> "coinbase" [] Kind[c] = "fund" -> "done" [] OTHER -> "check")

\* The loop's answer arrives.
Receive(c) ==
    /\ pc[c] = "wait" /\ loop # Select /\ loop.chan = Channel(c)
    /\ sum' = [sum EXCEPT ![c] = loop.sums]
    /\ loop' = Select
    /\ Answered(c)
    /\ UNCHANGED <<poolVars, minerVars, SeenTransactions, mutex, onChain, num, pri, history>>

\* The context is done first: the caller goes on with 0 (a nil transaction).
TimeOut(c) ==
    /\ pc[c] = "wait"
    /\ sum' = [sum EXCEPT ![c] = 0]
    /\ late' = TRUE
    /\ Answered(c)
    /\ UNCHANGED <<poolVars, minerVars, nodeVars, num, pri, applied>>

-----------------------------------------------------------------------------
(* HandleTransaction: TxPool.Add                                           *)

CheckCapacity(c) ==
    /\ pc[c] = "check"
    /\ IF Count >= TransactionPoolCapacity
       THEN Goto(c, "notify") /\ UNCHANGED pri
       ELSE /\ Goto(c, "priority")
            /\ pri' = [pri EXCEPT ![c] = CalculatePriority(Txs[c][1], sum[c])]
    /\ UNCHANGED <<poolVars, minerVars, nodeVars, sum, num, history>>

AddPriority(c) ==
    /\ pc[c] = "priority"
    /\ CurrentPriority' = (CurrentPriority + pri[c]) % Word
    /\ Goto(c, "push")
    /\ UNCHANGED <<TxQ, Count, minerVars, nodeVars, localVars, history>>

PushTransaction(c) ==
    /\ pc[c] = "push"
    /\ TxQ' = AddToHeap(TxQ, pri[c], Txs[c][1])
    /\ applied' = applied \cup {c}
    /\ Goto(c, "count")
    /\ UNCHANGED <<Count, CurrentPriority, minerVars, nodeVars, localVars, late>>

CountUp(c) ==
    /\ pc[c] = "count"
    /\ Count' = (Count + 1) % Word
    /\ Goto(c, "notify")
    /\ UNCHANGED <<TxQ, CurrentPriority, minerVars, nodeVars, localVars, history>>

-----------------------------------------------------------------------------
(* HandleBlock: TxPool.CheckTransactions                                   *)

IncrementChainLength(c) ==
    /\ pc[c] = "length"
    /\ ChainLength' = (ChainLength + 1) % Word
    /\ Goto(c, "remove")
    /\ UNCHANGED <<poolVars, MiningPool, Active, coinbase, nodeVars, localVars, history>>

\* How much the count goes down.
AmountAsked(c, rest) == Len(Asked(c))         \* mutant: all of the block, in the pool or not
AmountRemoved(c, rest) == rest.removed

RemoveTransactions(c) ==
    /\ pc[c] = "remove"
    /\ LET rest == RemoveFromHeap(TxQ, Asked(c))
       IN /\ TxQ' = rest.heap
          /\ num' = [num EXCEPT ![c] = AmountRemoved(c, rest)]
          /\ pri' = [pri EXCEPT ![c] = rest.totalPriority % Word]
    /\ applied' = applied \cup {c}
    /\ Goto(c, "subtract")
    /\ UNCHANGED <<Count, CurrentPriority, minerVars, nodeVars, sum, late>>

CountDown(c) ==
    /\ pc[c] = "subtract"
    /\ Count' = (Count - num[c]) % Word
    /\ Goto(c, "subtractPriority")
    /\ UNCHANGED <<TxQ, CurrentPriority, minerVars, nodeVars, localVars, history>>

SubtractPriority(c) ==
    /\ pc[c] = "subtractPriority"
    /\ CurrentPriority' = (CurrentPriority - pri[c]) % Word
    /\ Goto(c, "notify")
    /\ UNCHANGED <<TxQ, Count, minerVars, nodeVars, localVars, history>>

\* With an active miner the call sends on PoolUpdated, which nobody receives.
\* Otherwise it returns, and a handler unlocks the mutex.
NotifyKeepMutex(c) ==                         \* mutant: Unlock is forgotten
    /\ pc[c] = "notify"
    /\ Goto(c, IF Active THEN "PoolUpdated" ELSE "done")
    /\ ForgetLocals(c)
    /\ UNCHANGED <<poolVars, minerVars, nodeVars, history>>
Notify(c) ==
    /\ pc[c] = "notify"
    /\ Goto(c, IF Active THEN "PoolUpdated" ELSE "done")
    /\ mutex' = IF mutex = c /\ ~Active THEN Free ELSE mutex
    /\ ForgetLocals(c)
    /\ UNCHANGED <<poolVars, minerVars, SeenTransactions, loop, onChain, history>>

-----------------------------------------------------------------------------
(* Mine, after the input sums                                              *)

GenerateCoinbaseTransaction(c) ==
    /\ pc[c] = "coinbase"
    /\ coinbase' = (CalculateFees(MiningPool, sum[c]) + CalculateMintingReward) % Word
    /\ Goto(c, "nonce")
    /\ UNCHANGED <<poolVars, MiningPool, ChainLength, Active, nodeVars, localVars, history>>

\* A nonce is found, or there is none or no time.
CalculateNonce(c) ==
    /\ pc[c] = "nonce"
    /\ Goto(c, "send") \/ Goto(c, "done")
    /\ UNCHANGED <<poolVars, minerVars, nodeVars, localVars, history>>

\* The loop takes the block: HandleMinerBlock.  The chain may refuse it.
HandleMinerBlock(c) ==
    /\ pc[c] = "send" /\ loop = Select
    /\ onChain' \in {onChain, onChain \cup ToSet(MiningPool)}
    /\ Goto(c, "length")
    /\ UNCHANGED <<poolVars, minerVars, SeenTransactions, mutex, loop, localVars, history>>

-----------------------------------------------------------------------------
Step(c) ==
    \/ BroadcastTransaction(c) \/ ForwardTransaction(c) \/ WitnessesMissing(c)
    \/ ForwardBlock(c) \/ FundingRequest(c) \/ Mine(c)
    \/ Ask(c) \/ Receive(c) \/ TimeOut(c)
    \/ CheckCapacity(c) \/ AddPriority(c) \/ PushTransaction(c) \/ CountUp(c)
    \/ IncrementChainLength(c) \/ RemoveTransactions(c) \/ CountDown(c) \/ SubtractPriority(c)
    \/ Notify(c)
    \/ GenerateCoinbaseTransaction(c) \/ CalculateNonce(c) \/ HandleMinerBlock(c)

Next == StartMiner \/ \E c \in Calls : Step(c)

Spec == Init /\ [][Next]_vars

\* Goroutines that can go on do go on; nobody has to start the miner.  A step
\* never leads back, so that one fairness condition for all the calls is as
\* strong as one for each.
FairSpec == Spec /\ WF_vars(\E c \in Calls : Step(c))

-----------------------------------------------------------------------------
(* Properties                                                              *)

TypeOK ==
    /\ TxQ \in Seq([Priority : 1..(Word - 1), Transaction : Transactions])
    /\ Count \in 0..(Word - 1) /\ CurrentPriority \in 0..(Word - 1)
    /\ MiningPool \in Seq(Transactions)
    /\ ChainLength \in 0..(Word - 1) /\ coinbase \in 0..(Word - 1)
    /\ SeenTransactions \subseteq Transactions /\ onChain \subseteq Transactions
    /\ mutex \in Calls \cup {Free}
    /\ loop = Select \/ loop.asker \in Calls

\* When nobody is inside Add or CheckTransactions, the counters are those of
\* the heap, whatever the order of the separate atomic updates was and how far
\* they wrapped below zero meanwhile.
CountersAgree ==
    (\A c \in Calls : pc[c] \notin {"push", "count", "subtract", "subtractPriority"}) =>
        Count = Len(TxQ) % Word /\ CurrentPriority = Total(TxQ) % Word

\* A transaction that was added stays in the pool until a block with it is
\* handled: Remove takes out what it is asked to and nothing else.
NothingLost ==
    LET adders == {c \in applied : Kind[c] \in {"request", "forward"}}
        added == ToSet(InitialPool) \cup UNION {ToSet(Txs[c]) : c \in adders}
        handled == UNION {ToSet(Asked(d)) : d \in applied \ adders}
    IN added \ handled \subseteq {TxQ[i].Transaction : i \in DOMAIN TxQ}

\* The answer the loop is about to give goes to the call that asked for it,
\* although both kinds of answers go over channels shared by all calls.
AnswersMatch ==
    \A c \in Calls :
        (pc[c] = "wait" /\ loop # Select /\ loop.chan = Channel(c)) => loop.asker = c

\* A block is not larger than allowed, and its coinbase takes no more than its
\* fees and the subsidy, also when the input sums came late or not at all.
BlockIsModest ==
    \A c \in Calls :
        (Kind[c] = "mine" /\ pc[c] \in {"nonce", "send"}) =>
            /\ MiningPool # <<>> => 100 + Amounts(Size, MiningPool) < BlockSize
            /\ coinbase <= InitialSubsidy + Amounts(InputSum, MiningPool)
                                          - Amounts(OutputSum, MiningPool)

\* As long as every answer is in time and the miner is not started, every call
\* returns: loop, mutex and channels do not wait for each other in a circle.
HandlersReturn ==
    [](~late /\ ~Active) => <>(\A c \in Calls : pc[c] \in {"done", "absent"})

\* "This function times out after 1 second": getInputSums gets past its send.
SumsTimeOut ==
    \A c \in Calls : (Kind[c] # "fund" /\ pc[c] = "ask") ~> (pc[c] # "ask")

\* "PoolUpdated is used to send alerts of pool updates to the miner": an alert
\* gets to it, so that HandleTransaction and HandleBlock return.
AlertsArrive == \A c \in Calls : (pc[c] = "PoolUpdated") ~> (pc[c] = "done")

\* "Cap is the maximum amount of allowed transactions to store in the pool."
PoolWithinCapacity == Len(TxQ) <= TransactionPoolCapacity

\* "NewMiningPool selects the highest priority transactions".
HighestFirst ==
    LET n == Len(NewMiningPool)
    IN \A i \in 1..n, k \in (n + 1)..Len(TxQ) : TxQ[i].Priority >= TxQ[k].Priority
=============================================================================
