------------------------------- MODULE Network -------------------------------
(***************************************************************************)
(* Nodes that gossip transactions and blocks to their peers and catch up   *)
(* by Bootstrap (pkg/server.go, pkg/node.go), over the peerings of module  *)
(* Peering, which change meanwhile.                                        *)
(*                                                                         *)
(* There is one chain here: block h builds on block h - 1, Length[n] is    *)
(* the number of blocks above the genesis block at node n, and a block     *)
(* that does not extend the chain of n leaves no trace (module BlockChain  *)
(* has the forks, and blocks whose parent is missing).  The miner always   *)
(* builds on the genesis block, so the block it hands over is block 1.  A  *)
(* block spends coins of the one below unless it is in CoinbaseOnly.       *)
(* SeenTransactions counts are never read.                                 *)
(*                                                                         *)
(* A handler that waits for witnesses holds the mutex of its node, and so  *)
(* does, for good, one that tells an active miner of a transaction; the    *)
(* other handlers that need it are one step.  A panic ends the process.    *)
(* A call may miss its deadline at any time; where the caller only logs    *)
(* that, nothing shows.                                                    *)
(***************************************************************************)
EXTENDS Peering

CONSTANTS
    Transactions, Segwit,   \* Segwit: those that have witnesses
    CoinbaseOnly,           \* blocks that spend nothing
    MaxLength,              \* bound on the blocks of the chain
    BatchLimit,             \* 500 in the code
    Scenarios               \* the calls of a behaviour, who has peered before, the lengths then

Blocks == 1..MaxLength

ASSUME GossipAssumption == Segwit \subseteq Transactions /\ CoinbaseOnly \subseteq Blocks
ASSUME ChainAssumption == MaxLength \in Nat /\ BatchLimit \in Nat \ {0}
ASSUME ScenariosAssumption ==
    \A s \in Scenarios :
        /\ s.peers \in [Nodes -> SUBSET Nodes]
        /\ \A n \in Nodes : \A m \in s.peers[n] : n \in s.peers[m] /\ Version[m] = Version[n]
        /\ s.Length \in [Nodes -> 0..MaxLength]
        /\ \A c, d \in s.calls :      \* no rivals of block 1
             c.op = "mine" /\ d.op \in {"mine", "bootstrap"} => c = d /\ s.Length[c.at] = 0

VARIABLES
    SeenTransactions,   \* per node
    witnessed,          \* those of them that were stored with their witnesses
    SeenBlocks,         \* SeenBlocks[n][h], counted up to 2
    Length,
    forwardTxs,         \* ForwardTransaction calls in flight
    forwardBlocks,      \* ForwardBlock calls in flight
    handler,            \* the call that waits for witnesses, under the mutex
    boot,               \* the call of Bootstrap at each node
    active,             \* nodes whose miner has been started
    stuck,              \* nodes where a handler holds the mutex for good
    due,                \* history: <<n, x>>, x was sent out and a path of peers leads to n
    harmed,             \* history: a call failed, a block was refused, or a node died
    owed                \* history: the blocks the last Bootstrap had to get at least

txVars == <<SeenTransactions, witnessed, forwardTxs, handler>>
blockVars == <<SeenBlocks, Length, forwardBlocks>>
minerVars == <<active, stuck>>
vars == <<peeringVars, txVars, blockVars, boot, minerVars, due, harmed, owed>>

Free == [tx |-> "none", from |-> "none"]
Idle == [pc |-> "idle"]
Mined == "mined"    \* what due says for block 1

\* The nodes that hear what n sends, when every call succeeds.
Reachable(n) ==
    LET within[k \in 0..Cardinality(Nodes)] ==
            IF k = 0 THEN {n} ELSE within[k - 1] \cup UNION {PeerDb[p] : p \in within[k - 1]}
    IN within[Cardinality(Nodes)]

\* A panic: the process is gone for good.
Dies(n) ==
    /\ paused' = paused \cup {n}
    /\ todo' = {c \in todo : c.at # n}
    /\ handler' = [handler EXCEPT ![n] = Free]
    /\ boot' = [boot EXCEPT ![n] = Idle]
    /\ harmed' = TRUE

-----------------------------------------------------------------------------
Init ==
    \E s \in Scenarios :
        /\ PeeringInit(s.calls, s.peers)
        /\ SeenTransactions = [n \in Nodes |-> {}]
        /\ witnessed = [n \in Nodes |-> {}]
        /\ SeenBlocks = [n \in Nodes |-> [h \in 0..MaxLength |-> 0]]
        /\ Length = s.Length
        /\ forwardTxs = {}
        /\ forwardBlocks = {}
        /\ handler = [n \in Nodes |-> Free]
        /\ boot = [n \in Nodes |-> Idle]
        /\ active = {}
        /\ stuck = {}
        /\ due = {}
        /\ harmed = FALSE
        /\ owed = [n \in Nodes |-> 0]

\* A step of module Peering, seen from here.
Peers(step) ==
    /\ step
    /\ harmed' = (harmed \/ paused' # {})
    /\ UNCHANGED <<txVars, blockVars, boot, minerVars, due, owed>>

-----------------------------------------------------------------------------
(* Transactions                                                            *)

ToPeers(n, t) == [from : {n}, to : PeerDb[n], tx : {t}]

\* The wallet's transaction is sent without its witnesses.
BroadcastTransaction(n, t) ==
    /\ Does(Call("pay", n, t))
    /\ SeenTransactions' = With(SeenTransactions, n, {t})
    /\ witnessed' = With(witnessed, n, {t})
    /\ forwardTxs' = forwardTxs \cup ToPeers(n, t)
    /\ due' = due \cup {<<m, t>> : m \in Reachable(n)}
    /\ UNCHANGED <<dbVars, callVars, paused, handler, blockVars, boot, minerVars, harmed, owed>>

StartMiner(n) ==
    /\ Does(Call("start", n, n))
    /\ active' = active \cup {n}
    /\ UNCHANGED <<dbVars, callVars, paused, txVars, blockVars, boot, stuck, due, harmed, owed>>

\* A ForwardTransaction call msg gets the mutex of node n.
CanLock(n) == n \notin paused \cup stuck /\ handler[n] = Free
Locks(n, msg) == msg \in forwardTxs /\ msg.to = n /\ CanLock(n)

\* The transaction, valid, is told to the miner and then to the peers.  The
\* send to the PoolUpdated of an active miner never returns.
PassOn(n, t, calls) ==
    /\ forwardTxs' = calls \cup Only(n \notin active, ToPeers(n, t))
    /\ stuck' = stuck \cup ({n} \cap active)
    /\ harmed' = (harmed \/ n \in active)
    /\ UNCHANGED active

HasWitnessesAlways(n, t) == TRUE                \* mutant: the witnesses are not asked for
HasWitnesses(n, t) == t \in SeenTransactions[n] \/ t \notin Segwit

\* Every valid transaction is passed on, also when it was seen before.
ForwardTransaction(n, msg) ==
    /\ Locks(n, msg)
    /\ HasWitnesses(n, msg.tx)
    /\ SeenTransactions' = With(SeenTransactions, n, {msg.tx})
    /\ PassOn(n, msg.tx, forwardTxs \ {msg})
    /\ UNCHANGED <<peeringVars, witnessed, handler, blockVars, boot, due, owed>>

\* The sender is asked for the witnesses of an unknown transaction.
AskWitnesses(n, msg) ==
    /\ Locks(n, msg)
    /\ ~HasWitnesses(n, msg.tx) /\ msg.from \in AddressDB[n]
    /\ forwardTxs' = forwardTxs \ {msg}
    /\ handler' = [handler EXCEPT ![n] = [tx |-> msg.tx, from |-> msg.from]]
    /\ UNCHANGED <<peeringVars, SeenTransactions, witnessed, blockVars, boot, minerVars, due, harmed, owed>>

\* AddressDB.Get returns nil for a sender that has not answered a Version yet.
AskUnknown(n, msg) ==
    /\ Locks(n, msg)
    /\ ~HasWitnesses(n, msg.tx) /\ msg.from \notin AddressDB[n]
    /\ forwardTxs' = forwardTxs \ {msg}
    /\ Dies(n)
    /\ UNCHANGED <<dbVars, callVars, SeenTransactions, witnessed, blockVars, minerVars, due, owed>>

\* GetWitnesses does not take the mutex of the node that serves it.
Refuses(m, t) == m \in paused \/ t \notin SeenTransactions[m]
ServesLocked(m, t) == ~Refuses(m, t) /\ handler[m] = Free    \* mutant: it takes the mutex
Serves(m, t) == ~Refuses(m, t)

GetWitnesses(n) ==
    LET t == handler[n].tx
        m == handler[n].from
    IN /\ handler[n] # Free
       /\ Serves(m, t)
       /\ SeenTransactions' = With(SeenTransactions, n, {t})
       /\ witnessed' = With(witnessed, n, witnessed[m] \cap {t})
       /\ handler' = [handler EXCEPT ![n] = Free]
       /\ PassOn(n, t, forwardTxs)
       /\ UNCHANGED <<peeringVars, blockVars, boot, due, owed>>

\* The call misses its deadline, which may be at any time, or fails: the
\* transaction is dropped.
WitnessesLate(n) ==
    /\ handler[n] # Free
    /\ handler' = [handler EXCEPT ![n] = Free]
    /\ harmed' = TRUE
    /\ UNCHANGED <<peeringVars, SeenTransactions, witnessed, forwardTxs, blockVars, boot, minerVars, due,
                   owed>>

WitnessesMissing(n) ==
    /\ handler[n] # Free
    /\ Refuses(handler[n].from, handler[n].tx)
    /\ WitnessesLate(n)

\* Nobody serves the call; the sender only logs it.
ForwardTransactionFails(msg) ==
    /\ msg \in forwardTxs /\ msg.to \in paused \cup stuck
    /\ forwardTxs' = forwardTxs \ {msg}
    /\ harmed' = TRUE
    /\ UNCHANGED <<peeringVars, SeenTransactions, witnessed, handler, blockVars, boot, minerVars, due, owed>>

-----------------------------------------------------------------------------
(* Blocks                                                                  *)

\* The copy a node sends is numbered by what SeenBlocks says then.
BlockToPeers(n, h, copy) == [from : {n}, to : PeerDb[n], block : {h}, copy : {copy}]

Extends(n, h) == h = Length[n] + 1
HandleBlock(n, h) == IF Extends(n, h) THEN [Length EXCEPT ![n] = h] ELSE Length

HandleMinerBlock(n) ==
    /\ Does(Call("mine", n, n))
    /\ SeenBlocks' = [SeenBlocks EXCEPT ![n][1] = 1]
    /\ Length' = HandleBlock(n, 1)
    /\ forwardBlocks' = forwardBlocks \cup BlockToPeers(n, 1, 1)
    /\ due' = due \cup {<<m, Mined>> : m \in Reachable(n)}
    /\ UNCHANGED <<dbVars, callVars, paused, txVars, boot, minerVars, harmed, owed>>

\* The coins a block spends are there only when it comes on top.
CheckBlock(n, h) == h \in CoinbaseOnly \/ Extends(n, h)
SeenEnoughNever(n, h) == FALSE                  \* mutant: without the early return
SeenEnough(n, h) == SeenBlocks[n][h] > 1

\* A block is handled and passed on at its first and at its second arrival.
ForwardBlock(n, msg) ==
    LET h == msg.block
        seen == IF SeenBlocks[n][h] = 2 THEN 2 ELSE SeenBlocks[n][h] + 1
        good == ~SeenEnough(n, h) /\ CheckBlock(n, h)
    IN /\ msg \in forwardBlocks /\ msg.to = n
       /\ CanLock(n)
       /\ SeenBlocks' = [SeenBlocks EXCEPT ![n][h] = seen]
       /\ Length' = IF good THEN HandleBlock(n, h) ELSE Length
       /\ forwardBlocks' = (forwardBlocks \ {msg}) \cup Only(good, BlockToPeers(n, h, seen))
       /\ harmed' = (harmed \/ (~CheckBlock(n, h) /\ SeenBlocks[n][h] = 0))
       /\ UNCHANGED <<peeringVars, txVars, boot, minerVars, due, owed>>

ForwardBlockFails(msg) ==
    /\ msg \in forwardBlocks /\ msg.to \in paused \cup stuck
    /\ forwardBlocks' = forwardBlocks \ {msg}
    /\ harmed' = TRUE
    /\ UNCHANGED <<peeringVars, txVars, SeenBlocks, Length, boot, minerVars, due, owed>>

-----------------------------------------------------------------------------
(* Bootstrap: a goroutine per peer asks for the blocks above top and keeps *)
(* the answer with most blocks.  The goroutines do not lock: one compares  *)
(* (322), writes longestRes (323) and writes addr (324) in three steps.    *)

None == "none"      \* nil

Bootstrap(n) ==
    /\ Does(Call("bootstrap", n, n)) /\ boot[n] = Idle
    /\ boot' = [boot EXCEPT ![n] =
         IF PeerDb[n] = {} THEN Idle
         ELSE [pc |-> "ask", top |-> Length[n], asks |-> PeerDb[n],
               compares |-> {}, writes |-> {}, sets |-> {},     \* goroutines before 322, 323 and 324
               res |-> [p \in PeerDb[n] |-> [ind |-> -1, upper |-> 0]],     \* the answers
               longestRes |-> None, addr |-> None, least |-> MaxLength]]
    /\ UNCHANGED <<dbVars, callVars, paused, txVars, blockVars, minerVars, due, harmed, owed>>

\* GetBlocks at p answers with the blocks above ind, up to upper.  The record
\* of a block that p does not have is empty, with the height below genesis.
HasBlock(p, h) == h <= Length[p]
RecordHeight(p, top) == IF HasBlock(p, top) THEN top ELSE -1
UpperIndex(ind, p) == IF ind + BatchLimit < Length[p] THEN ind + BatchLimit ELSE Length[p]
FirstIndexLate(ind) == ind + 2                  \* mutant: off by one
FirstIndex(ind) == ind + 1

BlockCount(answer) == answer.upper - answer.ind
Longer(b, answer) == b.longestRes = None \/ BlockCount(answer) > BlockCount(b.res[b.longestRes])

GetBlocks(n, p) ==
    LET ind == RecordHeight(p, boot[n].top)
        upper == UpperIndex(ind, p)
    IN /\ boot[n].pc = "ask" /\ p \in boot[n].asks
       /\ p \notin paused
       /\ boot' = [boot EXCEPT ![n].asks = @ \ {p}, ![n].res[p] = [ind |-> ind, upper |-> upper],
                               ![n].compares = @ \cup {p},
                               ![n].least = IF upper < @ THEN upper ELSE @]
       /\ UNCHANGED <<peeringVars, txVars, blockVars, minerVars, due, harmed, owed>>

\* An error, or a passed deadline, ends the goroutine.
GetBlocksFails(n, p) ==
    /\ boot[n].pc = "ask" /\ p \in boot[n].asks
    /\ boot' = [boot EXCEPT ![n].asks = @ \ {p}]
    /\ UNCHANGED <<peeringVars, txVars, blockVars, minerVars, due, harmed, owed>>

\* The answer is held against longestRes as that is by now.
CompareRes(n, p) ==
    /\ boot[n].pc = "ask" /\ p \in boot[n].compares
    /\ boot' = [boot EXCEPT ![n].compares = @ \ {p},
                            ![n].writes = @ \cup Only(Longer(boot[n], boot[n].res[p]), {p})]
    /\ UNCHANGED <<peeringVars, txVars, blockVars, minerVars, due, harmed, owed>>

SetLongestRes(n, p) ==
    /\ boot[n].pc = "ask" /\ p \in boot[n].writes
    /\ boot' = [boot EXCEPT ![n].writes = @ \ {p}, ![n].sets = @ \cup {p}, ![n].longestRes = p]
    /\ UNCHANGED <<peeringVars, txVars, blockVars, minerVars, due, harmed, owed>>

SetAddr(n, p) ==
    /\ boot[n].pc = "ask" /\ p \in boot[n].sets
    /\ boot' = [boot EXCEPT ![n].sets = @ \ {p}, ![n].addr = p]
    /\ UNCHANGED <<peeringVars, txVars, blockVars, minerVars, due, harmed, owed>>

AllDone(b) == b.asks \cup b.compares \cup b.writes \cup b.sets = {}

\* wg.Wait returns.
Collected(n) ==
    /\ boot[n].pc = "ask" /\ AllDone(boot[n])
    /\ boot' = [boot EXCEPT ![n] =
         IF @.longestRes = None THEN Idle
         ELSE [pc |-> "fetch", next |-> FirstIndex(@.res[@.longestRes].ind), upto |-> @.res[@.longestRes].upper,
               addr |-> @.addr, least |-> @.least]]
    /\ UNCHANGED <<peeringVars, txVars, blockVars, minerVars, due, harmed, owed>>

GetData(n) ==
    LET b == boot[n]
    IN /\ b.pc = "fetch" /\ b.next <= b.upto
       /\ b.addr \notin paused /\ HasBlock(b.addr, b.next)
       /\ SeenBlocks' = [SeenBlocks EXCEPT ![n][b.next] = 1]
       /\ Length' = HandleBlock(n, b.next)
       /\ boot' = [boot EXCEPT ![n].next = @ + 1]
       /\ UNCHANGED <<peeringVars, txVars, forwardBlocks, minerVars, due, harmed, owed>>

\* A block that addr does not have is read from a file without a name.
GetDataMissing(n) ==
    LET b == boot[n]
    IN /\ b.pc = "fetch" /\ b.next <= b.upto
       /\ b.addr \notin paused /\ ~HasBlock(b.addr, b.next)
       /\ Dies(b.addr)
       /\ UNCHANGED <<dbVars, callVars, SeenTransactions, witnessed, forwardTxs, blockVars, minerVars, due, owed>>

\* The error of GetDataRPC, or its deadline, is ignored and its nil answer
\* dereferenced.
GetDataFails(n) ==
    /\ boot[n].pc = "fetch" /\ boot[n].next <= boot[n].upto
    /\ Dies(n)
    /\ UNCHANGED <<dbVars, callVars, SeenTransactions, witnessed, forwardTxs, blockVars, minerVars, due, owed>>

Bootstrapped(n) ==
    /\ boot[n].pc = "fetch" /\ boot[n].next > boot[n].upto
    /\ owed' = [owed EXCEPT ![n] = boot[n].least]
    /\ boot' = [boot EXCEPT ![n] = Idle]
    /\ UNCHANGED <<peeringVars, txVars, blockVars, minerVars, due, harmed>>

-----------------------------------------------------------------------------
TransactionStep(n, t) ==
    \E msg \in {m \in forwardTxs : m.to = n /\ m.tx = t} :
        ForwardTransaction(n, msg) \/ AskWitnesses(n, msg) \/ AskUnknown(n, msg) \/ ForwardTransactionFails(msg)
WitnessStep(n) == GetWitnesses(n) \/ WitnessesMissing(n)
BlockStep(n) ==
    \E msg \in {m \in forwardBlocks : m.to = n} : ForwardBlock(n, msg) \/ ForwardBlockFails(msg)
BootStep(n) ==
    \/ Collected(n) \/ GetData(n) \/ GetDataMissing(n) \/ GetDataFails(n) \/ Bootstrapped(n)
    \/ \E p \in Nodes : \/ GetBlocks(n, p) \/ GetBlocksFails(n, p)
                       \/ CompareRes(n, p) \/ SetLongestRes(n, p) \/ SetAddr(n, p)

NodeStep(n) ==
    \/ \E t \in Transactions : BroadcastTransaction(n, t) \/ TransactionStep(n, t)
    \/ StartMiner(n) \/ HandleMinerBlock(n) \/ Bootstrap(n) \/ WitnessesLate(n)
    \/ WitnessStep(n) \/ BlockStep(n) \/ BootStep(n)

Next == Peers(PeeringNext) \/ \E n \in Nodes : NodeStep(n)

\* Calls in flight are served or fail, handlers and goroutines go on; what
\* users do, time-outs of a Version and late witnesses need not happen.  A
\* mutex that is taken again and again still comes to whoever waits longest.
Fairness ==
    /\ WF_vars(Peers(\E n, m \in Nodes : AnswerVersion(n, m) \/ VersionReturns(n, m)))
    /\ WF_vars(Peers(\E n \in Nodes : \E msg \in addrs : AnswerAddresses(n, msg)))
    /\ \A n \in Nodes : WF_vars(WitnessStep(n)) /\ \A t \in Transactions : WF_vars(TransactionStep(n, t))
    /\ SF_vars(\E n \in Nodes : BlockStep(n))
    /\ WF_vars(\E n \in Nodes : BootStep(n))

Spec == Init /\ [][Next]_vars /\ Fairness

-----------------------------------------------------------------------------
(* Properties                                                              *)

\* Whoever is asked for witnesses has them: each Segwit transaction that a
\* node knows, or sends to a peer, is kept there with its witnesses.
WitnessesComplete ==
    /\ \A n \in Nodes : SeenTransactions[n] \cap Segwit \subseteq witnessed[n]
    /\ \A msg \in forwardTxs : msg.tx \in SeenTransactions[msg.from]

\* When Bootstrap returns, the node has at least the blocks that every peer
\* offered that answered, whatever the race at node.go:322 chose.
BootstrapGains == \A n \in Nodes : Length[n] >= owed[n]

\* A transaction or block that is sent out gets to every node to which a path
\* of peers leads, unless a call fails or is late, a block is refused, a node
\* dies or a miner that was started holds up its node (miner.go:133).  due only
\* grows and nothing that was seen is forgotten, so this says that each of them
\* gets there.
Arrived(n, x) == IF x = Mined THEN SeenBlocks[n][1] > 0 ELSE x \in SeenTransactions[n]
Spreads == []<>(harmed \/ \A d \in due : Arrived(d[1], d[2]))

\* Handshakes, announcements, the spreading of a block and Bootstrap come to
\* an end (the early return at server.go:229, and server.go:106), and a handler
\* that waits for witnesses under the mutex lets go of it.
Quiet ==
    /\ versions = {} /\ addrs = {} /\ forwardBlocks = {}
    /\ \A n \in Nodes : waits[n] = {} /\ boot[n] = Idle
Settles == []<>Quiet /\ \A n \in Nodes : []<>(handler[n] = Free)
=============================================================================
