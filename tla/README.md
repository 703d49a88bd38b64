# Verification of the lightning block chain node

TLA+ models of the Go program under `src/`: a node of a small proof-of-work
block chain with a wallet, a miner and payment channels. TLC model-checks the
models on small instances, TLAPS proves what matters most for every value of
their constants. `PROJECT.json` lists components, runs, mutants, the map from
definitions to source lines, findings, hazards and theorems.

## 1. Inventory

Each row: the state a part keeps, what changes it, who it talks to.

| Part (`src/pkg/...`) | State | Operations | Talks to |
|---|---|---|---|
| Lightning node (`lightning/`) | peers, one `Channel` per peer: `Funder`, `State`, `MyTransactions`, `TheirTransactions`, two maps of revocation keys | client: `ConnectToPeer`, `CreateChannel`, `UpdateState`; handlers: `Version`, `OpenChannel`, `GetUpdatedTransactions`, `GetRevocationKey` | the peer by gRPC; the wallet by two Go channels (funding transaction); the node (broadcast) |
| Watchtower (`lightning/watchtower.go`) | revocation information by transaction, a Go channel | `HandleBlock`, additions | lightning node, wallet |
| Block chain (`blockchain/blockchain.go`) | `Length`, `LastBlock`, `LastHash`, `UnsafeHashes` | `HandleBlock` (append, keep, fork), `GetBlocks`, `GetHashes`, `GetBalance` | the three stores below |
| Coin database (`blockchain/coindatabase/`) | `mainCache`, `mainCacheSize`, a LevelDB of coin records | `ValidateBlock`, `StoreBlock`, `UndoCoins`, `FlushMainCache`, `GetCoin`, `GetBalance` | block chain |
| Block info database | LevelDB: hash to `BlockRecord` | `StoreBlockRecord`, `GetBlockRecord` | block chain |
| Chain writer (`blockchain/chainwriter/`) | file numbers and offsets, the files | `StoreBlock`, `WriteBlock`, `WriteUndoBlock`, `Read...` | block chain, disk |
| Wallet (`wallet/`) | `Balance`, `CoinCollection`, `UnseenSpentCoins`, `UnconfirmedSpentCoins`, `UnconfirmedReceivedCoins` | `RequestTransaction`, `GenerateFundingTransaction`, `HandleBlock`, `HandleFork`, `HandleRevokedOutput` | node (sends transactions), lightning node, block chain |
| Miner and pool (`miner/`, `block/transactionheap.go`) | pool with counters and a priority heap, mining pool, `PreviousHash`, flags | `HandleTransaction`, `HandleBlock`, `Mine`, `getInputSums` | node by Go channels |
| Node (`node.go`, `server.go`) | `SeenTransactions`, `SeenBlocks`, witness tables, peers, addresses, a mutex | event loop of `Start`; `Bootstrap`, `BroadcastTransaction`, `ConnectToPeer`; handlers `Version`, `GetBlocks`, `GetData`, `SendAddresses`, `ForwardTransaction`, `ForwardBlock`, `GetWitnesses` | everything above, other nodes |
| Peers and addresses (`peer/`, `address/`) | two maps with limits | `Add`, `Get`, `List`, `UpdateLastSeen` | node |
| Scripts, ids, utilities, protocol buffers | none | encoding, signing, hashing | all |

What makes the system hard:

* **Concurrency.** gRPC handlers run concurrently with the node's event loop,
  with the client code of the lightning node and with one goroutine per block
  for the wallet. One mutex covers two handlers of the node only.
* **Two-party updates over a lossy network.** An update of a channel takes two
  RPCs, each with a 2 s deadline; both ends write at several points and take
  nothing back on an error.
* **Order and repetition of blocks.** Blocks come from peers (checked), from
  `Bootstrap` and from the own miner (unchecked), out of order, repeatedly.
* **Forks**, with undo blocks read back from disk.
* **Limits.** A cache that is flushed while a block is being stored, files that
  roll over, six unsafe hashes, unsigned 32-bit amounts.
* **Blocking Go channels** with time-outs on one side only.
* Nothing survives a restart: with its data directory in place the chain writer
  stops the process (`chainwriter.go`, `New`), so there is no recovery to model.

What makes each part correct:

* Lightning: what a node keeps is signed by the other side and redeemable, the
  two ends agree, the funder can get its money back, a cheater can be punished,
  calls end.
* Block chain and coin database: together they are a ledger. Validation accepts
  exactly the unspent outputs of the active chain; balances, heights and undo
  information agree with it; a shorter chain never wins.
* Chain writer: what was stored reads back.
* Wallet: it holds its coins, each of them in one place, spends none twice and
  counts only confirmed ones.
* Miner and pool: counters agree with the heap, no transaction is lost, a block
  takes no more than its fees and the subsidy.
* Node: the loop never blocks for good, every call returns.
* Network: peerings are mutual, whoever is asked for witnesses has them, what is
  sent out reaches everybody, a node that bootstraps catches up, and handshakes,
  announcements and blocks come to rest.

## 2. Modules

| Module | What it is |
|---|---|
| `Lightning` | two lightning nodes, their client calls and handlers, the network |
| `LightningProofs` | inductive invariants and theorems about `Lightning`: one node; what the two ends agree on when one side opens the channel; that they keep in step when one side updates and nothing is lost |
| `Blocks` | constant data of a tree of blocks and the reference meaning of "unspent on this chain" |
| `Ledger` | the abstract specification: a list of blocks and its unspent outputs |
| `CoinDatabase` | the coin database as operators on a record of cache, counter and db |
| `BlockChain` | the chain with coin and block info database, the block intake of the node, queries; refines `Ledger` |
| `BlockIntake`, `MCBlockIntake` | the same chain with three callers inside `HandleBlock` at once |
| `MCBlockChain` | a line, a tree of three branches, a long line with a fork, and a double spend |
| `BlockChainProofs` | what the coin database's operators compute; inductive invariants and theorems about `BlockChain`; the step simulation of `Ledger` |
| `ChainWriter`, `ChainWriterProofs`, `MCChainWriter` | files, offsets, records; theorems; payloads for TLC |
| `Wallet`, `MCWallet` | the wallet, the chain it watches, users and forks; requests for TLC |
| `WalletProofs` | inductive invariant and theorems about `Wallet` while it sees one chain |
| `TransactionHeap` | the priority queue of transactions, and Go's `container/heap` as it uses it |
| `Miner`, `MCMiner` | miner, pool, event loop, Go channels and the node's mutex; six calls for TLC |
| `MinerProofs` | what the heap's operators keep; inductive invariants and theorems about `Miner` |
| `Peering` | the `Version` handshake, announcements of addresses, both databases, among any nodes |
| `Network`, `MCNetwork` | gossip of transactions and blocks and `Bootstrap`, composed with `Peering`; eleven scenarios for TLC |
| `NetworkProofs` | inductive invariants and theorems about `Network` and `Peering` |
| `SetSums` | lemmas: induction on finite sets, sums over them, and numbers that wrap; used by `WalletProofs`, `MinerProofs` and `BlockChainProofs` |
| `FoldRules` | rules for the folds of the community modules over sequences, sets and functions, with the operator as a constant; used by `MinerProofs` and `BlockChainProofs` |

### Lightning

A client call is cut at every RPC: `CreateChannel` up to `OpenChannel` is the
action `CreateChannel`, the code after the answer `ChannelCreated`, the error
return `CreateChannelFails`; `UpdateState` becomes `UpdateState`,
`SendRevocationKey`, `StateUpdated` and the two failures `UpdateStateFails`
(its first error is not checked and the nil answer is dereferenced: the process
dies) and `RevocationFails`. Every handler is one action, with
`GetUpdatedTransactionsPanics` for the nil channel. `FundingTimesOut` is the
wallet answering too late. Messages are a set; with `Lossy` a call may fail at
any time while its request is still served later, which covers lost requests,
lost replies and passed deadlines. A key is `[owner, num]` and stands for the
hash of the transaction built around it. Amounts are kept, inputs and lock times
are not. The user's transaction in `UpdateState` is built the way the tests of
the repository build it (`MakeUpdatedTransaction`), and a user does not pay more
than he has. One client call per node is under way at a time; both nodes'
calls and all handlers interleave.

The nil replies of `GetUpdatedTransactions` and `GetRevocationKey` to a stranger
are not actions: `PeersFound` shows, and a theorem proves, that no such request
is ever in flight.

### BlockChain, CoinDatabase, Blocks, Ledger

A block is its hash with constant parent and transactions; a transaction has
inputs and a number of outputs. Amounts are left out here: a coin is its
locator, and `CountedCoins` says which coins, with whose record, `GetBalance`
adds up. `HandleBlock` is one step with six outcomes (refused, appended, kept,
a fork without a known ancestor, a fork, a fork that panics on a missing undo
file). `ForwardBlock` comes with the counter of seen blocks and the node's
`CheckBlock`; `Bootstrap` hands over blocks unchecked, as `HandleMinerBlock` does.
Two history variables say what the properties distinguish: `early`, the blocks
that were first stored before their parents, and `loose`, those that were last
handed over unchecked when their coins were not unspent.
The coin database keeps the order of the code inside a block: spend the inputs,
then create the outputs one by one, with a flush in the middle when the counter
reaches the capacity. Records in db are sequences with the quirks of the code
(the record found by output index, a spent coin removed by position).

`Ledger` says what one expects while no fork is adopted: blocks are appended,
each spends unspent outputs, once. `ImplementsLedger` maps `chain` to the path
from the genesis block to `LastHash` and `utxo` to the coins that `GetCoin`
would let pass, wherever they are stored.

### BlockIntake

`ForwardBlock` holds the node's mutex when it calls `HandleBlock`, `Bootstrap` and
`HandleMinerBlock` do not, so up to three calls are under way. `BlockIntake`
extends `BlockChain` and cuts each call in three: `Begin` reads `LastHash` and
validates, `StoreBlockRecord` makes the undo block and the height from what there
is now and writes the record, and `AppendStored`, `LeaveChain` or `ForkStored`
acts on what was read at first. The updates inside such a step are atomic here;
overlapping writes to the files are in `ChainWriter`.

### ChainWriter

`WriteBlock` and `WriteUndoBlock` are the same code on different fields, so one
set of actions is indexed by the kind. They are cut where shared fields or the
file are touched: roll over, write, take the offsets. A writer stands for one of
the three callers of `StoreBlock`, two of which do not hold the node's mutex;
nothing keeps their steps apart. `overlapped` and `alone` are history variables:
whether two calls ever overlapped, and the records of calls before that.

### Wallet

`HandleBlock`, `HandleFork`, `RequestTransaction` and
`GenerateFundingTransaction` are one step each. `ForwardBlock` starts a
goroutine per block, so blocks wait in `pending` and are handled in any order;
`overtook` notes how many lower blocks one overtook, for the properties. Go's map order is the choice among `InputChoices`: every set of
coins that some order of the map collects. A `CoinInfo` refers to its output by
pointer, so the model keeps the block it was decoded from (`ptr`); `HandleFork` may
be given the same blocks or copies read from disk (`same`). A request without a
receiver gets no outputs, and its coins are set aside all the same.
`MinerBlockRefused` is `HandleMinerBlock` for a block that the chain did not take:
it lies on the genesis block, or is not valid, and the wallet is told of it
(`strays`). Two facts of the code show up as data: the locking scripts of a
funding transaction's outputs decode to our own public key, because the
messages `MultiParty` and `PayToPublicKey` share field numbers, so the wallet
takes them for its own; and a coinbase output, whose script is a bare key, does
not decode and is never credited, so payments come from others. In the present
program no code calls `HandleFork`; its run says what it does when it is called.

### Miner, TransactionHeap

Who calls the miner runs in a goroutine: a transaction the loop took from the
wallet, a transaction or a block of a peer, `Mine`, and, because it shares the
loop, the lightning node's request for a funding transaction. A call is cut at
each channel operation, lock and atomic counter; its position is `pc`. Channels
are unbuffered, so a send is one step with its receive, and `loop` is either in
its `select` or holds the answer it is trying to hand over. `Ask` is the send of
a request, which has no time-out; `Receive` and `TimeOut` are the two cases of
the `select` after it. `Add` is four steps (check, priority, heap, count),
`CheckTransactions` three, since the pool's lock covers the heap only. `Notify`
is the send on `PoolUpdated`, which has no receiver: with an active miner the
call never gets further. A handler holds the mutex until it returns.

A transaction is its hash with constant sums and size; of the chain only the
input sums count, and for a transaction already on it they may be missing.
`HandleMinerBlock` may be refused by the chain; the pool forgets its
transactions all the same. A nonce is found or not. `Mine` reads the heap
without its lock; the model takes that read as one step. `Mine` has no caller in
the program but is exported, and one call of it is under way at a time.

`container/heap` is marked external: `up` and `down` are folds of their rounds,
each of which swaps two nodes or, once the loop has ended, changes nothing. In
the same way `NewMiningPool` is a fold of `PickRound`, with the size of the block
as a word of 32 bits that may wrap.

### Peering

A handler is one step up to the RPCs it makes, and these are calls in flight
(`versions`, `addrs`), served or failed at any later time. `Version` becomes
`VersionRejected` (another version, or no room for the address),
`VersionHandler` and `VersionFails`. Both databases hold pointers to the same
`Address` object, so there is one `LastSeen` and one `SentVer` per address;
`sentVer` says which are younger than the time-out, and `waits` which stored
addresses have a `VersionRPC` that will set it on return. An answer that goes
through a fresh object leaves the stored `SentVer` alone; the model
distinguishes the two. `LastSeen` is 32 bits of a nanosecond clock and wraps
every four seconds, so "now" is any stamp. `PauseNetwork` and `ResumeNetwork`
stop the server of a node while its own calls go on.

### Network

`Network` extends `Peering`; every step of one leaves the other's variables
alone, but `PeerDb`, `AddressDB` and `paused` are read by both, so peerings
change while gossip is under way.

* Transactions: `ForwardTransaction` locks the node, and when the transaction is
  new with witnesses it asks the sender while it holds the lock: `AskWitnesses`,
  then `GetWitnesses`, `WitnessesMissing` (an error) or `WitnessesLate` (the
  deadline, which may pass at any time). `handler` is that lock. `AskUnknown` is
  the nil address of a sender that is not in `AddressDB`. `PassOn` is the rest of
  the handler: the miner is told, then the peers. At a node whose miner was
  started (`StartMiner`) the handler stops there for good and keeps the mutex
  (`stuck`), so that this node serves neither transactions nor blocks any more.
* Blocks: `HandleMinerBlock` and `ForwardBlock` with `SeenBlocks`; a block is
  passed on at its first and at its second arrival. There is one chain; the
  miner never updates `PreviousHash`, so what it hands over is always block 1.
  Forks, and blocks without a parent, are in `BlockChain`.
* `Bootstrap`: one goroutine per peer asks, then compares, writes `longestRes`
  and writes `addr` without a lock: four steps (`GetBlocks`, `CompareRes`,
  `SetLongestRes`, `SetAddr`), so an early answer may be compared late. A call may
  fail at any time (`GetBlocksFails`, `GetDataFails`). `Collected` is the return of `wg.Wait`, then one `GetData` per
  block. A peer that does not have our top block answers from its genesis block
  on, because `GetBlockRecord` returns an empty record and never nil. A peer
  that is asked for a block it does not have panics (`GetDataMissing`), and its
  caller dereferences a nil answer.
* A panic ends the process (`Dies`).
* `due`, `harmed`, `owed` and `failed` are history variables: they say what is
  promised and which failures excuse it, and no guard reads them.

A scenario gives the peerings and chain lengths at the start and the calls that
users and the environment make, in any order and at any time.

## 3. Runs

Ten runs must pass and two report a violation; each asks one question.
Every property of a passing run has a mutant: a definition changed the way a plausible bug would, under which the same
run reports a violation.

| Run | Question | Size |
|---|---|---|
| `lightning` | With losses, time-outs, panics and both sides updating: are kept transactions signed (`SignedByPeer`), indices valid (`StateInRange`), refunds in hand (`RefundBeforeFunding`), callers known (`PeersFound`), versions consistent (`VersionsAgree`), the initiator able to punish (`InitiatorCanPunish`), channels never replaced (`ChannelKept`)? Also `TypeOK`. | 474 110 states |
| `lightning_lossless` | Without losses and with one side updating: does every call return (`CallsReturn`), do the ends converge (`StatesConverge`), and is the slice indexed by state (`IndexedByState`)? Under fairness. | 132 states |
| `blockchain` | One line of blocks, repeated, out of order, checked and unchecked, with flushes: does the chain implement the ledger (`ImplementsLedger`), is the balance exact (`BalanceExact`), do undo blocks hold the coins spent (`UndoExact`)? | 101 880 states |
| `blockchain_fork` | Seven blocks in a row and a fork, checked and unchecked, repeated, most of which may come before their parents: does every block on the active chain keep a record with the coins it spent (`UndoKept`); and, as long as no block of the active chain came early, does only a longer chain win (`OnlyForLonger`) and can peers catch up (`PeersCatchUp`)? Also `TypeOK`. | 730 636 states |
| `block_intake` | Three callers inside `HandleBlock` at once, with forks: can the active chain be walked back at every moment (`AncestorsRecorded`)? | 597 452 states |
| `chainwriter` | Two callers, nothing between them: are all bytes whole (`DataKept`), does what was stored without an overlap read back (`ReadsBack`), do files stay within their limit until calls overlap (`FilesWithinLimit`)? Also `TypeOK`. | 451 172 states |
| `wallet` | Goroutines in any order, fundings, bootstrapped blocks, requests without a receiver: are the coins exactly ours (`OwnedExactly`), none spent by two requests (`RequestsSpendOnce`), nothing paid that we do not have (`PaysWhatItHas`), coins confirmed early only by overtaken blocks (`ConfirmedIsDeep`)? | 590 863 states |
| `wallet_fork` | Two forks, shallower and deeper than the confirmations, with the same blocks or copies, and blocks of the own miner that are not on the chain: do balance and coins agree (`BalanceIsCoins`), is each coin in one place (`CoinInOnePlace`)? | 1 297 707 states |
| `miner` | Any three of six calls, with time-outs and a miner started at any time: do counters and heap agree (`CountersAgree`), is nothing lost (`NothingLost`), does an answer reach the call that asked although the channels are shared (`AnswersMatch`), is a block within its size and its coinbase within fees and subsidy also when sums are missing (`BlockIsModest`), and does every call return when no answer is late and the miner is not started (`HandlersReturn`, under fairness)? Also `TypeOK`. | 267 825 states |
| `network` | Four nodes that join, get full, announce, pay, mine, start a miner, stop and catch up, while deadlines pass: are peerings mutual (`NoOneSided`), are witnesses where they are asked for (`WitnessesComplete`), does `Bootstrap` bring at least what every answering peer has (`BootstrapGains`); and, under fairness, does what is sent reach everybody (`Spreads`) and does the rest come to an end (`Settles`)? | 55 167 states |
| `blockchain_fork_coins`, `miner_timeout` | Places where the code does not do what its documentation says; see section 6. | violation |

Bounds and why they are enough:

* `MaxHashes` 3 for 6 unsafe hashes, `MaxHeaders` 2 for 500 headers: the chains
  have up to seven blocks, so both limits are passed. With three unsafe hashes a
  fork of four blocks that came early can be adopted, which is what brings
  heights that are too low onto the active chain.
* `MainCacheCapacity` 4 for 30: the cache is flushed before, inside and after a
  block, and the counter goes through zero. `Word` 256 for 2^32: no sum of the
  instances except the counter's wrap below zero comes near it.
* `MaxDeliveries` 7 to 9: every block of the tree arrives, some twice. In
  `block_intake` it is 5, which is two more than the calls that can overlap.
* `MaxFileSize` 5 for 1024 bytes, payloads of none to six bytes: a write ends
  exactly at the limit, below it and, alone in its file, past it.
* `SafeBlockAmount` 1 or 2 for 5: one block short of, at and past the limit.
  `MaxBlocks` 4 lets a coin be received, confirmed and spent, and the block that
  spends it, or a confirmed coin, be hit by a fork; `MaxForkDepth` 3 is past the
  confirmations.
* `MaxCalls` 3: every choice of at most three of the six calls, so that two
  additions meet a removal, or two requests a time-out. `TransactionPoolCapacity`
  4 with three transactions before: the pool fills up. `BlockSize` 350 takes two
  of them. `Word` 65536: the fee wraps below zero after a time-out, the counter
  when a block is handled between the steps of `Add`. One transaction pays no
  fee, so that the least priority is met.
* `MaxOpens` 2, `MaxUpdates` 3, payments of 0 and 1 of a capacity of 2: a second
  attempt after a failed opening, and
  three updates, so that two are in flight and one more follows.
* `network`: three nodes of one version and a fourth of another. `AddressLimit` 3
  for 1000 and `PeerLimit` 2 for 200: both databases fill up. `Fanout` 1 for 2: an
  announcement passes some peers by. Two stamps: older and newer.
  `BatchLimit` 2 for 500 with chains of length 3: one answer is cut off. Two
  transactions cross on a line of three nodes, so that two handlers may wait for
  each other.

`CHECK_DEADLOCK FALSE` is set everywhere: users may stop asking, blocks may stop
arriving, a node may be dead, and the bounds end each run.

No run uses symmetry: Alice and Bob have different roles, hashes are strings.

Fairness is used in four runs. In `lightning_lossless`: weak fairness of each
node's client step and of its server step. In `miner` and `miner_timeout`: weak
fairness of the calls' steps; one condition for all of them is enough, because
every step moves a call forward and none can starve another for ever; starting
the miner is not fair. In `network`: weak fairness of serving calls, of handlers
that wait, and of the goroutines of `Bootstrap`; for transactions one condition
per node and transaction, since their gossip never ends and must not starve the
rest; for a block that waits for the mutex strong fairness, since transactions
may take the mutex again and again in between (each call has its own goroutine,
and Go's mutex hands over to a waiter after a millisecond). What users do,
pauses, deadlines and the time-out of a `Version` are not fair. The Go scheduler runs every ready goroutine
and gRPC serves every request that arrived; a user is not obliged to do
anything. Every call that waits is answered, by an error when the peer is dead.

## 4. Theorems

TLAPS proves, for every value of the constants that the named assumptions allow:

* `LightningProofs`, from `NodesAssumption`, `RolesAssumption`,
  `LossyAssumption`, `AmountsAssumption`, `BoundsAssumption`:
  `Invariance` (`IInv`), `TypeCorrect`, `OwnTransactionsSigned`
  (`SignedByPeer`), `StateIndexInRange`, `FundingIsRefundable`
  (`RefundBeforeFunding`), `CallersAreKnown` (`PeersFound`). With the hypothesis
  `OneOpener` (at most one of the two users calls `CreateChannel`; either may
  update): `ChannelInvariance` (`IInv /\ JInv`), `UpdatesAgree`
  (`VersionsAgree`), `InitiatorsCanPunish` (`InitiatorCanPunish`),
  `ChannelsAreKept` (`ChannelKept`, an action property). With `OneOpener`,
  `OneUpdater` (one of the users, the opener or the other one, calls
  `UpdateState`) and `Lossy = FALSE`: `SlicesAreIndexed` (`IndexedByState`).
* `BlockChainProofs`, from `BlocksAssumption`, `HashesAssumption`,
  `CapacityAssumption`, `ChainAssumption`, without further hypotheses:
  `TypeCorrect` (`TypeOK`), `UndoBlocksKept` (`UndoKept`), `PeersAreServed`
  (`PeersCatchUp`) and `LongerChainsOnly` (`OnlyForLonger`, an action property). As
  long as the active chain changes by appending only (`OnlyExtends`): `CoinsTrack`
  (`CoinsOfActiveChain`), `BalanceIsExact` (`BalanceExact`), `UndoBlocksExact`
  (`UndoExact`); with the further hypothesis that no block of the chain spends a
  coin twice (`NoDoubleSpend`), `LedgerImplemented` (`ImplementsLedger`).
  `SingleBranchExtends` gives a condition under which `OnlyExtends` holds: every
  block has at most one child and comes after its parent. All hold for any blocks
  and transactions, any order and repetition of deliveries, checked or not, any
  capacity of the cache and any number of unsafe hashes.
* `ChainWriterProofs`, from `PayloadsAssumption`, `SizesAssumption`:
  `TypeCorrect`, `StoredIsReadable` (`ReadsBack`), `BytesAreKept` (`DataKept`) and
  `FilesStayWithinLimit` (`FilesWithinLimit`), for any number of writers and any
  overlap of their calls.
* `NetworkProofs`, from `NodesAssumption`, `LimitsAssumption`,
  `StampsAssumption`, `GossipAssumption`, `ChainAssumption`,
  `ScenariosAssumption`: `NetworkInvariance` (`NetworkInv`),
  `PeeringTypeCorrect`, `PeeringsAreMutual` (`NoOneSided`),
  `WitnessesAreComplete`, `BootstrapIsSafe` (`BootstrapGains`). They hold for
  every number of nodes, every limit, every initial network of mutual peerings
  and every combination of calls.
* `WalletProofs`, from the assumptions of `Wallet`: `WalletInvariance` (`WInv`),
  `CoinsAreOwned` (`OwnedExactly`), `CoinsAreSpentOnce` (`RequestsSpendOnce`),
  `ConfirmedCoinsAreDeep` (`ConfirmedIsDeep`), and, while the wallet sees one chain
  (`OneChain`: no block left it, none was shown that is not on it),
  `CoinsAreInOnePlace` (`CoinInOnePlace`) and `BalanceIsExact` (`BalanceIsCoins`).
  They hold for all amounts, also those that wrap, any depth of confirmation, any
  order of the blocks and any number of blocks and requests. `PaymentsAreCovered`
  (`PaysWhatItHas`) assumes `SpendsFit`: no requested amount wraps together with
  its fee, without which it fails (section 6). Other sums may wrap.
* `MinerProofs`, from `CallsAssumption`, `TransactionsAssumption`,
  `ConfigAssumption`: `MinerInvariance` (`MInv`), `TypesAreKept` (`TypeOK`),
  `CountersAreRight` (`CountersAgree`), `NoTransactionIsLost` (`NothingLost`),
  `AnswersReachTheAsker` (`AnswersMatch`); and, when `SizesFit`, `NothingMinted`
  and `OutputsFit`, `BlocksAreModest` (`BlockIsModest`). They hold for any finite
  set of calls of the five kinds, any transactions and heaps of every size.

**Argument for the channel.** None of the properties is inductive, because a
client or handler acts on what another action put into a message or into its
own waiting call. `IInv` adds what messages promise (`RequestsInv`: the sender
of an opening signed the refund; a `GetRevocationKey` carries a transaction its
sender signed, has two outputs and goes to a node with a channel;
`RepliesInv`: replies are signed, and a reply to a live node answers the call it
waits in), what a waiting call relies on (`CallInv`: in the second RPC the new
transaction is already in the slice, so `State + 1` is in range even if a
handler moves `State` meanwhile and appends its own), and what a channel is
(`ChannelInv`: both ends know each other, the first transaction is the refund
signed by both). The proof has one lemma per action; lemmas on the operators
(`RefundFacts`, `VersionFacts`, `ProposalFacts`, `PutFacts`, ...) give the types.
`OwnTransactionsSigned` is the result that matters: whatever gets lost, dies or
overlaps, a node can take any transaction it kept to the chain.

**Argument for the files.** The invariant has two halves. At all times a file only
grows, so what was readable or whole stays so, and what a writer in the middle of
its job has written is whole in its file (`WrittenInv`): this gives `DataKept`.
Until two calls overlap (`QuietInv`) one writer has a job, the offset is the
length of the current file except between a write and the step that advances it
(`OffsetInv`, `JobInv`), and no file with a higher number exists (`NumberInv`):
this makes each new record readable. `Readable`, the same for all records, is not
true (section 6).

**Argument for the network.** `NetworkInv` has one part per protocol.
`PeersInv`: an answer is left out only when an own `Version` was sent recently,
so `SentReach` says that such a `Version` has arrived, is on the way, failed, or
found no room, and `PeersAlike` that it is not rejected for its version. All of
this is stable because nobody is ever taken out of a database, so one that is
full stays full (`FullStays`). `GossipInv`: calls in flight go from a node to
one of its peers (`SentToPeers`); a node that knows a transaction got its witnesses first. `BootInv`: what the
unlocked goroutines may leave in `longestRes` and `addr` is one of the answers,
not necessarily of the same peer, each at least `least` blocks high and each
peer's chain at least as long as its answer (`AskInv`); from there on the node
is level with the block it fetches or past `least` (`FetchInv`), since chains
only grow.

**Argument for the two ends of a channel.** `JInv` follows every version of every
update wherever it is: in a slice, in a message, in a call that waits
(`Versions`). `ShapeInv` says what a version for a party looks like (its own key
on its own output and nowhere else, amounts that add up), `AgreeInv` that two
versions of one update pay the same and that a hash belongs to one update,
`RolesInv` that an update is named after its initiator's key and that a key in
an answer belongs to the version the caller asked about, `RefundInv` and
`FiledInv` that nothing unusable is filed under a hash an initiator will look
up. `Used` makes new keys new. The proof rests on one lemma per action, like the
one of `IInv`. The hypothesis is needed: with two openers `CreateChannel`
replaces a channel that the other side's `OpenChannel` made (`OneFunder` in
section 6), and after that the roles of the outputs are mixed up.

**Argument for the states of a channel.** `IndexedByState` speaks of quiet
moments only, so the invariant has to follow an update through its two RPCs.
`PairInv`: a channel that only one side has is at state 0 with the refund as its
only transaction; once both have it they are in step (`InStep`). With `u` the side
that updates: outside the second RPC both slices are as long as the states say
and end in versions of the same update; in it `u` is one transaction ahead, and
either its single request is under way and carries the version that `u` kept, or
the peer has served it and is one *state* ahead. `FlowInv` says which messages
can be there at all: an update's messages go between `u` and its peer, both
versions in an answer are of one update, the refund in an answer is the one its
sender keeps, and an error answers `CreateChannel`, so that the second RPC cannot
fail (`RevocationHeard`). The invariant holds until a process dies. All three
hypotheses are needed: TLC finds a counterexample without any of them
(section 6).

**Argument for the block chain.** The operators come first: what each loop over
transactions, inputs, outputs, records and undo blocks computes. `FlushIs`, `TrimmedIs`:
a flush drops the spent coins from the cache and from their records and nothing
else. `TypeInv` follows from that and from the walks back by the records, which end
in a recorded hash or nowhere.

`RecordInv` is about forks: the hashes that a fork puts into `UnsafeHashes` are of
blocks whose chains are recorded down to the genesis block (`Anchored`), so that
the next fork, measured against them, again ends on such a chain; and every record
that is not of a loose block names the coins of its block (`UndoNamed`). It says
nothing of amounts and scripts, because after a fork they can be wrong: a coin
record that `UndoCoins` makes anew gets every coin of the undo block.

`ChainInv` adds the heights. A block stored before its parent gets height 1, so
recorded heights can be too low, for good, but never too high; they are right for
chains none of whose blocks came early (`Rooted`), and so is `Length`. This is
enough for `OnlyForLonger`: whatever is adopted has a recorded height above the
right `Length`, so its real height is above it too. For a chain with an early
block `PeersCatchUp` fails (section 6). Nothing is assumed about forks here:
`handleFork` takes the length from the height of the new block.

For the coins, `Stage(c, U, P)` says that the coins in the cache not marked spent
are `U`, that every record is of its own transaction with one entry per index
(`OwnRecords`), that what is in a record is also in the cache, and that every coin
of `U` but those in `P` is in its record. A block takes the database from `U` to
`Spend(U, h)` in three stages: the inputs are marked (`MarkedBlock`), the outputs
enter the cache, with flushes in between (`StageStoreInCache`; `P` is what the
cache has and the records do not have yet), and the records are written
(`StageStoreRecords`). `CoinInv` is `Stage` for the unspent outputs of the active
chain. It shows why two quirks do no harm on a line: the lookup of a spent coin in
the record of the *spending* transaction never happens, since a coin that passes
validation is always in the cache, and the counter that a flush sets to 0 only
makes flushes later. `UnsafeInv` is needed to see that a block delivered
again makes a fork of length 0 at most, which undoes nothing (`StepKinds`).
`LedgerStep` is the step simulation: an append is `L!Extend`, all other steps
stutter. `BalanceExact` and `UndoExact` follow from `CoinInv` and the records.

`OnlyExtends` cannot be dropped: `handleFork` stores the blocks it has undone
instead of the new ones, so after a fork of two branches the coins are not those
of the chain (run `blockchain_fork_coins`). `NoDoubleSpend` is needed because
`ValidateBlock` holds every transaction against the coins before the block
(section 6).

**Argument for the wallet.** No property is inductive alone, since `HandleBlock`
moves coins by their locators: two coins with one locator, or a coin that is
spent before it is received, would break all of them. `NoForkInv` says that
coins come from told blocks (`PlacesInv`), that a transaction is in one block
(`ChainInv`), hence a locator is one coin (`OneCoin`), that what is set aside
for a transaction is exactly what it spends and for it alone (`UnseenInv`,
`RequestsInv`), and that inputs are coins the wallet had (`InputsInv`). Under it
`OwnedExactly` follows coin by coin (`OwnedInv`). `Balance` is a sum over a set
that shrinks and grows by sets; `SetSums` has the lemmas for that, and for
`% Word`. `DeepInv` bounds a coin's confirmations by the blocks above it and the
lower blocks that its own overtook; it counts the pending goroutines too, since
each of them will still confirm. `WInv` is `OneChain => NoForkInv`: `HandleFork` has
no caller in the program and its effects, like those of the miner's stray blocks,
are left to `wallet_fork`. Blocks arrive in any order.

`PaysInv` is about amounts: what a transaction takes from its inputs covers what
it pays, output by output. `RequestTransaction` ends its choice of coins when
they reach the cost, or when there are no more. In the first case the change is
the rest; in the second the check of `Balance`, which by `BalanceIsCoins` is the sum
of all spendable coins, says that they reach it too. The sum over the coins
becomes a sum over locators by `SumImage`, since no two coins share one. Both sums
wrap in the code; `SpendsFit` keeps the cost from wrapping, and a sum that wraps is
never larger than the real one, so that the change is not either.

**Argument for the miner.** `CountersInv` is exact at every moment: `Count` is the
number of nodes plus what the calls between two of their atomic updates have
still to do (`CountDue`), modulo the word, and likewise for the priorities. The
sum runs over all calls, so it also says why a counter that wraps below zero
comes back. `LoopInv`: only the call whose answer the loop holds can be waiting,
so that a late answer blocks the loop but never reaches another call.
`LostInv` needs what the heap's operators keep: a round of `up`
or `down` swaps two nodes, so a fold of rounds keeps the set of nodes, their
number and the sum of the priorities; `RemoveNode` takes one node away and
accounts for it. `FoldRules` turns facts about a round into facts about the
fold. `BlockInv` adds that the input sums reported for the mining pool are at
most those of its transactions, since the chain may have lost some of them.
`BlocksAreModest` has three hypotheses, all about wrapping or false amounts:
`SizesFit` (the size of a block that is just too large does not wrap),
`OutputsFit` (the outputs of a block that fits add up to a word), and
`NothingMinted` (no transaction has more outputs than inputs). Transactions of
the wallet satisfy the last one as long as their own sums do not wrap; for
transactions of peers the code does not check it, because
`CheckTransactionSemantics` is not called (`validation.go`). The instance of the
run satisfies all three.

The inductive invariants were model-checked before they were proved: `JInv` on
the states of `lightning`, `StepsInv` on lossless instances with either side
updating, `CoinInv` on those of `blockchain`, `WInv`
and `PaysInv` on those of `wallet`, `MInv` and `BlockInv` on those of
`miner`. They are not part of a run.

**Induction over data.** The installed provers cannot instantiate a library
theorem that takes a predicate. `SetSums` therefore proves induction for a *set*
of subsets of a finite set. `FoldRules` takes the operator of a fold as a constant,
so that `INSTANCE ... WITH op <- StoreCoin` gives the rules for the loop over
the outputs: if the base is in `I[0]` and each round leads from `I[k - 1]` to
`I[k]`, the result is in the last of these sets; for `FoldSet` and `FoldFunction`
the sets are indexed by the elements taken so far. Its rules have the induction
principle as a hypothesis (`Inductive`, `AllSubsetsInduct`), which each module that
instantiates it discharges from `SetSums`. That `up` and `down` restore the order of the
heap is neither needed nor stated.

Only model-checked: liveness (`CallsReturn`, `StatesConverge`, `HandlersReturn`,
`Spreads` and `Settles`), which is out of the prover's reach; the wallet after forks
and with stray blocks (`BalanceIsCoins` and `CoinInOnePlace` in `wallet_fork`); `AncestorsRecorded`; and the coins of the chain beyond the
hypotheses above. Every other property of a passing run is a theorem.

## 5. Plan

Done: all modules, each with its proofs but `BlockIntake`; every safety property that a
passing run checks is stated by a theorem, except where section 4 says so. What
could follow:

1. `AncestorsRecorded`: `RecordInv` is nearly its invariant, with the hashes of the
   calls under way added.
2. The wallet after forks, where a locator may belong to several coins.
3. The coins across forks, once `handleFork` stores the blocks of the new branch:
   `Stage` already follows the undoing of blocks as far as types go.

## 6. Where code and documentation disagree

Two of the disagreements are runs that must report a violation; `PROJECT.json`
quotes the sentence each one contradicts.

* `blockchain_fork_coins` (`CoinsOfActiveChain`): `handleFork` stores the blocks it
  just undid, not the new ones, and undoes one block too many
  (`blockchain.go:152-179`).
* `miner_timeout` (`SumsTimeOut`): `getInputSums` promises to time out after a
  second, but its send is outside the `select` (`mine.go:171`). Once a request has
  timed out, the event loop waits for ever to hand over the answer (`node.go:188`,
  `191`), and all later requests wait for the loop.

The models contradict more sentences of the repository. Each row is seen by naming
the property, a definition of the module, in a configuration with the constants
given; TLC has a counterexample within seconds.

| Property and sentence | Instance | What happens |
|---|---|---|
| `EveryoneCanPunish` ("they'll be caught", `README.md`) | `LightningLossless.cfg`, one update | `GetRevocationKey` files its own output instead of the caller's, so the key it holds opens nothing (`server.go:138`) |
| `IndexedByState` ("indexed by state", `channel.go:16`) | `Lightning.cfg` with `Lossy = FALSE` | both sides update at once, and the updates are appended in different orders (`channel.go:114`) |
| `IndexedByState` | `Lossy = TRUE`, one updater | after a lost reply one side moved its state and the other did not, both kept the transactions (`channel.go:124`) |
| `CurrentStateNotRevoked` ("once everyone has state n + 1, you can safely revoke state n", `coin.proto:169`) | one update, no losses | the key handed out belongs to the newest state (`channel.go:121`) |
| `OneFunder` ("whether we are the channel's funder", `channel.go:12`) | `Openers = {Alice, Bob}`, no losses | each client replaces the channel its handler made, and each believes that it is the funder (`channel.go:90`) |
| `UnsafeOnActiveChain` ("the "unsafe" blocks on the active chain", `blockchain.go:16`) | `Fork...` tree | `handleFork` puts the hashes of the blocks it gives up into `UnsafeHashes` (`blockchain.go:166`) |
| `HeightIsHeight` ("Height is the height of the Block", `blockrecord.go:11`) | `BlockChain.cfg` | a block that comes before its parent is recorded with height 1 (`blockchain.go:117`) |
| `NoDoubleSpend` ("not be a double spend on that chain", `validation.go:63`) | `Twice...` tree | two transactions of one block spend the same coin (`coindatabase.go:43`) |
| `UndoComplete` ("used to reverse the side effects", `undoblock.go:5`) | `BlockChain.cfg` | a block that `Bootstrap` hands over again loses its undo coins (`blockchain.go:118`) |
| `LengthOfActiveChain` ("the length of the active chain", `blockchain.go:13`) | `BlockIntake.cfg` | two overlapping calls of `HandleBlock` append at the same place (`blockchain.go:126`, `node.go:224`, `337`) |
| `Readable` ("information for later retrieval", `chainwriter.go:60`) | `ChainWriter.cfg` | of two overlapping calls of `StoreBlock` each gets the other's offsets (`chainwriter.go:129`) |
| `SeenEnoughWork` ("until we've seen enough POW on top", `wallet.go:41`) | `Wallet.cfg` | a lower block whose goroutine runs late counts as a confirmation of a higher one (`server.go:246`) |
| `PaidOnChain` (the same sentence) | `WalletFork.cfg` | a payment in a block of the own miner that the chain did not take becomes spendable (`node.go:228`) |
| `NoCoinSpentTwice` ("can't keep spamming their coin", `wallet.go:188`) | `Wallet.cfg` | a funding transaction leaves its coins in the collection (`wallet.go:389`), and the next request spends them again |
| `PaysWhatItHas` ("enough money to actually make this transaction", `wallet.go:159`) | `Spends <- HugeSpends` | `amount + fee` wraps and the check passes (`wallet.go:160`) |
| `AlertsArrive` ("used to send alerts of pool updates to the miner", `miner.go:22`) | `Miner.cfg` with `MaxCalls = 1` | nobody receives from `PoolUpdated` (`miner.go:133`) |
| `PoolWithinCapacity` ("the maximum amount of allowed transactions", `transactionpool.go:20`) | `Miner.cfg` | two additions pass the check of the count before either adds (`transactionpool.go:92`) |
| `HighestFirst` ("selects the highest priority transactions", `mining_pool.go`) | `Miner.cfg` | `NewMiningPool` takes a prefix of the heap's array, which is not sorted (`mining_pool.go:15`) |

Others follow from a cause above, or no sentence of the repository says
otherwise:

| Property | Instance | What happens |
|---|---|---|
| `IndexedByState` | `Lossy = FALSE`, both open | each side keeps the refund of the channel it opened itself |
| `ForkSurvives` | fork tree | a fork reaches a block without an undo file and panics |
| `PeersCatchUp` without `Rooted` | the tree of `blockchain_fork` | a chain adopted through blocks that came early has the wrong `Length` (5 instead of 7) and peers are sent the wrong blocks |
| `SizeIsCount` | line | after a flush the counter is 0 while coins stay in the cache |
| `UndoOwn` for every recorded block | fork tree | after a fork, coins of an undo block get each other's amounts and scripts |
| no `AskUnknown` step | `Network`, a payment while somebody joins | a node gets a transaction from a peer whose `Version` has not arrived yet, and dereferences the nil address (`server.go:178`) |
| no `GetDataMissing` step | `Network`, two bootstraps | `longestRes` and `addr` are written by different goroutines (`node.go:322`); the peer that is asked lacks the block and panics (`chainwriter/readwrite.go:27`), then the caller (`node.go:334`) |
| `<>[](forwardTxs = {})` | `Network`, one payment | a transaction that was seen is forwarded all the same (`server.go:172`), so two peers send it to each other for ever |

Read in the code while modelling, without a run:

* The answer with most hashes need not belong to the longest chain: a peer that
  does not have our top block answers from its genesis block on, and the branch
  "did not have block" (`server.go:69`) is never taken.
* `SendAddresses` promises to forward "to all neighbors" (`server.go:98`) and
  chooses two at random.
* `PeerDb.Add` says that it returns true for a peer that exists
  (`peer/ephemeraldb.go:23`) and returns false.
* The node's `PeerLimit` of its configuration is not used (`node.go:112`).
* The miner never updates `PreviousHash` (`mine.go:75`): every block it mines
  has the genesis block as its parent.

## 7. Not modelled

The watchtower: in the node its map and its channel are nil (`node.go:107`), no
one sends to it and no one calls its `HandleBlock`, so there is no behaviour of
the program to model. Of the
miner, `Pause`, `Resume`, `Kill` and `SetChainLength` have no callers, and
neither have `IncrementAll`, `Pop`, `Peek` and `RemoveAboveThreshold` of the heap, nor
`GetAddresses`, `peerCheck` and `Kill` of the node. `CheckTransaction` accepts
everything, and of the checks in `validation.go` only `ValidateBlock` is called;
the calls of the others are commented out. Out of scope: cryptography, hashing and encoding (except the two script
types that decode alike), logging, LevelDB and file errors, generated code,
constants. Inside a modelled step Go's memory model is not represented: the
wallet's and the channel's maps are changed without a lock, and two concurrent
writes of a map stop the process rather than reach a state the properties could
tell apart. Amounts in `BlockChain` are left out and channel amounts are
unbounded naturals; the wallet's amounts wrap.
