------------------------------ MODULE Lightning ------------------------------
(***************************************************************************)
(* A payment channel between two lightning nodes (pkg/lightning).          *)
(*                                                                         *)
(* Each node has one client goroutine (CreateChannel, UpdateState) and a   *)
(* gRPC server whose handlers run concurrently with it.  A client call is  *)
(* cut at every RPC: the code up to the RPC is one action, the code that   *)
(* runs when the answer is in (or the RPC failed) is another one.  What    *)
(* happens between two cuts is one step.                                   *)
(*                                                                         *)
(* Messages travel unordered, and a request may be served after its caller *)
(* gave up (the 2 s deadline of address/client.go): it stays in net until  *)
(* a handler takes it, at most once.  A handler's nil reply reaches the    *)
(* caller as an RPC error, because gRPC refuses to marshal it.             *)
(*                                                                         *)
(* Abstractions: a revocation key pair is [owner, num], fresh each time;   *)
(* every transaction is built around a fresh key, so the key stands for    *)
(* Transaction.Hash(), which leaves the witnesses out as the code does.    *)
(* Inputs, lock times and the change output, carried along unchanged, are  *)
(* left out; witnesses are the set of nodes that signed.                   *)
(***************************************************************************)
EXTENDS Integers, Sequences, FiniteSets

CONSTANTS
    Alice, Bob,     \* the two lightning nodes
    NoKey,          \* a nil key
    Openers,        \* the nodes whose user calls CreateChannel
    Updaters,       \* the nodes whose user calls UpdateState
    Lossy,          \* TRUE: messages get lost and RPCs and the wallet time out
    Amount,         \* the capacity of a channel (CreateChannel's amount)
    Fee,            \* CreateChannel's fee
    Changes,        \* change the wallet has left over after amount and fee
    Pays,           \* amounts a node's user pays in one update
    MaxOpens,       \* bound: calls of CreateChannel
    MaxUpdates      \* bound: calls of UpdateState

Nodes == {Alice, Bob}

ASSUME NodesAssumption == Alice # Bob
ASSUME RolesAssumption == Openers \subseteq Nodes /\ Updaters \subseteq Nodes
ASSUME LossyAssumption == Lossy \in BOOLEAN
ASSUME AmountsAssumption ==
    Amount \in Nat /\ Fee \in Nat /\ Changes \subseteq Nat /\ Pays \subseteq Nat
ASSUME BoundsAssumption == MaxOpens \in Nat /\ MaxUpdates \in Nat

Peer(n) == IF n = Alice THEN Bob ELSE Alice

VARIABLES
    known,                  \* known[n]: n's PeerDb holds the other node
    crashed,                \* nodes whose process died of a panic
    keys,                   \* keys[n]: how many revocation keys n generated
    open,                   \* nodes whose Channels map has an entry
    Funder,                 \* the fields of that entry, as in Channel ...
    State,
    MyTransactions,
    TheirTransactions,
    MyRevocationKeys,       \* transaction hash -> my private key
    TheirRevocationKeys,    \* transaction hash -> RevocationInfo
    call,                   \* what n's client goroutine waits for
    net,                    \* requests and replies in flight
    broadcast,              \* nodes that handed a funding transaction to the chain
    released,               \* history: <<node, key>> sent to the other side
    opens, updates          \* calls made so far, for the bounds

channelVars == <<open, Funder, State, MyTransactions, TheirTransactions,
                 MyRevocationKeys, TheirRevocationKeys>>
countVars == <<opens, updates>>
vars == <<known, crashed, keys, channelVars, call, net, broadcast, released,
          countVars>>

-----------------------------------------------------------------------------
(* Keys, scripts, transactions                                             *)

Key == [owner : Nodes, num : Nat]

ASSUME NoKeyAssumption == NoKey \notin Key

\* The key pair GenerateRevocationKey returns to n next.
GenerateRevocationKey(n) == [owner |-> n, num |-> keys[n] + 1]

\* An output: its locking script is a script type and, for a multi-party
\* script, the revocation key in it.
Output == [Amount : Nat, ScriptType : {"P2PK", "MULTI"}, RevocationKey : Key \cup {NoKey}]

\* hash: the transaction's identity.  update: the hash of the version the
\* initiator built; both parties' versions of one channel state share it.
Transaction == [hash : Key, update : Key, Outputs : Seq(Output), Witnesses : SUBSET Nodes]

Revocable(amount, k) == [Amount |-> amount, ScriptType |-> "MULTI", RevocationKey |-> k]
PayToPublicKey(amount) == [Amount |-> amount, ScriptType |-> "P2PK", RevocationKey |-> NoKey]

\* SignTransaction and ValidateAndSign: ValidateTransaction accepts everything.
SignTransactionFails(n, tx) == tx     \* mutant: the signing error is swallowed
SignTransaction(n, tx) == [tx EXCEPT !.Witnesses = @ \cup {n}]

\* A map assignment.
Put(f, k, v) == [x \in DOMAIN f \cup {k} |-> IF x = k THEN v ELSE f[x]]

\* A map lookup: the zero value if the key is absent.
Get(f, k) == IF k \in DOMAIN f THEN f[k] ELSE NoKey

\* The refund transaction of a funding transaction whose third output is
\* change + fee, signed by the funder.
generateRefundTransactionUnsigned(n, change, k) ==   \* mutant: the funder does not sign
    [hash |-> k, update |-> k, Outputs |-> <<Revocable(Amount + change, k)>>,
     Witnesses |-> {}]
generateRefundTransaction(n, change, k) ==
    [hash |-> k, update |-> k,
     Outputs |-> <<Revocable(Amount + (IF change + Fee > Fee THEN change ELSE 0), k)>>,
     Witnesses |-> {n}]

\* Our version of the transaction the peer proposes: same amounts, our own
\* output revocable, theirs not; nobody signed it yet.
generateTransactionAsFunder(n, theirTx, k) ==        \* mutant: "in case we aren't" is forgotten
    [hash |-> k, update |-> theirTx.update,
     Outputs |-> <<Revocable(theirTx.Outputs[1].Amount, k),
                   PayToPublicKey(theirTx.Outputs[2].Amount)>>,
     Witnesses |-> {}]
generateTransactionWithCorrectScripts(n, theirTx, k) ==
    LET a0 == theirTx.Outputs[1].Amount
        a1 == theirTx.Outputs[2].Amount
    IN [hash |-> k, update |-> theirTx.update,
        Outputs |-> IF Funder[n] THEN <<Revocable(a0, k), PayToPublicKey(a1)>>
                                 ELSE <<PayToPublicKey(a0), Revocable(a1, k)>>,
        Witnesses |-> {}]

\* What a user starts an update from: the funding transaction at first, the
\* transaction at index State (counted from 0) later.
CurrentSplit(n) ==
    IF State[n] = 0 THEN <<Amount, 0>>
    ELSE LET outs == MyTransactions[n][State[n] + 1].Outputs
         IN <<outs[1].Amount, outs[2].Amount>>

MyCoinIndex(n) == IF Funder[n] THEN 1 ELSE 2

\* The transaction a user passes to UpdateState, paying pay to the peer.  Its
\* scripts carry no script type, which reads as P2PK.
MakeUpdatedTransactionWithFee(n, pay, k) ==          \* mutant: the fee is taken unchecked
    LET split == CurrentSplit(n)
        mine == [Amount |-> split[MyCoinIndex(n)] - pay - Fee,
                 ScriptType |-> "P2PK", RevocationKey |-> k]
        theirs == PayToPublicKey(split[3 - MyCoinIndex(n)] + pay)
    IN [hash |-> k, update |-> k,
        Outputs |-> IF Funder[n] THEN <<mine, theirs>> ELSE <<theirs, mine>>,
        Witnesses |-> {}]
MakeUpdatedTransaction(n, pay, k) ==
    LET split == CurrentSplit(n)
        mine == [Amount |-> split[MyCoinIndex(n)] - pay,
                 ScriptType |-> "P2PK", RevocationKey |-> k]
        theirs == PayToPublicKey(split[3 - MyCoinIndex(n)] + pay)
    IN [hash |-> k, update |-> k,
        Outputs |-> IF Funder[n] THEN <<mine, theirs>> ELSE <<theirs, mine>>,
        Witnesses |-> {}]

\* What a node keeps to punish its peer: a key and the output it should open.
RevocationInfo == [RevKey : Key \cup {NoKey}, TransactionOutput : Output,
                   OutputIndex : 0..1, TransactionHash : Key,
                   ScriptType : {"P2PK", "MULTI"}]

NewRevocationInfo(key, tx, coin) ==
    [RevKey |-> key, TransactionOutput |-> tx.Outputs[coin + 1],
     OutputIndex |-> coin, TransactionHash |-> tx.hash,
     ScriptType |-> tx.Outputs[coin + 1].ScriptType]

-----------------------------------------------------------------------------
(* RPC plumbing                                                            *)

Idle == [pc |-> "idle"]
Calls == [pc : {"open", "update"}, tx : Transaction]
         \cup [pc : {"revoke"}, tx : Transaction, unsigned : Transaction]

Requests ==
    [type : {"OpenChannel"}, from : Nodes, id : Key, refund : Transaction]
    \cup [type : {"GetUpdatedTransactions"}, from : Nodes, id : Key, tx : Transaction]
    \cup [type : {"GetRevocationKey"}, from : Nodes, id : Key, tx : Transaction,
          key : Key \cup {NoKey}]

Replies ==
    [type : {"Error"}, to : Nodes, id : Key]
    \cup [type : {"OpenChannelResponse"}, to : Nodes, id : Key, refund : Transaction]
    \cup [type : {"UpdatedTransactions"}, to : Nodes, id : Key,
          signed : Transaction, unsigned : Transaction]
    \cup [type : {"RevocationKey"}, to : Nodes, id : Key, key : Key \cup {NoKey}]

Alive(n) == n \notin crashed
Free(n) == Alive(n) /\ call[n] = Idle

\* The caller of request r still waits for its answer.
Waiting(r) ==
    /\ call[r.from] # Idle
    /\ call[r.from].tx.hash = r.id
    /\ call[r.from].pc = CASE r.type = "OpenChannel" -> "open"
                           [] r.type = "GetUpdatedTransactions" -> "update"
                           [] r.type = "GetRevocationKey" -> "revoke"

\* A handler takes request r and answers it; nobody hears a late answer.
Answer(r, reply) ==
    net' = (net \ {r}) \cup (IF Waiting(r) THEN {reply} ELSE {})

Error(r) == [type |-> "Error", to |-> r.from, id |-> r.id]

\* The RPC n waits for may fail: the answer is an error, the deadline passes
\* or the peer is gone.
CallFailsOnDeadlineOnly(n) == Lossy \/ Peer(n) \in crashed    \* mutant: errors are not heard
CallFailsEarly(n) == TRUE             \* mutant: the deadline is too short
CallFails(n) ==
    \/ Lossy
    \/ Peer(n) \in crashed
    \/ [type |-> "Error", to |-> n, id |-> call[n].tx.hash] \in net

\* After the call nobody listens to its answers any more.
DropReplies(n) == {m \in net : ~(m \in Replies /\ m.to = n)}

Crash(n) ==
    /\ crashed' = crashed \cup {n}
    /\ call' = [call EXCEPT ![n] = Idle]

-----------------------------------------------------------------------------
Init ==
    /\ known = [n \in Nodes |-> FALSE]
    /\ crashed = {}
    /\ keys = [n \in Nodes |-> 0]
    /\ open = {}
    /\ Funder = [n \in Nodes |-> FALSE]
    /\ State = [n \in Nodes |-> 0]
    /\ MyTransactions = [n \in Nodes |-> <<>>]
    /\ TheirTransactions = [n \in Nodes |-> <<>>]
    /\ MyRevocationKeys = [n \in Nodes |-> <<>>]
    /\ TheirRevocationKeys = [n \in Nodes |-> <<>>]
    /\ call = [n \in Nodes |-> Idle]
    /\ net = {}
    /\ broadcast = {}
    /\ released = {}
    /\ opens = 0
    /\ updates = 0

\* n calls ConnectToPeer and the peer's Version handler adds n to its PeerDb.
\* Its own version message goes to the wrong service and adds nothing.
ConnectToPeer(n) ==
    /\ Alive(n) /\ Alive(Peer(n))
    /\ ~known[Peer(n)]
    /\ known' = [known EXCEPT ![Peer(n)] = TRUE]
    /\ UNCHANGED <<crashed, keys, channelVars, call, net, broadcast, released, countVars>>

\* The Channels entry of n is replaced by a channel at state 0 whose first
\* transaction on both sides is the refund.
NewChannelWithoutRefund(n, funder, refund, k) ==     \* mutant: the refund is not kept
    /\ open' = open \cup {n}
    /\ Funder' = [Funder EXCEPT ![n] = funder]
    /\ MyRevocationKeys' = [MyRevocationKeys EXCEPT ![n] = Put(<<>>, refund.hash, k)]
    /\ UNCHANGED <<State, MyTransactions, TheirTransactions, TheirRevocationKeys>>
NewChannel(n, funder, refund, k) ==
    /\ open' = open \cup {n}
    /\ Funder' = [Funder EXCEPT ![n] = funder]
    /\ State' = [State EXCEPT ![n] = 0]
    /\ MyTransactions' = [MyTransactions EXCEPT ![n] = <<refund>>]
    /\ TheirTransactions' = [TheirTransactions EXCEPT ![n] = <<refund>>]
    /\ MyRevocationKeys' = [MyRevocationKeys EXCEPT ![n] = Put(<<>>, refund.hash, k)]
    /\ TheirRevocationKeys' = [TheirRevocationKeys EXCEPT ![n] = <<>>]

\* CreateChannel up to its RPC: the wallet made a funding transaction.
CreateChannel(n) ==
    /\ n \in Openers /\ Free(n) /\ known[n]
    /\ opens < MaxOpens
    /\ opens' = opens + 1
    /\ \E change \in Changes :
         LET k == GenerateRevocationKey(n)
             refund == generateRefundTransaction(n, change, k)
         IN /\ keys' = [keys EXCEPT ![n] = @ + 1]
            /\ call' = [call EXCEPT ![n] = [pc |-> "open", tx |-> refund]]
            /\ net' = net \cup {[type |-> "OpenChannel", from |-> n, id |-> k,
                                 refund |-> refund]}
    /\ UNCHANGED <<known, crashed, channelVars, broadcast, released, updates>>

\* The wallet does not answer in 2 s: the funding transaction is nil and
\* generateRefundTransaction panics on it.
FundingTimesOut(n) ==
    /\ Lossy
    /\ n \in Openers /\ Free(n) /\ known[n]
    /\ opens < MaxOpens
    /\ opens' = opens + 1
    /\ Crash(n)
    /\ UNCHANGED <<known, keys, channelVars, net, broadcast, released, updates>>

\* OpenChannel refuses a stranger and a peer it has a channel with already.
RefuseChannelIfOpen(n) == n \in open         \* mutant: strangers are served
RefuseChannelIfUnknown(n) == ~known[n]       \* mutant: a second channel is opened
RefuseChannel(n) == ~known[n] \/ n \in open

\* The OpenChannel handler of n.
OpenChannel(n) ==
    \E r \in net :
      /\ r.type = "OpenChannel" /\ r.from = Peer(n) /\ Alive(n)
      /\ IF RefuseChannel(n)
         THEN /\ Answer(r, Error(r))
              /\ UNCHANGED <<keys, channelVars>>
         ELSE LET refund == SignTransaction(n, r.refund)
              IN /\ NewChannel(n, FALSE, refund, GenerateRevocationKey(n))
                 /\ keys' = [keys EXCEPT ![n] = @ + 1]
                 /\ Answer(r, [type |-> "OpenChannelResponse", to |-> r.from,
                               id |-> r.id, refund |-> refund])
      /\ UNCHANGED <<known, crashed, call, broadcast, released, countVars>>

\* CreateChannel after its RPC: keep the channel, broadcast the funding.
ChannelCreated(n) ==
    \E m \in net :
      /\ m.type = "OpenChannelResponse" /\ m.to = n /\ Alive(n)
      /\ NewChannel(n, TRUE, m.refund, call[n].tx.hash)
      /\ broadcast' = broadcast \cup {n}
      /\ net' = DropReplies(n)
      /\ call' = [call EXCEPT ![n] = Idle]
      /\ UNCHANGED <<known, crashed, keys, released, countVars>>

\* CreateChannel returns on an error.
CreateChannelFails(n) ==
    /\ Alive(n) /\ call[n].pc = "open"
    /\ CallFails(n)
    /\ net' = DropReplies(n)
    /\ call' = [call EXCEPT ![n] = Idle]
    /\ UNCHANGED <<known, crashed, keys, channelVars, broadcast, released, countVars>>

\* UpdateState up to its first RPC.  The user built tx and filed its key.
UpdateState(n) ==
    /\ n \in Updaters /\ Free(n) /\ n \in open
    /\ updates < MaxUpdates
    /\ updates' = updates + 1
    /\ \E pay \in Pays :
         LET k == GenerateRevocationKey(n)
             tx == MakeUpdatedTransaction(n, pay, k)
         IN /\ pay <= CurrentSplit(n)[MyCoinIndex(n)]
            /\ keys' = [keys EXCEPT ![n] = @ + 1]
            /\ MyRevocationKeys' = [MyRevocationKeys EXCEPT ![n] = Put(@, tx.hash, k)]
            /\ call' = [call EXCEPT ![n] = [pc |-> "update", tx |-> tx]]
            /\ net' = net \cup {[type |-> "GetUpdatedTransactions", from |-> n,
                                 id |-> k, tx |-> tx]}
    /\ UNCHANGED <<known, crashed, open, Funder, State, MyTransactions,
                   TheirTransactions, TheirRevocationKeys, broadcast, released, opens>>

\* The GetUpdatedTransactions handler of n.  The peer is always found
\* (PeersFound), so its nil reply to a stranger does not occur.
GetUpdatedTransactions(n) ==
    \E r \in net :
      /\ r.type = "GetUpdatedTransactions" /\ r.from = Peer(n) /\ Alive(n)
      /\ known[n] /\ n \in open
      /\ LET k == GenerateRevocationKey(n)
             txn == SignTransaction(n, r.tx)
             newTx == generateTransactionWithCorrectScripts(n, r.tx, k)
         IN /\ keys' = [keys EXCEPT ![n] = @ + 1]
            /\ TheirTransactions' = [TheirTransactions EXCEPT ![n] = Append(@, txn)]
            /\ MyRevocationKeys' = [MyRevocationKeys EXCEPT ![n] = Put(@, newTx.hash, k)]
            /\ Answer(r, [type |-> "UpdatedTransactions", to |-> r.from,
                          id |-> r.id, signed |-> txn, unsigned |-> newTx])
      /\ UNCHANGED <<known, crashed, call, open, Funder, State, MyTransactions,
                     TheirRevocationKeys, broadcast, released, countVars>>

\* The handler dereferences the channel without a check: a node without one,
\* whose own CreateChannel still waits for its answer or gave up, dies.
GetUpdatedTransactionsPanics(n) ==
    \E r \in net :
      /\ r.type = "GetUpdatedTransactions" /\ r.from = Peer(n) /\ Alive(n)
      /\ known[n] /\ n \notin open
      /\ Crash(n)
      /\ net' = net \ {r}
      /\ UNCHANGED <<known, keys, channelVars, broadcast, released, countVars>>

\* UpdateState between its RPCs: keep our version, sign theirs, send it back
\* with the private key of our version.
SendRevocationKey(n) ==
    \E m \in net :
      /\ m.type = "UpdatedTransactions" /\ m.to = n /\ Alive(n)
      /\ LET tx == call[n].tx
             theirs == SignTransaction(n, m.unsigned)
             key == Get(MyRevocationKeys[n], tx.hash)
         IN /\ MyTransactions' = [MyTransactions EXCEPT ![n] = Append(@, m.signed)]
            /\ TheirTransactions' = [TheirTransactions EXCEPT ![n] = Append(@, theirs)]
            /\ call' = [call EXCEPT ![n] = [pc |-> "revoke", tx |-> tx, unsigned |-> theirs]]
            /\ net' = DropReplies(n) \cup {[type |-> "GetRevocationKey", from |-> n,
                                         id |-> tx.hash, tx |-> theirs, key |-> key]}
            /\ released' = released \cup {<<n, key>>}
      /\ UNCHANGED <<known, crashed, keys, open, Funder, State, MyRevocationKeys,
                     TheirRevocationKeys, broadcast, countVars>>

\* UpdateState ignores the error of its first RPC and dereferences the answer.
UpdateStateFails(n) ==
    /\ Alive(n) /\ call[n].pc = "update"
    /\ CallFails(n)
    /\ Crash(n)
    /\ net' = DropReplies(n)
    /\ UNCHANGED <<known, keys, channelVars, broadcast, released, countVars>>

\* The GetRevocationKey handler of n; it too always finds peer and channel
\* (PeersFound).
GetRevocationKey(n) ==
    \E r \in net :
      /\ r.type = "GetRevocationKey" /\ r.from = Peer(n) /\ Alive(n)
      /\ known[n] /\ n \in open
      /\ LET theirCoin == IF Funder[n] THEN 0 ELSE 1
             key == Get(MyRevocationKeys[n], r.tx.hash)
         IN /\ MyTransactions' = [MyTransactions EXCEPT ![n] = Append(@, r.tx)]
            /\ TheirRevocationKeys' = [TheirRevocationKeys EXCEPT ![n] =
                   Put(@, r.tx.hash, NewRevocationInfo(r.key, r.tx, theirCoin))]
            /\ State' = [State EXCEPT ![n] = @ + 1]
            /\ Answer(r, [type |-> "RevocationKey", to |-> r.from, id |-> r.id, key |-> key])
            /\ released' = released \cup {<<n, key>>}
      /\ UNCHANGED <<known, crashed, keys, call, open, Funder, TheirTransactions,
                     MyRevocationKeys, broadcast, countVars>>

\* The counterparty's output in UpdateState.
TheirCoinOfServer(n) == IF Funder[n] THEN 0 ELSE 1   \* mutant: the index the server uses
TheirCoin(n) == IF Funder[n] THEN 1 ELSE 0

\* UpdateState after its second RPC.
StateUpdated(n) ==
    \E m \in net :
      /\ m.type = "RevocationKey" /\ m.to = n /\ Alive(n)
      /\ LET info == NewRevocationInfo(m.key, call[n].unsigned, TheirCoin(n))
         IN TheirRevocationKeys' = [TheirRevocationKeys EXCEPT ![n] =
                Put(@, call[n].tx.hash, info)]
      /\ State' = [State EXCEPT ![n] = @ + 1]
      /\ net' = DropReplies(n)
      /\ call' = [call EXCEPT ![n] = Idle]
      /\ UNCHANGED <<known, crashed, keys, open, Funder, MyTransactions, TheirTransactions,
                     MyRevocationKeys, broadcast, released, countVars>>

\* UpdateState returns when its second RPC fails: the transactions stay, the
\* state does not move.
RevocationFails(n) ==
    /\ Alive(n) /\ call[n].pc = "revoke"
    /\ CallFails(n)
    /\ net' = DropReplies(n)
    /\ call' = [call EXCEPT ![n] = Idle]
    /\ UNCHANGED <<known, crashed, keys, channelVars, broadcast, released, countVars>>

Next ==
    \E n \in Nodes :
        \/ ConnectToPeer(n)
        \/ CreateChannel(n) \/ FundingTimesOut(n) \/ OpenChannel(n)
        \/ ChannelCreated(n) \/ CreateChannelFails(n)
        \/ UpdateState(n) \/ GetUpdatedTransactions(n) \/ GetUpdatedTransactionsPanics(n)
        \/ SendRevocationKey(n) \/ UpdateStateFails(n)
        \/ GetRevocationKey(n) \/ StateUpdated(n) \/ RevocationFails(n)

Spec == Init /\ [][Next]_vars

\* The client goroutine of n takes the answer, or the error, it waits for.
ClientStep(n) ==
    \/ ChannelCreated(n) \/ CreateChannelFails(n) \/ SendRevocationKey(n)
    \/ UpdateStateFails(n) \/ StateUpdated(n) \/ RevocationFails(n)

\* The gRPC server of n serves a request.
ServerStep(n) ==
    \/ OpenChannel(n) \/ GetUpdatedTransactions(n) \/ GetUpdatedTransactionsPanics(n)
    \/ GetRevocationKey(n)

FairSpec == Spec /\ \A n \in Nodes : WF_vars(ClientStep(n)) /\ WF_vars(ServerStep(n))

-----------------------------------------------------------------------------
(* Properties                                                              *)

\* f is a map from transaction hashes to S.
IsMap(f, S) == DOMAIN f \subseteq Key /\ f \in [DOMAIN f -> S]

TypeOK ==
    /\ known \in [Nodes -> BOOLEAN]
    /\ crashed \subseteq Nodes
    /\ keys \in [Nodes -> Nat]
    /\ open \subseteq Nodes
    /\ Funder \in [Nodes -> BOOLEAN]
    /\ State \in [Nodes -> Nat]
    /\ MyTransactions \in [Nodes -> Seq(Transaction)]
    /\ TheirTransactions \in [Nodes -> Seq(Transaction)]
    /\ MyRevocationKeys = [n \in Nodes |-> MyRevocationKeys[n]]
    /\ TheirRevocationKeys = [n \in Nodes |-> TheirRevocationKeys[n]]
    /\ \A n \in Nodes : /\ IsMap(MyRevocationKeys[n], Key)
                        /\ IsMap(TheirRevocationKeys[n], RevocationInfo)
    /\ call \in [Nodes -> {Idle} \cup Calls]
    /\ net \subseteq Requests \cup Replies
    /\ broadcast \subseteq Nodes
    /\ opens \in Nat /\ updates \in Nat

\* Every transaction a node keeps as its own carries the counterparty's
\* signature, so the node can take it to the chain at any time: whatever was
\* lost, late, concurrent or half done (UpdateState, GetRevocationKey).
SignedByPeer ==
    \A n \in Nodes : \A i \in 1..Len(MyTransactions[n]) :
        Peer(n) \in MyTransactions[n][i].Witnesses

\* The index MyTransactions[State] exists in every open channel, although the
\* slice and the counter are moved by different steps of client and server.
StateInRange == \A n \in open : State[n] < Len(MyTransactions[n])

\* A funding transaction goes to the chain only when its refund, signed by
\* both sides, is in hand (CreateChannel: the coins cannot get stuck).
RefundBeforeFunding ==
    \A n \in broadcast :
        MyTransactions[n] # <<>> /\ MyTransactions[n][1].Witnesses = Nodes

\* A request of an update reaches a node that knows the caller, and the second
\* one a node that has the channel: the nil, nil returns of
\* GetUpdatedTransactions and GetRevocationKey never happen.
PeersFound ==
    \A r \in net :
        /\ r.type = "GetUpdatedTransactions" => known[Peer(r.from)]
        /\ r.type = "GetRevocationKey" => known[Peer(r.from)] /\ Peer(r.from) \in open

RevocableIndex(tx) ==
    CHOOSE i \in DOMAIN tx.Outputs : tx.Outputs[i].RevocationKey = tx.hash

\* Two versions of one update pay the same amounts, they add up to the
\* capacity, and each party's own output is the revocable one in its version
\* and only there (generateTransactionWithCorrectScripts).
VersionsAgree ==
    \A i \in 2..Len(MyTransactions[Alice]), j \in 2..Len(MyTransactions[Bob]) :
        LET a == MyTransactions[Alice][i]
            b == MyTransactions[Bob][j]
        IN a.update = b.update =>
             /\ \A x \in 1..2 : a.Outputs[x].Amount = b.Outputs[x].Amount
             /\ a.Outputs[1].Amount + a.Outputs[2].Amount = Amount
             /\ RevocableIndex(a) # RevocableIndex(b)

IsPrefixOf(s, t) == Len(s) <= Len(t) /\ SubSeq(t, 1, Len(s)) = s

\* An open channel is never replaced: its transactions are only appended to,
\* its state only grows, its funder stays (OpenChannel's check for an
\* existing channel, CreateChannel's unchecked assignment).
ChannelKept ==
    [][\A n \in open :
          /\ n \in open'
          /\ Funder'[n] = Funder[n]
          /\ State'[n] >= State[n]
          /\ IsPrefixOf(MyTransactions[n], MyTransactions'[n])
          /\ IsPrefixOf(TheirTransactions[n], TheirTransactions'[n])]_vars

\* Nothing is under way and nobody died.
Quiet == net = {} /\ crashed = {} /\ \A n \in Nodes : call[n] = Idle

\* "Transactions is the slice of transactions, indexed by state": when nothing
\* is under way, both sides' transactions at their current state are versions
\* of the same update.
IndexedByState ==
    (Quiet /\ open = Nodes) =>
        MyTransactions[Alice][State[Alice] + 1].update
            = MyTransactions[Bob][State[Bob] + 1].update

\* RevKeySuccessful of the wallet: the key opens the output.
RevKeySuccessful(info) ==
    /\ info.ScriptType = "MULTI"
    /\ info.TransactionOutput.RevocationKey = info.RevKey

\* The initiator of an update can claim the output it filed with the key it
\* got for it (UpdateState: the right coin of the right transaction).
InitiatorCanPunish ==
    \A n \in Nodes : \A i \in 1..Len(MyTransactions[n]) :
        LET tx == MyTransactions[n][i]
        IN (tx.update = tx.hash /\ tx.hash \in DOMAIN TheirRevocationKeys[n]) =>
             RevKeySuccessful(TheirRevocationKeys[n][tx.hash])

\* "if the counterparty does decide to cheat, they'll be caught": both sides
\* can claim the outputs they filed.
EveryoneCanPunish ==
    \A n \in Nodes : \A h \in DOMAIN TheirRevocationKeys[n] :
        RevKeySuccessful(TheirRevocationKeys[n][h])

\* "Once everyone has state n + 1, you can safely revoke state n": no node gives
\* away the key of the newest transaction it holds.
CurrentStateNotRevoked ==
    \A n \in open :
        <<n, MyTransactions[n][Len(MyTransactions[n])].hash>> \notin released

\* "Funder is whether we are the channel's funder": one side is.
OneFunder == (open = Nodes) => Funder[Alice] # Funder[Bob]

\* Every call of CreateChannel and UpdateState returns or dies.  Without losses
\* this is the handlers' doing: each of them answers or takes the node down.
CallsReturn == \A n \in Nodes : (call[n] # Idle) ~> (call[n] = Idle)

\* Without losses both sides end up at the same state number.
StatesConverge == <>[](State[Alice] = State[Bob])
=============================================================================
