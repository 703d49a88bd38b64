--------------------------- MODULE LightningProofs ---------------------------
(***************************************************************************)
(* Safety of the channel protocol for every choice of openers, updaters,   *)
(* losses, amounts and bounds.                                             *)
(*                                                                         *)
(* The second half is about what the two sides of a channel agree on, when *)
(* it is opened from one side.  With two openers these properties fail:    *)
(* each side answers the other's request while its own is under way,       *)
(* CreateChannel then replaces the channel, and both sides take themselves *)
(* for the funder.                                                         *)
(*                                                                         *)
(* The last part adds that one side updates and nothing is lost: then the  *)
(* two sides walk through the same states.                                 *)
(***************************************************************************)
EXTENDS Lightning, TLAPS

-----------------------------------------------------------------------------
(* The inductive invariant                                                 *)

\* What the messages in flight promise.  A reply to a live node is the answer
\* to the call that node waits in.
RequestsInv ==
    \A m \in net :
        /\ m.type = "OpenChannel" => m.from \in m.refund.Witnesses /\ known[m.from]
        /\ m.type = "GetUpdatedTransactions" =>
              Len(m.tx.Outputs) = 2 /\ known[Peer(m.from)]
        /\ m.type = "GetRevocationKey" =>
              /\ m.from \in m.tx.Witnesses
              /\ Len(m.tx.Outputs) = 2
              /\ known[Peer(m.from)] /\ Peer(m.from) \in open

RepliesInv ==
    \A m \in net :
        /\ m.type = "OpenChannelResponse" =>
              /\ m.refund.Witnesses = Nodes
              /\ known[Peer(m.to)]
              /\ m.to \notin crashed => call[m.to].pc = "open"
        /\ m.type = "UpdatedTransactions" =>
              /\ Peer(m.to) \in m.signed.Witnesses
              /\ Len(m.signed.Outputs) = 2 /\ Len(m.unsigned.Outputs) = 2
              /\ Peer(m.to) \in open
              /\ m.to \notin crashed => call[m.to].pc = "update"
        /\ m.type = "RevocationKey" =>
              (m.to \notin crashed => call[m.to].pc = "revoke")

\* What a client call relies on while it waits.
CallInv ==
    \A n \in Nodes :
        /\ call[n].pc = "open" => known[n]
        /\ call[n].pc = "update" => n \in open
        /\ call[n].pc = "revoke" =>
              /\ n \in open
              /\ State[n] + 1 < Len(MyTransactions[n])
              /\ Len(call[n].unsigned.Outputs) = 2

ChannelInv ==
    \A n \in open :
        /\ known[n] /\ known[Peer(n)]
        /\ State[n] < Len(MyTransactions[n])
        /\ MyTransactions[n][1].Witnesses = Nodes
        /\ \A i \in 2..Len(MyTransactions[n]) : Len(MyTransactions[n][i].Outputs) = 2

BroadcastInv == broadcast \subseteq open

IInv == /\ TypeOK /\ SignedByPeer
        /\ RequestsInv /\ RepliesInv /\ CallInv /\ ChannelInv /\ BroadcastInv

-----------------------------------------------------------------------------
(* Facts about the operators                                               *)

\* The other node is a node, and its peer is this one.
LEMMA PeerFacts ==
    ASSUME NEW n \in Nodes
    PROVE  Peer(n) \in Nodes /\ Peer(n) # n /\ Peer(Peer(n)) = n /\ Nodes = {n, Peer(n)}
BY NodesAssumption DEF Peer, Nodes

\* Signing adds a witness and nothing else.
LEMMA SignFacts ==
    ASSUME NEW n \in Nodes, NEW tx \in Transaction
    PROVE  /\ SignTransaction(n, tx) \in Transaction
           /\ SignTransaction(n, tx).Witnesses = tx.Witnesses \cup {n}
           /\ SignTransaction(n, tx).Outputs = tx.Outputs
           /\ SignTransaction(n, tx).hash = tx.hash
           /\ SignTransaction(n, tx).update = tx.update
BY DEF SignTransaction, Transaction

\* A map assignment keeps a map a map.
LEMMA PutFacts ==
    ASSUME NEW S, NEW f, IsMap(f, S), NEW k \in Key, NEW v \in S
    PROVE  IsMap(Put(f, k, v), S)
BY DEF IsMap, Put

\* The empty map.
LEMMA EmptyMap == ASSUME NEW S PROVE IsMap(<<>>, S)
BY DEF IsMap

\* The next key is a key.
LEMMA KeyFacts ==
    ASSUME TypeOK, NEW n \in Nodes
    PROVE  GenerateRevocationKey(n) \in Key
BY DEF TypeOK, GenerateRevocationKey, Key

\* The outputs the scripts are put on.
LEMMA OutputFacts ==
    ASSUME NEW a \in Nat, NEW k \in Key
    PROVE  Revocable(a, k) \in Output /\ PayToPublicKey(a) \in Output
BY DEF Revocable, PayToPublicKey, Output

\* The refund is a transaction its funder signed.
LEMMA RefundFacts ==
    ASSUME NEW n \in Nodes, NEW change \in Changes, NEW k \in Key
    PROVE  /\ generateRefundTransaction(n, change, k) \in Transaction
           /\ n \in generateRefundTransaction(n, change, k).Witnesses
           /\ generateRefundTransaction(n, change, k).hash = k
<1> DEFINE a == Amount + (IF change + Fee > Fee THEN change ELSE 0)
<1>1. a \in Nat
    BY AmountsAssumption
<1>2. Revocable(a, k) \in Output
    BY <1>1, OutputFacts
<1>3. <<Revocable(a, k)>> \in Seq(Output)
    BY <1>2
<1> QED
    BY <1>3 DEF generateRefundTransaction, Transaction

\* Our version of a two-output transaction is a two-output transaction.
LEMMA VersionFacts ==
    ASSUME TypeOK, NEW n \in Nodes, NEW tx \in Transaction, Len(tx.Outputs) = 2,
           NEW k \in Key
    PROVE  LET new == generateTransactionWithCorrectScripts(n, tx, k)
           IN new \in Transaction /\ Len(new.Outputs) = 2 /\ new.hash = k
<1> DEFINE a0 == tx.Outputs[1].Amount
           a1 == tx.Outputs[2].Amount
           outs == IF Funder[n] THEN <<Revocable(a0, k), PayToPublicKey(a1)>>
                                ELSE <<PayToPublicKey(a0), Revocable(a1, k)>>
<1>1. a0 \in Nat /\ a1 \in Nat
    <2>1. tx.Outputs \in Seq(Output)
        BY DEF Transaction
    <2>2. tx.Outputs[1] \in Output /\ tx.Outputs[2] \in Output
        BY <2>1
    <2> QED
        BY <2>2 DEF Output
<1>2. /\ Revocable(a0, k) \in Output /\ PayToPublicKey(a1) \in Output
      /\ PayToPublicKey(a0) \in Output /\ Revocable(a1, k) \in Output
    BY <1>1, OutputFacts
<1>3. outs \in Seq(Output) /\ Len(outs) = 2
    <2> HIDE DEF a0, a1
    <2> QED BY <1>2
<1>4. tx.update \in Key
    BY DEF Transaction
<1> QED
    BY <1>3, <1>4 DEF generateTransactionWithCorrectScripts, Transaction

\* The split a user starts from, in an open channel.
LEMMA SplitFacts ==
    ASSUME TypeOK, ChannelInv, NEW n \in open
    PROVE  /\ CurrentSplit(n) \in Seq(Nat) /\ Len(CurrentSplit(n)) = 2
           /\ CurrentSplit(n)[1] \in Nat /\ CurrentSplit(n)[2] \in Nat
<1> n \in Nodes
    BY DEF TypeOK
<1>1. CASE State[n] = 0
    BY <1>1, AmountsAssumption DEF CurrentSplit
<1>2. CASE State[n] # 0
    <2> DEFINE tx == MyTransactions[n][State[n] + 1]
    <2>1. State[n] \in Nat /\ State[n] < Len(MyTransactions[n])
        BY DEF TypeOK, ChannelInv
    <2>2. MyTransactions[n] \in Seq(Transaction)
        BY DEF TypeOK
    <2>3. tx \in Transaction /\ Len(tx.Outputs) = 2
        <3>1. State[n] + 1 \in 2..Len(MyTransactions[n])
            BY <1>2, <2>1, <2>2
        <3>2. Len(tx.Outputs) = 2
            BY <3>1 DEF ChannelInv
        <3> QED
            BY <2>2, <3>1, <3>2
    <2>4. tx.Outputs \in Seq(Output)
        BY <2>3 DEF Transaction
    <2>5. tx.Outputs[1] \in Output /\ tx.Outputs[2] \in Output
        BY <2>3, <2>4
    <2>6. tx.Outputs[1].Amount \in Nat /\ tx.Outputs[2].Amount \in Nat
        BY <2>5 DEF Output
    <2>7. CurrentSplit(n) = <<tx.Outputs[1].Amount, tx.Outputs[2].Amount>>
        BY <1>2 DEF CurrentSplit
    <2> HIDE DEF tx
    <2> QED
        BY <2>6, <2>7
<1> QED
    BY <1>1, <1>2

\* What the user proposes has two outputs, neither of them negative.
LEMMA ProposalFacts ==
    ASSUME TypeOK, ChannelInv, NEW n \in open, NEW pay \in Pays, NEW k \in Key,
           pay <= CurrentSplit(n)[MyCoinIndex(n)]
    PROVE  LET tx == MakeUpdatedTransaction(n, pay, k)
           IN tx \in Transaction /\ Len(tx.Outputs) = 2 /\ tx.hash = k
<1> DEFINE split == CurrentSplit(n)
           i == MyCoinIndex(n)
           mine == [Amount |-> split[i] - pay, ScriptType |-> "P2PK", RevocationKey |-> k]
           theirs == PayToPublicKey(split[3 - i] + pay)
           outs == IF Funder[n] THEN <<mine, theirs>> ELSE <<theirs, mine>>
<1>1. split[1] \in Nat /\ split[2] \in Nat
    BY SplitFacts
<1>2. i \in {1, 2}
    BY DEF MyCoinIndex
<1>3. split[i] \in Nat /\ split[3 - i] \in Nat
    <2>1. CASE i = 1
        BY <1>1, <2>1
    <2>2. CASE i = 2
        BY <1>1, <2>2
    <2> QED BY <1>2, <2>1, <2>2
<1>4. pay \in Nat
    BY AmountsAssumption
<1>5. split[i] - pay \in Nat /\ split[3 - i] + pay \in Nat
    <2> HIDE DEF split, i
    <2>1. pay <= split[i]
        BY DEF split, i
    <2> QED BY <1>3, <1>4, <2>1
<1>6. mine \in Output /\ theirs \in Output
    <2> HIDE DEF split, i
    <2> QED BY <1>5, OutputFacts DEF Output
<1>7. outs \in Seq(Output) /\ Len(outs) = 2
    <2> HIDE DEF mine, theirs
    <2> QED BY <1>6
<1>8. MakeUpdatedTransaction(n, pay, k) =
          [hash |-> k, update |-> k, Outputs |-> outs, Witnesses |-> {}]
    BY DEF MakeUpdatedTransaction
<1> HIDE DEF outs
<1> QED
    BY <1>7, <1>8 DEF Transaction

\* What is filed about an output of a two-output transaction.
LEMMA InfoFacts ==
    ASSUME NEW key \in Key \cup {NoKey}, NEW tx \in Transaction, Len(tx.Outputs) = 2,
           NEW coin \in 0..1
    PROVE  NewRevocationInfo(key, tx, coin) \in RevocationInfo
<1>1. tx.Outputs \in Seq(Output) /\ tx.hash \in Key
    BY DEF Transaction
<1>2. tx.Outputs[coin + 1] \in Output
    BY <1>1
<1>3. tx.Outputs[coin + 1].ScriptType \in {"P2PK", "MULTI"}
    BY <1>2 DEF Output
<1> QED
    BY <1>1, <1>2, <1>3 DEF NewRevocationInfo, RevocationInfo

-----------------------------------------------------------------------------
(* Every step keeps the invariant                                          *)

\* A node learns of its peer.
LEMMA ConnectStep ==
    ASSUME IInv, NEW n \in Nodes, ConnectToPeer(n)
    PROVE  IInv'
<1> USE DEF IInv, ConnectToPeer, channelVars, countVars
<1>1. TypeOK'
    BY PeerFacts DEF TypeOK
<1>2. \A m \in Nodes : known[m] => known'[m]
    BY DEF TypeOK
<1>3. RequestsInv'
    BY <1>2, PeerFacts DEF RequestsInv, TypeOK, Requests, Replies
<1>4. RepliesInv'
    BY <1>2, PeerFacts DEF RepliesInv, TypeOK, Requests, Replies
<1>5. CallInv' /\ ChannelInv'
    BY <1>2, PeerFacts DEF CallInv, ChannelInv, TypeOK
<1>6. SignedByPeer' /\ BroadcastInv'
    BY DEF SignedByPeer, BroadcastInv
<1> QED BY <1>1, <1>3, <1>4, <1>5, <1>6

\* CreateChannel sends its request.
LEMMA CreateStep ==
    ASSUME IInv, NEW n \in Nodes, CreateChannel(n)
    PROVE  IInv'
<1> USE DEF IInv, channelVars, countVars
<1> DEFINE k == GenerateRevocationKey(n)
<1>1. PICK change \in Changes :
        LET refund == generateRefundTransaction(n, change, k)
        IN /\ keys' = [keys EXCEPT ![n] = @ + 1]
           /\ call' = [call EXCEPT ![n] = [pc |-> "open", tx |-> refund]]
           /\ net' = net \cup {[type |-> "OpenChannel", from |-> n, id |-> k,
                                refund |-> refund]}
    BY DEF CreateChannel
<1> DEFINE refund == generateRefundTransaction(n, change, k)
           req == [type |-> "OpenChannel", from |-> n, id |-> k, refund |-> refund]
<1>2. k \in Key
    BY KeyFacts
<1> HIDE DEF k
<1>3. refund \in Transaction /\ n \in refund.Witnesses
    BY <1>2, RefundFacts
<1> HIDE DEF refund
<1>4. req \in Requests
    BY <1>2, <1>3 DEF Requests
<1>5. TypeOK'
    BY <1>1, <1>3, <1>4 DEF CreateChannel, TypeOK, Calls, refund
<1>6. RequestsInv'
    BY <1>1, <1>3 DEF CreateChannel, RequestsInv, refund
<1>7. RepliesInv'
    BY <1>1, <1>3 DEF CreateChannel, Free, Idle, RepliesInv, TypeOK, Requests, Replies, refund
<1>8. CallInv'
    BY <1>1 DEF CreateChannel, CallInv, TypeOK
<1>9. ChannelInv' /\ SignedByPeer' /\ BroadcastInv'
    BY DEF CreateChannel, ChannelInv, SignedByPeer, BroadcastInv
<1> QED BY <1>5, <1>6, <1>7, <1>8, <1>9

\* A call ends without touching the channel: its answers are dropped or the
\* process is gone.
LEMMA CallEnds ==
    ASSUME IInv, NEW n \in Nodes,
           UNCHANGED <<known, keys, channelVars, broadcast>>,
           opens' \in Nat, updates' \in Nat,
           call' = [call EXCEPT ![n] = Idle],
           net' \subseteq net,
           crashed' = crashed \/ crashed' = crashed \cup {n},
           n \in crashed' \/ \A m \in net' : ~(m \in Replies /\ m.to = n)
    PROVE  IInv'
<1> USE DEF IInv, channelVars
<1>1. TypeOK'
    BY DEF TypeOK
<1>2. RequestsInv'
    BY DEF RequestsInv
<1>3. RepliesInv'
    <2> SUFFICES ASSUME NEW m \in net'
                 PROVE  RepliesInv!(m)'
        BY DEF RepliesInv
    <2>1. m \in net /\ m \in Requests \cup Replies
        BY DEF TypeOK
    <2>2. CASE m \in Replies
        <3>1. m.to \in Nodes
            BY <2>2 DEF Replies
        <3>2. m.to \notin crashed' => m.to # n /\ m.to \notin crashed
            BY <2>2
        <3>3. m.to # n => call'[m.to] = call[m.to]
            BY <3>1 DEF TypeOK
        <3> QED
            BY <2>1, <3>2, <3>3 DEF RepliesInv
    <2>3. CASE m \in Requests
        BY <2>3 DEF Requests
    <2> QED BY <2>1, <2>2, <2>3
<1>4. CallInv'
    BY DEF CallInv, Idle, TypeOK
<1>5. ChannelInv' /\ SignedByPeer' /\ BroadcastInv'
    BY DEF ChannelInv, SignedByPeer, BroadcastInv
<1> QED BY <1>1, <1>2, <1>3, <1>4, <1>5

\* The calls and handlers that end this way.
LEMMA FailureStep ==
    ASSUME IInv, NEW n \in Nodes,
           \/ FundingTimesOut(n) \/ CreateChannelFails(n) \/ UpdateStateFails(n)
           \/ RevocationFails(n) \/ GetUpdatedTransactionsPanics(n)
    PROVE  IInv'
<1> USE DEF countVars
<1>0. opens \in Nat /\ updates \in Nat /\ opens + 1 \in Nat
    BY DEF IInv, TypeOK
<1>1. CASE FundingTimesOut(n)
    BY <1>0, <1>1, CallEnds DEF FundingTimesOut, Crash
<1>2. CASE CreateChannelFails(n)
    BY <1>0, <1>2, CallEnds DEF CreateChannelFails, DropReplies
<1>3. CASE UpdateStateFails(n)
    BY <1>0, <1>3, CallEnds DEF UpdateStateFails, Crash, DropReplies
<1>4. CASE RevocationFails(n)
    BY <1>0, <1>4, CallEnds DEF RevocationFails, DropReplies
<1>5. CASE GetUpdatedTransactionsPanics(n)
    BY <1>0, <1>5, CallEnds DEF GetUpdatedTransactionsPanics, Crash
<1> QED BY <1>1, <1>2, <1>3, <1>4, <1>5

\* UpdateState sends its first request.
LEMMA UpdateStep ==
    ASSUME IInv, NEW n \in Nodes, UpdateState(n)
    PROVE  IInv'
<1> USE DEF IInv, channelVars, countVars
<1> DEFINE k == GenerateRevocationKey(n)
<1>1. PICK pay \in Pays :
        LET tx == MakeUpdatedTransaction(n, pay, k)
        IN /\ pay <= CurrentSplit(n)[MyCoinIndex(n)]
           /\ keys' = [keys EXCEPT ![n] = @ + 1]
           /\ MyRevocationKeys' = [MyRevocationKeys EXCEPT ![n] = Put(@, tx.hash, k)]
           /\ call' = [call EXCEPT ![n] = [pc |-> "update", tx |-> tx]]
           /\ net' = net \cup {[type |-> "GetUpdatedTransactions", from |-> n,
                                id |-> k, tx |-> tx]}
    BY DEF UpdateState
<1> DEFINE tx == MakeUpdatedTransaction(n, pay, k)
           req == [type |-> "GetUpdatedTransactions", from |-> n, id |-> k, tx |-> tx]
<1>2. k \in Key
    BY KeyFacts
<1> HIDE DEF k
<1>3. n \in open
    BY DEF UpdateState
<1>4. tx \in Transaction /\ Len(tx.Outputs) = 2 /\ tx.hash = k
    BY <1>1, <1>2, <1>3, ProposalFacts
<1> HIDE DEF tx
<1>5. req \in Requests
    BY <1>2, <1>4 DEF Requests
<1>6. /\ MyRevocationKeys' = [m \in Nodes |-> MyRevocationKeys'[m]]
      /\ \A m \in Nodes : IsMap(MyRevocationKeys'[m], Key)
    BY <1>1, <1>2, <1>4, PutFacts DEF TypeOK, tx
<1>7. TypeOK'
    <2>1. call' \in [Nodes -> {Idle} \cup Calls] /\ net' \subseteq Requests \cup Replies
        BY <1>1, <1>4, <1>5 DEF TypeOK, Calls, tx
    <2>2. keys' \in [Nodes -> Nat] /\ updates' \in Nat
        BY <1>1 DEF UpdateState, TypeOK
    <2> QED
        BY <1>6, <2>1, <2>2 DEF UpdateState, TypeOK
<1>8. RequestsInv'
    BY <1>1, <1>3, <1>4 DEF UpdateState, RequestsInv, ChannelInv, tx
<1>9. RepliesInv'
    BY <1>1, <1>4 DEF UpdateState, Free, Idle, RepliesInv, TypeOK, Requests, Replies, tx
<1>10. CallInv'
    BY <1>1, <1>3 DEF UpdateState, CallInv, TypeOK
<1>11. ChannelInv' /\ SignedByPeer' /\ BroadcastInv'
    BY DEF UpdateState, ChannelInv, SignedByPeer, BroadcastInv
<1> QED BY <1>7, <1>8, <1>9, <1>10, <1>11

\* An answer adds at most the reply, and only if its caller waits.
LEMMA AnswerFacts ==
    ASSUME NEW r, NEW reply, Answer(r, reply)
    PROVE  \A m \in net' : m \in net \/ (m = reply /\ Waiting(r))
BY DEF Answer

\* The peer opens a channel, or refuses.
LEMMA OpenStep ==
    ASSUME IInv, NEW n \in Nodes, OpenChannel(n)
    PROVE  IInv'
<1> USE DEF IInv, channelVars, countVars
<1>1. PICK r \in net :
        /\ r.type = "OpenChannel" /\ r.from = Peer(n) /\ Alive(n)
        /\ IF RefuseChannel(n)
           THEN /\ Answer(r, Error(r))
                /\ UNCHANGED <<keys, channelVars>>
           ELSE LET refund == SignTransaction(n, r.refund)
                IN /\ NewChannel(n, FALSE, refund, GenerateRevocationKey(n))
                   /\ keys' = [keys EXCEPT ![n] = @ + 1]
                   /\ Answer(r, [type |-> "OpenChannelResponse", to |-> r.from,
                                 id |-> r.id, refund |-> refund])
        /\ UNCHANGED <<known, crashed, call, broadcast, released, countVars>>
    BY DEF OpenChannel
<1>2. r \in Requests /\ r.id \in Key /\ r.from \in Nodes /\ r.refund \in Transaction
    BY <1>1 DEF TypeOK, Requests, Replies
<1>3. CASE RefuseChannel(n)
    <2>1. Error(r) \in Replies /\ Error(r).type = "Error"
        BY <1>2 DEF Error, Replies
    <2>2. \A m \in net' : m \in net \/ m = Error(r)
        BY <1>1, <1>3, AnswerFacts
    <2>3. TypeOK'
        BY <1>1, <1>3, <2>1, <2>2 DEF TypeOK
    <2>4. RequestsInv' /\ RepliesInv'
        BY <1>1, <1>3, <2>1, <2>2 DEF RequestsInv, RepliesInv
    <2>5. CallInv' /\ ChannelInv' /\ SignedByPeer' /\ BroadcastInv'
        BY <1>1, <1>3 DEF CallInv, ChannelInv, SignedByPeer, BroadcastInv
    <2> QED BY <2>3, <2>4, <2>5
<1>4. CASE ~RefuseChannel(n)
    <2> DEFINE refund == SignTransaction(n, r.refund)
               k == GenerateRevocationKey(n)
               reply == [type |-> "OpenChannelResponse", to |-> r.from,
                         id |-> r.id, refund |-> refund]
    <2>1. refund \in Transaction /\ refund.hash \in Key
        BY <1>2, SignFacts DEF Transaction
    <2>2. refund.Witnesses = Nodes
        <3>1. Peer(n) \in r.refund.Witnesses
            BY <1>1 DEF RequestsInv
        <3>2. r.refund.Witnesses \subseteq Nodes
            BY <1>2 DEF Transaction
        <3>3. refund.Witnesses = r.refund.Witnesses \cup {n}
            BY <1>2, SignFacts
        <3>4. Nodes = {n, Peer(n)}
            BY PeerFacts
        <3> HIDE DEF refund
        <3> QED BY <3>1, <3>2, <3>3, <3>4
    <2>3. known[n] /\ n \notin open /\ known[Peer(n)]
        BY <1>1, <1>4 DEF RefuseChannel, RequestsInv
    <2>4. k \in Key
        BY KeyFacts
    <2>5. NewChannel(n, FALSE, refund, k) /\ Answer(r, reply)
          /\ keys' = [keys EXCEPT ![n] = @ + 1]
        BY <1>1, <1>4
    <2> HIDE DEF refund, k
    <2>6. reply \in Replies
        BY <1>2, <2>1 DEF Replies
    <2>7. \A m \in net' : m \in net \/ (m = reply /\ Waiting(r))
        BY <2>5, AnswerFacts
    <2>8. IsMap(Put(<<>>, refund.hash, k), Key) /\ IsMap(<<>>, RevocationInfo)
        BY <2>1, <2>4, EmptyMap, PutFacts
    <2>9. TypeOK'
        <3>1. /\ MyTransactions' \in [Nodes -> Seq(Transaction)]
              /\ TheirTransactions' \in [Nodes -> Seq(Transaction)]
            BY <2>1, <2>5 DEF NewChannel, TypeOK
        <3>2. /\ MyRevocationKeys' = [m \in Nodes |-> MyRevocationKeys'[m]]
              /\ TheirRevocationKeys' = [m \in Nodes |-> TheirRevocationKeys'[m]]
              /\ \A m \in Nodes : /\ IsMap(MyRevocationKeys'[m], Key)
                                  /\ IsMap(TheirRevocationKeys'[m], RevocationInfo)
            BY <2>5, <2>8 DEF NewChannel, TypeOK
        <3>3. /\ open' \subseteq Nodes /\ Funder' \in [Nodes -> BOOLEAN]
              /\ State' \in [Nodes -> Nat] /\ keys' \in [Nodes -> Nat]
            BY <2>5 DEF NewChannel, TypeOK
        <3> QED BY <1>1, <2>6, <2>7, <3>1, <3>2, <3>3 DEF TypeOK
    <2>10. open \subseteq open'
        BY <2>5 DEF NewChannel
    <2>11. RequestsInv'
        BY <1>1, <2>7, <2>10 DEF RequestsInv
    <2>12. RepliesInv'
        <3>1. Waiting(r) => call[r.from].pc = "open"
            BY <1>1 DEF Waiting
        <3> QED BY <1>1, <2>2, <2>3, <2>7, <2>10, <3>1, PeerFacts DEF RepliesInv
    <2>13. CallInv'
        BY <1>1, <2>3, <2>5 DEF CallInv, NewChannel, TypeOK
    <2>14. ChannelInv'
        <3>1. /\ State'[n] = 0 /\ MyTransactions'[n] = <<refund>>
              /\ \A m \in open : m # n /\ State'[m] = State[m]
                                 /\ MyTransactions'[m] = MyTransactions[m]
            BY <2>3, <2>5 DEF NewChannel, TypeOK
        <3> QED BY <1>1, <2>2, <2>3, <2>5, <3>1, PeerFacts DEF ChannelInv, NewChannel, TypeOK
    <2>15. SignedByPeer' /\ BroadcastInv'
        <3>1. /\ MyTransactions'[n] = <<refund>>
              /\ \A m \in Nodes \ {n} : MyTransactions'[m] = MyTransactions[m]
            BY <2>5 DEF NewChannel, TypeOK
        <3> QED BY <1>1, <2>2, <2>10, <3>1, PeerFacts DEF SignedByPeer, BroadcastInv
    <2> QED BY <2>9, <2>11, <2>12, <2>13, <2>14, <2>15
<1> QED BY <1>3, <1>4

\* What is left after a call of n took its answer.
LEMMA DropFacts ==
    ASSUME IInv, NEW n \in Nodes
    PROVE  \A m \in DropReplies(n) :
              m \in net /\ (m \in Replies => m.to # n)
BY DEF DropReplies

\* Replies to another node survive a step of n that leaves that node alone.
LEMMA OthersReplies ==
    ASSUME IInv, NEW n \in Nodes,
           \A q \in Nodes \ {n} : call'[q] = call[q],
           known' = known, crashed' = crashed, open \subseteq open'
    PROVE  \A m \in net' : m \in net /\ (m \in Replies => m.to # n) => RepliesInv!(m)'
<1> SUFFICES ASSUME NEW m \in net', m \in net, m \in Replies => m.to # n
             PROVE  RepliesInv!(m)'
    OBVIOUS
<1> USE DEF IInv
<1>1. m \in net /\ m \in Requests \cup Replies
    BY DEF TypeOK
<1>2. CASE m \in Replies
    <2>1. m.to \in Nodes /\ m.to # n
        BY <1>2 DEF Replies
    <2>2. call'[m.to] = call[m.to]
        BY <2>1
    <2> QED BY <1>1, <2>2 DEF RepliesInv
<1>3. CASE m \in Requests
    BY <1>3 DEF Requests
<1> QED BY <1>1, <1>2, <1>3

\* CreateChannel gets its answer.
LEMMA CreatedStep ==
    ASSUME IInv, NEW n \in Nodes, ChannelCreated(n)
    PROVE  IInv'
<1> USE DEF IInv, channelVars, countVars
<1>1. PICK m \in net :
        /\ m.type = "OpenChannelResponse" /\ m.to = n /\ Alive(n)
        /\ NewChannel(n, TRUE, m.refund, call[n].tx.hash)
        /\ broadcast' = broadcast \cup {n}
        /\ net' = DropReplies(n)
        /\ call' = [call EXCEPT ![n] = Idle]
        /\ UNCHANGED <<known, crashed, keys, released, countVars>>
    BY DEF ChannelCreated
<1> DEFINE refund == m.refund
           k == call[n].tx.hash
<1>2. refund \in Transaction /\ refund.hash \in Key
    BY <1>1 DEF TypeOK, Requests, Replies, Transaction
<1>3. refund.Witnesses = Nodes /\ known[Peer(n)] /\ call[n].pc = "open"
    BY <1>1 DEF RepliesInv, Alive
<1>4. known[n]
    BY <1>3 DEF CallInv
<1>5. k \in Key
    BY <1>3 DEF TypeOK, Calls, Idle, Transaction
<1> HIDE DEF refund, k
<1>6. NewChannel(n, TRUE, refund, k)
    BY <1>1 DEF refund, k
<1>7. IsMap(Put(<<>>, refund.hash, k), Key) /\ IsMap(<<>>, RevocationInfo)
    BY <1>2, <1>5, EmptyMap, PutFacts
<1>8. \A q \in net' : q \in net /\ (q \in Replies => q.to # n)
    BY <1>1, DropFacts
<1>9. TypeOK'
    <2>1. /\ MyTransactions' \in [Nodes -> Seq(Transaction)]
          /\ TheirTransactions' \in [Nodes -> Seq(Transaction)]
        BY <1>2, <1>6 DEF NewChannel, TypeOK
    <2>2. /\ MyRevocationKeys' = [q \in Nodes |-> MyRevocationKeys'[q]]
          /\ TheirRevocationKeys' = [q \in Nodes |-> TheirRevocationKeys'[q]]
          /\ \A q \in Nodes : /\ IsMap(MyRevocationKeys'[q], Key)
                              /\ IsMap(TheirRevocationKeys'[q], RevocationInfo)
        BY <1>6, <1>7 DEF NewChannel, TypeOK
    <2>3. /\ open' \subseteq Nodes /\ Funder' \in [Nodes -> BOOLEAN]
          /\ State' \in [Nodes -> Nat] /\ call' \in [Nodes -> {Idle} \cup Calls]
        BY <1>1, <1>6 DEF NewChannel, TypeOK
    <2> QED BY <1>1, <1>8, <2>1, <2>2, <2>3 DEF TypeOK
<1>10. open' = open \cup {n}
    BY <1>6 DEF NewChannel
<1>11. RequestsInv'
    BY <1>1, <1>8, <1>10 DEF RequestsInv
<1>12. RepliesInv'
    <2>1. \A q \in Nodes \ {n} : call'[q] = call[q]
        BY <1>1 DEF TypeOK
    <2>2. \A q \in net' : RepliesInv!(q)'
        BY <1>1, <1>8, <1>10, <2>1, OthersReplies
    <2> QED BY <2>2 DEF RepliesInv
<1>13. /\ State'[n] = 0 /\ MyTransactions'[n] = <<refund>>
       /\ \A q \in Nodes \ {n} : State'[q] = State[q] /\ MyTransactions'[q] = MyTransactions[q]
    BY <1>6 DEF NewChannel, TypeOK
<1>14. CallInv'
    BY <1>1, <1>10, <1>13 DEF CallInv, TypeOK, Idle
<1>15. ChannelInv'
    <2> SUFFICES ASSUME NEW q \in open'
                 PROVE  ChannelInv!(q)'
        BY DEF ChannelInv
    <2>1. CASE q = n
        <3>1. Len(<<refund>>) = 1 /\ <<refund>>[1] = refund /\ 2..Len(<<refund>>) = {}
            OBVIOUS
        <3>2. known'[n] /\ known'[Peer(n)]
            BY <1>1, <1>3, <1>4
        <3>3. /\ State'[n] < Len(MyTransactions'[n])
              /\ MyTransactions'[n][1].Witnesses = Nodes
              /\ 2..Len(MyTransactions'[n]) = {}
            BY <1>3, <1>13, <3>1
        <3> HIDE DEF IInv
        <3> QED BY <2>1, <3>2, <3>3
    <2>2. CASE q # n
        <3>1. q \in open /\ q \in Nodes
            BY <1>10, <2>2 DEF TypeOK
        <3> QED BY <1>1, <1>13, <2>2, <3>1 DEF ChannelInv
    <2> QED BY <2>1, <2>2
<1>16. SignedByPeer' /\ BroadcastInv'
    BY <1>1, <1>3, <1>10, <1>13, PeerFacts DEF SignedByPeer, BroadcastInv
<1> QED BY <1>9, <1>11, <1>12, <1>14, <1>15, <1>16

\* The peer answers with both versions of the update.
LEMMA UpdatedStep ==
    ASSUME IInv, NEW n \in Nodes, GetUpdatedTransactions(n)
    PROVE  IInv'
<1> USE DEF IInv, channelVars, countVars
<1> DEFINE k == GenerateRevocationKey(n)
<1>1. PICK r \in net :
        /\ r.type = "GetUpdatedTransactions" /\ r.from = Peer(n) /\ Alive(n)
        /\ known[n] /\ n \in open
        /\ LET txn == SignTransaction(n, r.tx)
               newTx == generateTransactionWithCorrectScripts(n, r.tx, k)
           IN /\ keys' = [keys EXCEPT ![n] = @ + 1]
              /\ TheirTransactions' = [TheirTransactions EXCEPT ![n] = Append(@, txn)]
              /\ MyRevocationKeys' = [MyRevocationKeys EXCEPT ![n] = Put(@, newTx.hash, k)]
              /\ Answer(r, [type |-> "UpdatedTransactions", to |-> r.from,
                            id |-> r.id, signed |-> txn, unsigned |-> newTx])
        /\ UNCHANGED <<known, crashed, call, open, Funder, State, MyTransactions,
                       TheirRevocationKeys, broadcast, released, countVars>>
    BY DEF GetUpdatedTransactions
<1> DEFINE txn == SignTransaction(n, r.tx)
           newTx == generateTransactionWithCorrectScripts(n, r.tx, k)
           reply == [type |-> "UpdatedTransactions", to |-> r.from,
                     id |-> r.id, signed |-> txn, unsigned |-> newTx]
<1>2. r.id \in Key /\ r.from \in Nodes /\ r.tx \in Transaction
    BY <1>1 DEF TypeOK, Requests, Replies
<1>3. Len(r.tx.Outputs) = 2
    BY <1>1 DEF RequestsInv
<1>4. k \in Key
    BY KeyFacts
<1> HIDE DEF k
<1>5. txn \in Transaction /\ n \in txn.Witnesses /\ Len(txn.Outputs) = 2
    BY <1>2, <1>3, SignFacts
<1>6. newTx \in Transaction /\ Len(newTx.Outputs) = 2 /\ newTx.hash = k
    BY <1>2, <1>3, <1>4, VersionFacts
<1>7. /\ keys' = [keys EXCEPT ![n] = @ + 1]
      /\ TheirTransactions' = [TheirTransactions EXCEPT ![n] = Append(@, txn)]
      /\ MyRevocationKeys' = [MyRevocationKeys EXCEPT ![n] = Put(@, newTx.hash, k)]
      /\ Answer(r, reply)
    BY <1>1
<1> HIDE DEF txn, newTx
<1>8. reply \in Replies
    BY <1>2, <1>5, <1>6 DEF Replies
<1>9. \A m \in net' : m \in net \/ (m = reply /\ Waiting(r))
    BY <1>7, AnswerFacts
<1>10. TypeOK'
    <2>1. TheirTransactions' \in [Nodes -> Seq(Transaction)] /\ keys' \in [Nodes -> Nat]
        BY <1>5, <1>7 DEF TypeOK
    <2>2. /\ MyRevocationKeys' = [q \in Nodes |-> MyRevocationKeys'[q]]
          /\ \A q \in Nodes : IsMap(MyRevocationKeys'[q], Key)
        BY <1>4, <1>6, <1>7, PutFacts DEF TypeOK
    <2> QED BY <1>1, <1>8, <1>9, <2>1, <2>2 DEF TypeOK
<1>11. RequestsInv'
    BY <1>1, <1>9 DEF RequestsInv
<1>12. RepliesInv'
    <2>1. Waiting(r) => call[r.from].pc = "update"
        BY <1>1 DEF Waiting
    <2>2. Peer(r.from) = n
        BY <1>1, PeerFacts
    <2> QED BY <1>1, <1>5, <1>6, <1>9, <2>1, <2>2 DEF RepliesInv
<1>13. CallInv' /\ ChannelInv' /\ SignedByPeer' /\ BroadcastInv'
    BY <1>1 DEF CallInv, ChannelInv, SignedByPeer, BroadcastInv
<1> QED BY <1>10, <1>11, <1>12, <1>13

\* A transaction the peer signed joins a node's own.
LEMMA AppendFacts ==
    ASSUME IInv, NEW n \in open, NEW tx \in Transaction,
           Peer(n) \in tx.Witnesses, Len(tx.Outputs) = 2,
           MyTransactions' = [MyTransactions EXCEPT ![n] = Append(@, tx)]
    PROVE  /\ MyTransactions' \in [Nodes -> Seq(Transaction)]
           /\ SignedByPeer'
           /\ Len(MyTransactions'[n]) = Len(MyTransactions[n]) + 1
           /\ MyTransactions'[n][1] = MyTransactions[n][1]
           /\ \A q \in Nodes \ {n} : MyTransactions'[q] = MyTransactions[q]
           /\ \A q \in open : \A i \in 2..Len(MyTransactions'[q]) :
                 Len(MyTransactions'[q][i].Outputs) = 2
<1> USE DEF IInv
<1>1. n \in Nodes /\ MyTransactions[n] \in Seq(Transaction) /\ State[n] \in Nat
    BY DEF TypeOK
<1>2. MyTransactions'[n] = Append(MyTransactions[n], tx)
    BY <1>1 DEF TypeOK
<1>3. \A q \in Nodes \ {n} : MyTransactions'[q] = MyTransactions[q]
    BY DEF TypeOK
<1>4. MyTransactions' \in [Nodes -> Seq(Transaction)]
    BY <1>1 DEF TypeOK
<1>5. /\ Len(MyTransactions'[n]) = Len(MyTransactions[n]) + 1
      /\ \A i \in 1..Len(MyTransactions[n]) : MyTransactions'[n][i] = MyTransactions[n][i]
      /\ MyTransactions'[n][Len(MyTransactions[n]) + 1] = tx
      /\ Len(MyTransactions[n]) \in Nat
    BY <1>1, <1>2
<1>6. Len(MyTransactions[n]) > 0
    BY <1>1, <1>5 DEF ChannelInv
<1>7. SignedByPeer'
    <2> SUFFICES ASSUME NEW q \in Nodes, NEW i \in 1..Len(MyTransactions'[q])
                 PROVE  Peer(q) \in MyTransactions'[q][i].Witnesses
        BY DEF SignedByPeer, Peer
    <2>1. CASE q # n
        BY <1>3, <2>1 DEF SignedByPeer
    <2>2. CASE q = n /\ i \in 1..Len(MyTransactions[n])
        BY <1>5, <2>2 DEF SignedByPeer
    <2>3. CASE q = n /\ i = Len(MyTransactions[n]) + 1
        BY <1>5, <2>3
    <2> QED BY <1>5, <2>1, <2>2, <2>3
<1>8. \A q \in open : \A i \in 2..Len(MyTransactions'[q]) :
          Len(MyTransactions'[q][i].Outputs) = 2
    <2> SUFFICES ASSUME NEW q \in open, NEW i \in 2..Len(MyTransactions'[q])
                 PROVE  Len(MyTransactions'[q][i].Outputs) = 2
        OBVIOUS
    <2>1. CASE q # n
        BY <1>3, <2>1 DEF ChannelInv, TypeOK
    <2>2. CASE q = n /\ i \in 2..Len(MyTransactions[n])
        BY <1>5, <2>2 DEF ChannelInv
    <2>3. CASE q = n /\ i = Len(MyTransactions[n]) + 1
        BY <1>5, <2>3
    <2> QED BY <1>5, <2>1, <2>2, <2>3
<1>9. MyTransactions'[n][1] = MyTransactions[n][1]
    BY <1>5, <1>6
<1> QED BY <1>3, <1>4, <1>5, <1>7, <1>8, <1>9

\* UpdateState keeps both versions and sends the second request.
LEMMA SendStep ==
    ASSUME IInv, NEW n \in Nodes, SendRevocationKey(n)
    PROVE  IInv'
<1> USE DEF IInv, channelVars, countVars
<1> DEFINE tx == call[n].tx
           key == Get(MyRevocationKeys[n], tx.hash)
<1>1. PICK m \in net :
        /\ m.type = "UpdatedTransactions" /\ m.to = n /\ Alive(n)
        /\ LET theirs == SignTransaction(n, m.unsigned)
           IN /\ MyTransactions' = [MyTransactions EXCEPT ![n] = Append(@, m.signed)]
              /\ TheirTransactions' = [TheirTransactions EXCEPT ![n] = Append(@, theirs)]
              /\ call' = [call EXCEPT ![n] = [pc |-> "revoke", tx |-> tx, unsigned |-> theirs]]
              /\ net' = DropReplies(n) \cup {[type |-> "GetRevocationKey", from |-> n,
                                              id |-> tx.hash, tx |-> theirs, key |-> key]}
              /\ released' = released \cup {<<n, key>>}
        /\ UNCHANGED <<known, crashed, keys, open, Funder, State, MyRevocationKeys,
                       TheirRevocationKeys, broadcast, countVars>>
    BY DEF SendRevocationKey
<1> DEFINE theirs == SignTransaction(n, m.unsigned)
           req == [type |-> "GetRevocationKey", from |-> n,
                   id |-> tx.hash, tx |-> theirs, key |-> key]
           c == [pc |-> "revoke", tx |-> tx, unsigned |-> theirs]
<1>2. m.signed \in Transaction /\ m.unsigned \in Transaction
    BY <1>1 DEF TypeOK, Requests, Replies
<1>3. /\ Peer(n) \in m.signed.Witnesses /\ Len(m.signed.Outputs) = 2
      /\ Len(m.unsigned.Outputs) = 2 /\ Peer(n) \in open /\ call[n].pc = "update"
    BY <1>1 DEF RepliesInv, Alive
<1>4. n \in open
    BY <1>3 DEF CallInv
<1>5. tx \in Transaction /\ tx.hash \in Key
    BY <1>3 DEF TypeOK, Calls, Idle, Transaction
<1>6. key \in Key \cup {NoKey}
    BY DEF Get, TypeOK, IsMap
<1>7. theirs \in Transaction /\ n \in theirs.Witnesses /\ Len(theirs.Outputs) = 2
    BY <1>2, <1>3, SignFacts
<1>8. /\ MyTransactions' = [MyTransactions EXCEPT ![n] = Append(@, m.signed)]
      /\ TheirTransactions' = [TheirTransactions EXCEPT ![n] = Append(@, theirs)]
      /\ call' = [call EXCEPT ![n] = c]
      /\ net' = DropReplies(n) \cup {req}
    BY <1>1
<1> HIDE DEF tx, key, theirs
<1>9. req \in Requests
    BY <1>5, <1>6, <1>7 DEF Requests
<1>10. \A q \in DropReplies(n) : q \in net /\ (q \in Replies => q.to # n)
    BY DropFacts
<1>11. /\ MyTransactions' \in [Nodes -> Seq(Transaction)]
       /\ SignedByPeer'
       /\ Len(MyTransactions'[n]) = Len(MyTransactions[n]) + 1
       /\ MyTransactions'[n][1] = MyTransactions[n][1]
       /\ \A q \in Nodes \ {n} : MyTransactions'[q] = MyTransactions[q]
       /\ \A q \in open : \A i \in 2..Len(MyTransactions'[q]) :
             Len(MyTransactions'[q][i].Outputs) = 2
    BY <1>2, <1>3, <1>4, <1>8, AppendFacts
<1>12. TypeOK'
    <2>1. TheirTransactions' \in [Nodes -> Seq(Transaction)]
        BY <1>7, <1>8 DEF TypeOK
    <2>2. c \in Calls
        BY <1>5, <1>7 DEF Calls
    <2>3. call' \in [Nodes -> {Idle} \cup Calls]
        BY <1>8, <2>2 DEF TypeOK
    <2> QED BY <1>1, <1>8, <1>9, <1>10, <1>11, <2>1, <2>3 DEF TypeOK
<1>13. RequestsInv'
    <2>1. known[Peer(n)] /\ Peer(n) \in open
        BY <1>3, <1>4 DEF ChannelInv
    <2> QED BY <1>1, <1>7, <1>8, <1>10, <2>1 DEF RequestsInv
<1>14. RepliesInv'
    <2>1. \A q \in Nodes \ {n} : call'[q] = call[q]
        BY <1>8 DEF TypeOK
    <2>2. \A q \in net' : q # req => RepliesInv!(q)'
        BY <1>1, <1>8, <1>10, <2>1, OthersReplies
    <2> QED BY <2>2 DEF RepliesInv
<1>15. \A q \in Nodes : Len(MyTransactions[q]) \in Nat /\ State[q] \in Nat
    BY DEF TypeOK
<1>16. CallInv'
    <2> SUFFICES ASSUME NEW q \in Nodes PROVE CallInv!(q)'
        BY DEF CallInv
    <2>1. CASE q = n
        <3>1. call'[n] = c
            BY <1>8 DEF TypeOK
        <3>2. State[n] + 1 < Len(MyTransactions'[n])
            BY <1>4, <1>11, <1>15 DEF ChannelInv
        <3> QED BY <1>1, <1>4, <1>7, <2>1, <3>1, <3>2
    <2>2. CASE q # n
        <3>1. call'[q] = call[q] /\ MyTransactions'[q] = MyTransactions[q]
            BY <1>8, <1>11, <2>2 DEF TypeOK
        <3> QED BY <1>1, <3>1 DEF CallInv
    <2> QED BY <2>1, <2>2
<1>17. ChannelInv'
    <2> SUFFICES ASSUME NEW q \in open PROVE ChannelInv!(q)'
        BY <1>1 DEF ChannelInv
    <2>1. q \in Nodes
        BY DEF TypeOK
    <2>2. Len(MyTransactions[q]) <= Len(MyTransactions'[q])
        BY <1>11, <1>15, <2>1
    <2>3. MyTransactions'[q][1] = MyTransactions[q][1]
        BY <1>11, <2>1
    <2>4. State[q] < Len(MyTransactions'[q])
        BY <1>11, <1>15, <2>1, <2>2 DEF ChannelInv
    <2> QED BY <1>1, <1>11, <2>3, <2>4 DEF ChannelInv
<1>18. BroadcastInv'
    BY <1>1 DEF BroadcastInv
<1> QED BY <1>11, <1>12, <1>13, <1>14, <1>16, <1>17, <1>18

\* The peer takes the signed version and answers with a key.
LEMMA RevokeStep ==
    ASSUME IInv, NEW n \in Nodes, GetRevocationKey(n)
    PROVE  IInv'
<1> USE DEF IInv, channelVars, countVars
<1> DEFINE theirCoin == IF Funder[n] THEN 0 ELSE 1
<1>1. PICK r \in net :
        /\ r.type = "GetRevocationKey" /\ r.from = Peer(n) /\ Alive(n)
        /\ known[n] /\ n \in open
        /\ LET key == Get(MyRevocationKeys[n], r.tx.hash)
           IN /\ MyTransactions' = [MyTransactions EXCEPT ![n] = Append(@, r.tx)]
              /\ TheirRevocationKeys' = [TheirRevocationKeys EXCEPT ![n] =
                     Put(@, r.tx.hash, NewRevocationInfo(r.key, r.tx, theirCoin))]
              /\ State' = [State EXCEPT ![n] = @ + 1]
              /\ Answer(r, [type |-> "RevocationKey", to |-> r.from, id |-> r.id, key |-> key])
              /\ released' = released \cup {<<n, key>>}
        /\ UNCHANGED <<known, crashed, keys, call, open, Funder, TheirTransactions,
                       MyRevocationKeys, broadcast, countVars>>
    BY DEF GetRevocationKey
<1> DEFINE key == Get(MyRevocationKeys[n], r.tx.hash)
           info == NewRevocationInfo(r.key, r.tx, theirCoin)
           reply == [type |-> "RevocationKey", to |-> r.from, id |-> r.id, key |-> key]
<1>2. r.id \in Key /\ r.from \in Nodes /\ r.tx \in Transaction /\ r.key \in Key \cup {NoKey}
    BY <1>1 DEF TypeOK, Requests, Replies
<1>3. Len(r.tx.Outputs) = 2 /\ Peer(n) \in r.tx.Witnesses
    BY <1>1 DEF RequestsInv
<1>4. key \in Key \cup {NoKey}
    BY DEF Get, TypeOK, IsMap
<1>5. info \in RevocationInfo /\ r.tx.hash \in Key
    <2>1. theirCoin \in 0..1
        OBVIOUS
    <2> HIDE DEF theirCoin
    <2> QED BY <1>2, <1>3, <2>1, InfoFacts DEF Transaction
<1> HIDE DEF key, info
<1>6. /\ MyTransactions' = [MyTransactions EXCEPT ![n] = Append(@, r.tx)]
      /\ TheirRevocationKeys' = [TheirRevocationKeys EXCEPT ![n] = Put(@, r.tx.hash, info)]
      /\ State' = [State EXCEPT ![n] = @ + 1]
      /\ Answer(r, reply)
    BY <1>1 DEF key, info
<1>7. reply \in Replies
    BY <1>2, <1>4 DEF Replies
<1>8. \A m \in net' : m \in net \/ (m = reply /\ Waiting(r))
    BY <1>6, AnswerFacts
<1>9. /\ MyTransactions' \in [Nodes -> Seq(Transaction)]
      /\ SignedByPeer'
      /\ Len(MyTransactions'[n]) = Len(MyTransactions[n]) + 1
      /\ MyTransactions'[n][1] = MyTransactions[n][1]
      /\ \A q \in Nodes \ {n} : MyTransactions'[q] = MyTransactions[q]
      /\ \A q \in open : \A i \in 2..Len(MyTransactions'[q]) :
            Len(MyTransactions'[q][i].Outputs) = 2
    BY <1>1, <1>2, <1>3, <1>6, AppendFacts
<1>10. TypeOK'
    <2>1. State' \in [Nodes -> Nat]
        BY <1>6 DEF TypeOK
    <2>2. /\ TheirRevocationKeys' = [q \in Nodes |-> TheirRevocationKeys'[q]]
          /\ \A q \in Nodes : IsMap(TheirRevocationKeys'[q], RevocationInfo)
        BY <1>5, <1>6, PutFacts DEF TypeOK
    <2> QED BY <1>1, <1>7, <1>8, <1>9, <2>1, <2>2 DEF TypeOK
<1>11. RequestsInv'
    BY <1>1, <1>8 DEF RequestsInv
<1>12. RepliesInv'
    <2>1. Waiting(r) => call[r.from].pc = "revoke"
        BY <1>1 DEF Waiting
    <2> QED BY <1>1, <1>8, <2>1 DEF RepliesInv
<1>13. /\ \A q \in Nodes : Len(MyTransactions[q]) \in Nat /\ State[q] \in Nat
       /\ State'[n] = State[n] + 1
       /\ \A q \in Nodes \ {n} : State'[q] = State[q]
    BY <1>6 DEF TypeOK
<1>14. CallInv'
    <2> SUFFICES ASSUME NEW q \in Nodes PROVE CallInv!(q)'
        BY DEF CallInv
    <2>1. CASE q = n
        BY <1>1, <1>9, <1>13, <2>1 DEF CallInv
    <2>2. CASE q # n
        BY <1>1, <1>9, <1>13, <2>2 DEF CallInv
    <2> QED BY <2>1, <2>2
<1>15. ChannelInv'
    <2> SUFFICES ASSUME NEW q \in open PROVE ChannelInv!(q)'
        BY <1>1 DEF ChannelInv
    <2>1. q \in Nodes
        BY DEF TypeOK
    <2>2. MyTransactions'[q][1] = MyTransactions[q][1]
        BY <1>9, <2>1
    <2>3. State'[q] < Len(MyTransactions'[q])
        BY <1>9, <1>13, <2>1 DEF ChannelInv
    <2> QED BY <1>1, <1>9, <2>2, <2>3 DEF ChannelInv
<1>16. BroadcastInv'
    BY <1>1 DEF BroadcastInv
<1> QED BY <1>9, <1>10, <1>11, <1>12, <1>14, <1>15, <1>16

\* UpdateState gets the key and moves to the next state.
LEMMA StateStep ==
    ASSUME IInv, NEW n \in Nodes, StateUpdated(n)
    PROVE  IInv'
<1> USE DEF IInv, channelVars, countVars
<1>1. PICK m \in net :
        /\ m.type = "RevocationKey" /\ m.to = n /\ Alive(n)
        /\ LET info == NewRevocationInfo(m.key, call[n].unsigned, TheirCoin(n))
           IN TheirRevocationKeys' = [TheirRevocationKeys EXCEPT ![n] =
                  Put(@, call[n].tx.hash, info)]
        /\ State' = [State EXCEPT ![n] = @ + 1]
        /\ net' = DropReplies(n)
        /\ call' = [call EXCEPT ![n] = Idle]
        /\ UNCHANGED <<known, crashed, keys, open, Funder, MyTransactions, TheirTransactions,
                       MyRevocationKeys, broadcast, released, countVars>>
    BY DEF StateUpdated
<1> DEFINE info == NewRevocationInfo(m.key, call[n].unsigned, TheirCoin(n))
<1>2. m.key \in Key \cup {NoKey}
    BY <1>1 DEF TypeOK, Requests, Replies
<1>3. call[n].pc = "revoke"
    BY <1>1 DEF RepliesInv, Alive
<1>4. n \in open /\ State[n] + 1 < Len(MyTransactions[n]) /\ Len(call[n].unsigned.Outputs) = 2
    BY <1>3 DEF CallInv
<1>5. call[n].tx.hash \in Key /\ call[n].unsigned \in Transaction
    <2>1. call[n] \in {Idle} \cup Calls
        BY DEF TypeOK
    <2> HIDE DEF IInv
    <2>2. call[n] # Idle
        BY <1>3 DEF Idle
    <2>3. call[n] \notin [pc : {"open", "update"}, tx : Transaction]
        BY <1>3
    <2>4. call[n] \in [pc : {"revoke"}, tx : Transaction, unsigned : Transaction]
        BY <2>1, <2>2, <2>3 DEF Calls
    <2> QED BY <2>4 DEF Transaction
<1>6. info \in RevocationInfo
    BY <1>2, <1>4, <1>5, InfoFacts DEF TheirCoin
<1> HIDE DEF info
<1>7. TheirRevocationKeys' = [TheirRevocationKeys EXCEPT ![n] = Put(@, call[n].tx.hash, info)]
    BY <1>1 DEF info
<1>8. \A q \in net' : q \in net /\ (q \in Replies => q.to # n)
    BY <1>1, DropFacts
<1>9. TypeOK'
    <2>1. State' \in [Nodes -> Nat] /\ call' \in [Nodes -> {Idle} \cup Calls]
        BY <1>1 DEF TypeOK
    <2>2. /\ TheirRevocationKeys' = [q \in Nodes |-> TheirRevocationKeys'[q]]
          /\ \A q \in Nodes : IsMap(TheirRevocationKeys'[q], RevocationInfo)
        BY <1>5, <1>6, <1>7, PutFacts DEF TypeOK
    <2> QED BY <1>1, <1>8, <2>1, <2>2 DEF TypeOK
<1>10. RequestsInv'
    BY <1>1, <1>8 DEF RequestsInv
<1>11. RepliesInv'
    <2>1. \A q \in Nodes \ {n} : call'[q] = call[q]
        BY <1>1 DEF TypeOK
    <2>2. \A q \in net' : RepliesInv!(q)'
        BY <1>1, <1>8, <2>1, OthersReplies
    <2> QED BY <2>2 DEF RepliesInv
<1>12. /\ State[n] \in Nat /\ State'[n] = State[n] + 1
       /\ \A q \in Nodes \ {n} : State'[q] = State[q] /\ call'[q] = call[q]
       /\ call'[n] = Idle
    BY <1>1 DEF TypeOK
<1>13. CallInv'
    BY <1>1, <1>12 DEF CallInv, Idle
<1>14. ChannelInv'
    BY <1>1, <1>4, <1>12 DEF ChannelInv, TypeOK
<1>15. SignedByPeer' /\ BroadcastInv'
    BY <1>1 DEF SignedByPeer, BroadcastInv
<1> QED BY <1>9, <1>10, <1>11, <1>13, <1>14, <1>15

-----------------------------------------------------------------------------
(* The theorems                                                            *)

\* Initially no channel, no call and no message exists.
LEMMA InitInv == Init => IInv
<1> SUFFICES ASSUME Init PROVE IInv
    OBVIOUS
<1>1. TypeOK
    BY EmptyMap DEF Init, TypeOK
<1>2. SignedByPeer
    BY DEF Init, SignedByPeer
<1>3. RequestsInv /\ RepliesInv /\ ChannelInv /\ BroadcastInv
    BY DEF Init, RequestsInv, RepliesInv, ChannelInv, BroadcastInv
<1>4. CallInv
    BY DEF Init, CallInv, Idle
<1> QED BY <1>1, <1>2, <1>3, <1>4 DEF IInv

\* Every step of the protocol keeps the invariant.
LEMMA StepInv == IInv /\ [Next]_vars => IInv'
<1> SUFFICES ASSUME IInv, [Next]_vars PROVE IInv'
    OBVIOUS
<1>1. ASSUME NEW n \in Nodes, ConnectToPeer(n) PROVE IInv'
    BY <1>1, ConnectStep
<1>2. ASSUME NEW n \in Nodes, CreateChannel(n) PROVE IInv'
    BY <1>2, CreateStep
<1>3. ASSUME NEW n \in Nodes, OpenChannel(n) PROVE IInv'
    BY <1>3, OpenStep
<1>4. ASSUME NEW n \in Nodes, ChannelCreated(n) PROVE IInv'
    BY <1>4, CreatedStep
<1>5. ASSUME NEW n \in Nodes,
             \/ FundingTimesOut(n) \/ CreateChannelFails(n) \/ UpdateStateFails(n)
             \/ RevocationFails(n) \/ GetUpdatedTransactionsPanics(n)
      PROVE IInv'
    BY <1>5, FailureStep
<1>6. ASSUME NEW n \in Nodes, UpdateState(n) PROVE IInv'
    BY <1>6, UpdateStep
<1>7. ASSUME NEW n \in Nodes, GetUpdatedTransactions(n) PROVE IInv'
    BY <1>7, UpdatedStep
<1>8. ASSUME NEW n \in Nodes, SendRevocationKey(n) PROVE IInv'
    BY <1>8, SendStep
<1>9. ASSUME NEW n \in Nodes, GetRevocationKey(n) PROVE IInv'
    BY <1>9, RevokeStep
<1>10. ASSUME NEW n \in Nodes, StateUpdated(n) PROVE IInv'
    BY <1>10, StateStep
<1>11. CASE UNCHANGED vars
    BY <1>11 DEF vars, channelVars, countVars, IInv, TypeOK, SignedByPeer, RequestsInv,
                 RepliesInv, CallInv, ChannelInv, BroadcastInv
<1> QED
    BY <1>1, <1>2, <1>3, <1>4, <1>5, <1>6, <1>7, <1>8, <1>9, <1>10, <1>11 DEF Next

\* The inductive invariant holds in every reachable state.
THEOREM Invariance == Spec => []IInv
BY InitInv, StepInv, PTL DEF Spec

\* Every variable keeps its type; in particular no output amount and no state
\* number ever leaves the naturals (UpdateState, GetRevocationKey).
THEOREM TypeCorrect == Spec => []TypeOK
<1>1. IInv => TypeOK
    BY DEF IInv
<1> QED BY <1>1, Invariance, PTL

\* Whatever is lost, late or concurrent, a node's own transactions are all
\* signed by its counterparty (UpdateState, GetRevocationKey, OpenChannel).
THEOREM OwnTransactionsSigned == Spec => []SignedByPeer
<1>1. IInv => SignedByPeer
    BY DEF IInv
<1> QED BY <1>1, Invariance, PTL

\* MyTransactions[State] never runs out of the slice.
THEOREM StateIndexInRange == Spec => []StateInRange
<1>1. IInv => StateInRange
    BY DEF IInv, ChannelInv, StateInRange
<1> QED BY <1>1, Invariance, PTL

\* CreateChannel broadcasts a funding transaction only with its refund in hand,
\* signed by both sides.
THEOREM FundingIsRefundable == Spec => []RefundBeforeFunding
<1>1. IInv => RefundBeforeFunding
    <2> SUFFICES ASSUME IInv, NEW n \in broadcast
                 PROVE  MyTransactions[n] # <<>> /\ MyTransactions[n][1].Witnesses = Nodes
        BY DEF RefundBeforeFunding
    <2>1. n \in open /\ n \in Nodes
        BY DEF IInv, BroadcastInv, TypeOK
    <2>2. State[n] \in Nat /\ State[n] < Len(MyTransactions[n])
        BY <2>1 DEF IInv, TypeOK, ChannelInv
    <2> QED BY <2>1, <2>2 DEF IInv, ChannelInv
<1> QED BY <1>1, Invariance, PTL

\* GetUpdatedTransactions and GetRevocationKey always find the caller.
THEOREM CallersAreKnown == Spec => []PeersFound
<1>1. IInv => PeersFound
    BY DEF IInv, RequestsInv, PeersFound
<1> QED BY <1>1, Invariance, PTL

-----------------------------------------------------------------------------
(* Channels opened from one side                                           *)

\* At most one node's user calls CreateChannel.
OneOpener == \A m, n \in Openers : m = n

-----------------------------------------------------------------------------
(* The channel that is opened from one side: the inductive invariant       *)

\* Requests to open a channel come from the opener; a side that has the
\* channel knows its role, and the opener has it only if the other side does.
OpenersInv ==
    /\ \A n \in Nodes : call[n].pc = "open" => n \in Openers
    /\ \A m \in net : m.type = "OpenChannel" => m.from \in Openers
    /\ \A m \in net : m.type = "OpenChannelResponse" =>
          m.to \in Openers /\ m.to \notin open /\ Peer(m.to) \in open
    /\ \A n \in open :
          /\ n \in Openers => Peer(n) \in open
          /\ n \notin Openers => Peer(n) \in Openers
          /\ Funder[n] <=> n \in Openers
    /\ \A n \in Nodes \ open : MyTransactions[n] = <<>>

\* Message m carries the version t of an update that is meant for p.
Carries(m, p, t) ==
    \/ m.type = "GetUpdatedTransactions" /\ m.from = p /\ t = m.tx
    \/ m.type = "GetRevocationKey" /\ m.from = Peer(p) /\ t = m.tx
    \/ m.type = "UpdatedTransactions" /\ m.to = p /\ t = m.signed
    \/ m.type = "UpdatedTransactions" /\ m.to = Peer(p) /\ t = m.unsigned

\* The versions of p anybody holds: p's transactions but the refund, the
\* messages in flight and the two clients' calls.
Versions(p) ==
    {MyTransactions[p][i] : i \in 2..Len(MyTransactions[p])}
    \cup {m.tx : m \in {r \in net : \/ r.type = "GetUpdatedTransactions" /\ r.from = p
                                    \/ r.type = "GetRevocationKey" /\ r.from = Peer(p)}}
    \cup {m.signed : m \in {r \in net : r.type = "UpdatedTransactions" /\ r.to = p}}
    \cup {m.unsigned : m \in {r \in net : r.type = "UpdatedTransactions" /\ r.to = Peer(p)}}
    \cup {c.tx : c \in {d \in {call[p]} : d.pc \in {"update", "revoke"}}}
    \cup {c.unsigned : c \in {d \in {call[Peer(p)]} : d.pc = "revoke"}}

\* The key was generated.
Used(k) == k.num <= keys[k.owner]

\* The output that pays n: the funder's comes first.
CoinOf(n) == IF n \in Openers THEN 1 ELSE 2

\* A version of p is built around a key of p, splits the capacity, and its
\* output for p, and only that, carries p's key; the version p built as the
\* peer of an initiator has a script that key opens, and p can look it up.
Shape(t, p) ==
    /\ p \in open
    /\ t.hash.owner = p /\ Used(t.hash) /\ Used(t.update)
    /\ t.update.owner = p => t.update = t.hash
    /\ t.Outputs[1].Amount + t.Outputs[2].Amount = Amount
    /\ t.Outputs[CoinOf(p)].RevocationKey = t.hash
    /\ t.Outputs[3 - CoinOf(p)].RevocationKey = NoKey
    /\ t.update # t.hash =>
          /\ t.Outputs[CoinOf(p)].ScriptType = "MULTI"
          /\ t.hash \in DOMAIN MyRevocationKeys[p] /\ MyRevocationKeys[p][t.hash] = t.hash

ShapeInv == \A p \in Nodes : \A t \in Versions(p) : Shape(t, p)

SameAmounts(s, t) == \A x \in 1..2 : s.Outputs[x].Amount = t.Outputs[x].Amount

\* Versions of one update pay the same, and a hash belongs to one update.
AgreeInv ==
    \A p, q \in Nodes : \A s \in Versions(p), t \in Versions(q) :
        /\ s.update = t.update => SameAmounts(s, t)
        /\ s.hash = t.hash => s.update = t.update

\* An update is named after its initiator's key wherever it is under way, a
\* request is the one its caller waits for if it has its number, and the key
\* in an answer is the one of the version the caller asked about.
RolesInv ==
    /\ \A m \in net :
         /\ m.type = "GetUpdatedTransactions" => m.tx.update.owner = m.from
         /\ m.type = "GetRevocationKey" =>
               /\ m.tx.update.owner = m.from
               /\ Used(m.id) /\ m.id.owner = m.from
               /\ call[m.from].pc = "update" => call[m.from].tx.hash # m.id
               /\ call[m.from].pc = "revoke" /\ call[m.from].tx.hash = m.id =>
                     m.tx = call[m.from].unsigned
         /\ m.type = "UpdatedTransactions" =>
               m.signed.update.owner = m.to /\ m.unsigned.update.owner = m.to
         /\ m.type = "RevocationKey" /\ m.to \notin crashed => m.key = call[m.to].unsigned.hash
    /\ \A n \in Nodes :
         /\ call[n].pc \in {"update", "revoke"} => call[n].tx.update.owner = n
         /\ call[n].pc = "revoke" => call[n].unsigned.update.owner = n

\* The refunds anybody holds.
Refunds ==
    {m.refund : m \in {r \in net : r.type \in {"OpenChannel", "OpenChannelResponse"}}}
    \cup {MyTransactions[n][1] : n \in open}

\* A refund is no version of an update, and nothing is filed under it.
RefundInv ==
    \A f \in Refunds :
        /\ Used(f.hash)
        /\ \A p \in Nodes : /\ f.hash \notin DOMAIN TheirRevocationKeys[p]
                            /\ \A t \in Versions(p) : t.hash # f.hash

\* What is filed under a hash can be claimed, or the hash is not the one of an
\* initiator's version.
FiledInv ==
    \A n \in Nodes : \A h \in DOMAIN TheirRevocationKeys[n] :
        /\ Used(h)
        /\ \/ RevKeySuccessful(TheirRevocationKeys[n][h])
           \/ \A p \in Nodes : \A t \in Versions(p) : t.hash = h => t.update # h

JInv == OpenersInv /\ ShapeInv /\ AgreeInv /\ RolesInv /\ RefundInv /\ FiledInv

-----------------------------------------------------------------------------
(* Versions                                                                *)

\* Where a version is.
IsVersion(t, p) ==
    \/ \E i \in 2..Len(MyTransactions[p]) : t = MyTransactions[p][i]
    \/ \E m \in net : Carries(m, p, t)
    \/ call[p].pc \in {"update", "revoke"} /\ t = call[p].tx
    \/ call[Peer(p)].pc = "revoke" /\ t = call[Peer(p)].unsigned

\* The set of versions and the places they are found in, before and after a step.
LEMMA VersionsAre ==
    ASSUME NEW p, NEW t
    PROVE  /\ t \in Versions(p) <=> IsVersion(t, p)
           /\ t \in Versions(p)' <=> IsVersion(t, p)'
<1>1. t \in Versions(p) <=> IsVersion(t, p)
    BY DEF Versions, IsVersion, Carries
<1>2. t \in Versions(p)' <=> IsVersion(t, p)'
    BY DEF Versions, IsVersion, Carries
<1> QED BY <1>1, <1>2

\* A version is a transaction.
LEMMA VersionTypes ==
    ASSUME TypeOK, NEW p \in Nodes, NEW t \in Versions(p)
    PROVE  t \in Transaction /\ t.hash \in Key /\ t.update \in Key
<1>1. IsVersion(t, p)
    BY VersionsAre
<1>2. CASE \E i \in 2..Len(MyTransactions[p]) : t = MyTransactions[p][i]
    <2>1. PICK i \in 2..Len(MyTransactions[p]) : t = MyTransactions[p][i]
        BY <1>2
    <2>2. MyTransactions[p] \in Seq(Transaction)
        BY DEF TypeOK
    <2>3. t \in Transaction
        BY <2>1, <2>2
    <2> QED BY <2>3 DEF Transaction
<1>3. CASE \E m \in net : Carries(m, p, t)
    <2>1. PICK m \in net : Carries(m, p, t)
        BY <1>3
    <2>2. m \in Requests \cup Replies
        BY DEF TypeOK
    <2>3. t \in Transaction
        BY <2>1, <2>2 DEF Carries, Requests, Replies
    <2> QED BY <2>3 DEF Transaction
<1>4. CASE call[p].pc \in {"update", "revoke"} /\ t = call[p].tx
    <2>1. call[p] \in {Idle} \cup Calls
        BY DEF TypeOK
    <2>2. t \in Transaction
        BY <1>4, <2>1 DEF Idle, Calls
    <2> QED BY <2>2 DEF Transaction
<1>5. CASE call[Peer(p)].pc = "revoke" /\ t = call[Peer(p)].unsigned
    <2>1. call[Peer(p)] \in {Idle} \cup Calls
        BY PeerFacts DEF TypeOK
    <2>2. t \in Transaction
        BY <1>5, <2>1 DEF Idle, Calls
    <2> QED BY <2>2 DEF Transaction
<1> QED BY <1>1, <1>2, <1>3, <1>4, <1>5 DEF IsVersion

\* What the invariant sees of a version.
SameView(s, t) == s.hash = t.hash /\ s.update = t.update /\ s.Outputs = t.Outputs

\* A generated key stays one.
LEMMA UsedStays ==
    ASSUME TypeOK, TypeOK', \A q \in Nodes : keys[q] <= keys'[q], NEW k \in Key, Used(k)
    PROVE  Used(k)'
BY DEF TypeOK, Used, Key

\* A step that carries versions along and builds at most one new one, in T,
\* for p0 around a fresh key, keeps the shapes and the agreement.
LEMMA ShapesCarry ==
    ASSUME TypeOK, TypeOK', ShapeInv, AgreeInv,
           NEW p0, NEW T,
           \A p \in Nodes : \A t \in Versions(p)' :
               \/ \E s \in Versions(p) : SameView(s, t)
               \/ p = p0 /\ t \in T,
           \A s, t \in T : s = t,
           \A t \in T : /\ Shape(t, p0)' /\ ~Used(t.hash)
                        /\ \A p \in Nodes : \A s \in Versions(p) :
                               s.update = t.update => SameAmounts(s, t),
           \A q \in Nodes : keys[q] <= keys'[q],
           open \subseteq open',
           \A n \in open : \A h \in DOMAIN MyRevocationKeys[n] :
               Used(h) => /\ h \in DOMAIN MyRevocationKeys'[n]
                          /\ MyRevocationKeys'[n][h] = MyRevocationKeys[n][h]
    PROVE  ShapeInv' /\ AgreeInv'
<1>1. ShapeInv'
    <2> SUFFICES ASSUME NEW p \in Nodes, NEW t \in Versions(p)' PROVE Shape(t, p)'
        BY DEF ShapeInv, Nodes
    <2>1. CASE p = p0 /\ t \in T
        BY <2>1
    <2>2. ASSUME NEW s \in Versions(p), SameView(s, t) PROVE Shape(t, p)'
        <3>1. Shape(s, p) /\ s.hash \in Key /\ s.update \in Key
            BY VersionTypes DEF ShapeInv
        <3>2. Used(s.hash)' /\ Used(s.update)'
            BY <3>1, UsedStays DEF Shape
        <3>3. t.update # t.hash =>
                 /\ t.hash \in DOMAIN MyRevocationKeys'[p]
                 /\ MyRevocationKeys'[p][t.hash] = t.hash
            BY <2>2, <3>1 DEF Shape, SameView
        <3>4. Used(t.hash)' /\ Used(t.update)'
            BY <2>2, <3>2 DEF SameView
        <3>5. p \in open'
            BY <3>1 DEF Shape
        <3> QED BY <2>2, <3>1, <3>3, <3>4, <3>5 DEF Shape, SameView
    <2> QED BY <2>1, <2>2
<1>2. AgreeInv'
    <2> SUFFICES ASSUME NEW p \in Nodes, NEW q \in Nodes,
                        NEW s \in Versions(p)', NEW t \in Versions(q)'
                 PROVE  /\ s.update = t.update => SameAmounts(s, t)
                        /\ s.hash = t.hash => s.update = t.update
        BY DEF AgreeInv, SameAmounts
    <2>1. \A t0 \in T : \A r \in Nodes : \A u \in Versions(r) : u.hash # t0.hash
        BY DEF ShapeInv, Shape
    <2>2. CASE s \in T /\ t \in T
        BY <2>2 DEF SameAmounts
    <2>3. ASSUME NEW s1 \in Versions(p), SameView(s1, s), t \in T
          PROVE  /\ s.update = t.update => SameAmounts(s, t)
                 /\ s.hash # t.hash
        BY <2>1, <2>3 DEF SameView, SameAmounts
    <2>4. ASSUME NEW t1 \in Versions(q), SameView(t1, t), s \in T
          PROVE  /\ s.update = t.update => SameAmounts(s, t)
                 /\ s.hash # t.hash
        BY <2>1, <2>4 DEF SameView, SameAmounts
    <2>5. ASSUME NEW s1 \in Versions(p), SameView(s1, s),
                 NEW t1 \in Versions(q), SameView(t1, t)
          PROVE  /\ s.update = t.update => SameAmounts(s, t)
                 /\ s.hash = t.hash => s.update = t.update
        BY <2>5 DEF SameView, SameAmounts, AgreeInv
    <2> QED BY <2>2, <2>3, <2>4, <2>5
<1> QED BY <1>1, <1>2

\* In particular when it builds none.
LEMMA ShapesStay ==
    ASSUME TypeOK, TypeOK', ShapeInv, AgreeInv,
           \A p \in Nodes : \A t \in Versions(p)' : \E s \in Versions(p) : SameView(s, t),
           \A q \in Nodes : keys[q] <= keys'[q],
           open \subseteq open',
           \A n \in open : \A h \in DOMAIN MyRevocationKeys[n] :
               /\ h \in DOMAIN MyRevocationKeys'[n]
               /\ MyRevocationKeys'[n][h] = MyRevocationKeys[n][h]
    PROVE  ShapeInv' /\ AgreeInv'
<1>1. PICK p0, T : T = {} /\ p0 = {}
    OBVIOUS
<1>2. /\ \A p \in Nodes : \A t \in Versions(p)' :
            (\E s \in Versions(p) : SameView(s, t)) \/ (p = p0 /\ t \in T)
      /\ \A s, t \in T : s = t
      /\ \A t \in T : /\ Shape(t, p0)' /\ ~Used(t.hash)
                      /\ \A p \in Nodes : \A s \in Versions(p) :
                             s.update = t.update => SameAmounts(s, t)
    BY <1>1
<1>3. \A n \in open : \A h \in DOMAIN MyRevocationKeys[n] :
          Used(h) => /\ h \in DOMAIN MyRevocationKeys'[n]
                     /\ MyRevocationKeys'[n][h] = MyRevocationKeys[n][h]
    OBVIOUS
<1> QED BY <1>2, <1>3, ShapesCarry

\* A refund is a transaction.
LEMMA RefundTypes ==
    ASSUME IInv, NEW f \in Refunds
    PROVE  f \in Transaction /\ f.hash \in Key
<1>1. CASE \E m \in net : m.type \in {"OpenChannel", "OpenChannelResponse"} /\ f = m.refund
    <2>1. PICK m \in net : m.type \in {"OpenChannel", "OpenChannelResponse"} /\ f = m.refund
        BY <1>1
    <2>2. m \in Requests \cup Replies
        BY DEF IInv, TypeOK
    <2>3. f \in Transaction
        BY <2>1, <2>2 DEF Requests, Replies
    <2> QED BY <2>3 DEF Transaction
<1>2. CASE \E n \in open : f = MyTransactions[n][1]
    <2>1. PICK n \in open : f = MyTransactions[n][1]
        BY <1>2
    <2>2. /\ MyTransactions[n] \in Seq(Transaction) /\ State[n] \in Nat
          /\ State[n] < Len(MyTransactions[n])
        BY DEF IInv, TypeOK, ChannelInv
    <2>3. f \in Transaction
        BY <2>1, <2>2
    <2> QED BY <2>3 DEF Transaction
<1> QED BY <1>1, <1>2 DEF Refunds

\* The same for the refunds and what is filed.
LEMMA FilesCarry ==
    ASSUME IInv, TypeOK', ShapeInv, AgreeInv, RefundInv, FiledInv,
           NEW p0, NEW T,
           \A p \in Nodes : \A t \in Versions(p)' :
               \/ \E s \in Versions(p) : SameView(s, t)
               \/ p = p0 /\ t \in T,
           \A t \in T : ~Used(t.hash),
           \A q \in Nodes : keys[q] <= keys'[q],
           \A f \in Refunds' :
               \/ \E g \in Refunds : g.hash = f.hash
               \/ T = {} /\ ~Used(f.hash) /\ Used(f.hash)',
           \A n \in Nodes : \A h \in DOMAIN TheirRevocationKeys'[n] :
               \/ /\ h \in DOMAIN TheirRevocationKeys[n]
                  /\ TheirRevocationKeys'[n][h] = TheirRevocationKeys[n][h]
               \/ \E p \in Nodes : \E s \in Versions(p) :
                     /\ s.hash = h
                     /\ RevKeySuccessful(TheirRevocationKeys'[n][h]) \/ s.update # h
    PROVE  RefundInv' /\ FiledInv'
<1> TypeOK
    BY DEF IInv
<1>1. \A p \in Nodes : \A s \in Versions(p) : Used(s.hash) /\ s.hash \in Key
    BY VersionTypes DEF ShapeInv, Shape
<1>2. \A n \in Nodes : \A h \in DOMAIN TheirRevocationKeys[n] : Used(h) /\ h \in Key
    BY DEF FiledInv, TypeOK, IsMap
<1>3. \A n \in Nodes : \A h \in DOMAIN TheirRevocationKeys'[n] : Used(h) /\ h \in Key
    BY <1>1, <1>2
<1>4. RefundInv'
    <2> SUFFICES ASSUME NEW f \in Refunds', NEW p \in Nodes
                 PROVE  /\ Used(f.hash)'
                        /\ f.hash \notin DOMAIN TheirRevocationKeys'[p]
                        /\ \A t \in Versions(p)' : t.hash # f.hash
        BY DEF RefundInv, Nodes
    <2>1. CASE T = {} /\ ~Used(f.hash) /\ Used(f.hash)'
        BY <1>1, <1>3, <2>1 DEF SameView
    <2>2. ASSUME NEW g \in Refunds, g.hash = f.hash
          PROVE  /\ Used(f.hash)'
                 /\ f.hash \notin DOMAIN TheirRevocationKeys'[p]
                 /\ \A t \in Versions(p)' : t.hash # f.hash
        <3>1. Used(g.hash) /\ g.hash \in Key
            BY RefundTypes DEF RefundInv
        <3>2. Used(f.hash)'
            BY <2>2, <3>1, UsedStays
        <3>3. f.hash \notin DOMAIN TheirRevocationKeys'[p]
            BY <2>2 DEF RefundInv
        <3>4. \A t \in Versions(p)' : t.hash # f.hash
            BY <2>2, <3>1 DEF RefundInv, SameView
        <3> QED BY <3>2, <3>3, <3>4
    <2> QED BY <2>1, <2>2
<1>5. FiledInv'
    <2> SUFFICES ASSUME NEW n \in Nodes, NEW h \in DOMAIN TheirRevocationKeys'[n]
                 PROVE  /\ Used(h)'
                        /\ \/ RevKeySuccessful(TheirRevocationKeys'[n][h])
                           \/ \A p \in Nodes : \A t \in Versions(p)' : t.hash = h => t.update # h
        BY DEF FiledInv, Nodes, RevKeySuccessful
    <2>1. Used(h) /\ h \in Key
        BY <1>3
    <2>2. Used(h)'
        BY <2>1, UsedStays
    <2>3. CASE /\ h \in DOMAIN TheirRevocationKeys[n]
               /\ TheirRevocationKeys'[n][h] = TheirRevocationKeys[n][h]
        <3>1. \/ RevKeySuccessful(TheirRevocationKeys[n][h])
              \/ \A p \in Nodes : \A t \in Versions(p) : t.hash = h => t.update # h
            BY <2>3 DEF FiledInv
        <3> QED BY <2>1, <2>2, <2>3, <3>1 DEF SameView
    <2>4. ASSUME NEW q \in Nodes, NEW s \in Versions(q), s.hash = h, s.update # h
          PROVE  \A p \in Nodes : \A t \in Versions(p)' : t.hash = h => t.update # h
        BY <2>1, <2>4 DEF AgreeInv, SameView
    <2> QED BY <2>2, <2>3, <2>4
<1> QED BY <1>4, <1>5

\* In particular when no version is built.
LEMMA FilesStay ==
    ASSUME IInv, TypeOK', ShapeInv, AgreeInv, RefundInv, FiledInv,
           \A p \in Nodes : \A t \in Versions(p)' : \E s \in Versions(p) : SameView(s, t),
           \A q \in Nodes : keys[q] <= keys'[q],
           \A f \in Refunds' :
               \/ \E g \in Refunds : g.hash = f.hash
               \/ ~Used(f.hash) /\ Used(f.hash)',
           \A n \in Nodes : \A h \in DOMAIN TheirRevocationKeys'[n] :
               \/ /\ h \in DOMAIN TheirRevocationKeys[n]
                  /\ TheirRevocationKeys'[n][h] = TheirRevocationKeys[n][h]
               \/ \E p \in Nodes : \E s \in Versions(p) :
                     /\ s.hash = h
                     /\ RevKeySuccessful(TheirRevocationKeys'[n][h]) \/ s.update # h
    PROVE  RefundInv' /\ FiledInv'
<1>1. PICK p0, T : T = {} /\ p0 = {}
    OBVIOUS
<1>2. /\ \A p \in Nodes : \A t \in Versions(p)' :
            (\E s \in Versions(p) : SameView(s, t)) \/ (p = p0 /\ t \in T)
      /\ \A t \in T : ~Used(t.hash)
      /\ \A f \in Refunds' :
            \/ \E g \in Refunds : g.hash = f.hash
            \/ T = {} /\ ~Used(f.hash) /\ Used(f.hash)'
    BY <1>1
<1> QED BY <1>2, FilesCarry

\* A step that neither sends a version nor files a transaction.
LEMMA NoNewVersions ==
    ASSUME TypeOK,
           \A m \in net' : m \in net \/ m.type \in {"OpenChannel", "OpenChannelResponse",
                                                    "Error", "RevocationKey"},
           \A q \in Nodes : call'[q] = call[q] \/ call'[q].pc \in {"idle", "open"},
           \A q \in Nodes : \A i \in 2..Len(MyTransactions'[q]) :
               i \in 2..Len(MyTransactions[q]) /\ MyTransactions'[q][i] = MyTransactions[q][i]
    PROVE  \A p \in Nodes : \A t \in Versions(p)' : t \in Versions(p)
<1> SUFFICES ASSUME NEW p \in Nodes, NEW t, IsVersion(t, p)' PROVE IsVersion(t, p)
    BY VersionsAre
<1>1. Peer(p) \in Nodes
    BY PeerFacts
<1>2. CASE \E i \in 2..Len(MyTransactions'[p]) : t = MyTransactions'[p][i]
    BY <1>2 DEF IsVersion
<1>3. CASE \E m \in net' : Carries(m, p, t)
    BY <1>3 DEF IsVersion, Carries
<1>4. CASE call'[p].pc \in {"update", "revoke"} /\ t = call'[p].tx
    BY <1>4 DEF IsVersion
<1>5. CASE call'[Peer(p)].pc = "revoke" /\ t = call'[Peer(p)].unsigned
    BY <1>1, <1>5 DEF IsVersion
<1> QED BY <1>2, <1>3, <1>4, <1>5 DEF IsVersion, Carries, Peer

\* Nobody's roles change when no message of an update is sent and calls only
\* end, or begin to open a channel.
LEMMA RolesStay ==
    ASSUME IInv, TypeOK', RolesInv,
           \A m \in net' : m \in net \/ m.type \in {"OpenChannel", "OpenChannelResponse", "Error"},
           \A q \in Nodes :
               \/ call'[q] = call[q]
               \/ /\ call'[q].pc \in {"idle", "open"}
                  /\ q \in crashed' \/ \A m \in net' : m.type = "RevocationKey" => m.to # q,
           crashed \subseteq crashed',
           \A q \in Nodes : keys[q] <= keys'[q]
    PROVE  RolesInv'
<1> TypeOK
    BY DEF IInv
<1>1. \A q \in Nodes :
         /\ call'[q].pc \in {"update", "revoke"} => call'[q].tx.update.owner = q
         /\ call'[q].pc = "revoke" => call'[q].unsigned.update.owner = q
    BY DEF RolesInv
<1>2. ASSUME NEW m \in net' PROVE RolesInv!1!(m)'
    <2>1. CASE m.type = "GetUpdatedTransactions"
        BY <2>1 DEF RolesInv
    <2>2. CASE m.type = "GetRevocationKey"
        <3>1. m \in net /\ m.from \in Nodes /\ m.id \in Key
            BY <2>2 DEF TypeOK, Requests, Replies
        <3>2. Used(m.id)'
            BY <2>2, <3>1, UsedStays DEF RolesInv
        <3> QED BY <2>2, <3>1, <3>2 DEF RolesInv
    <2>3. CASE m.type = "UpdatedTransactions"
        BY <2>3 DEF RolesInv
    <2>4. CASE m.type = "RevocationKey"
        <3>1. m \in net /\ m.to \in Nodes
            BY <2>4 DEF TypeOK, Requests, Replies
        <3> QED BY <2>4, <3>1 DEF RolesInv
    <2> QED BY <2>1, <2>2, <2>3, <2>4
<1> QED BY <1>1, <1>2 DEF RolesInv

\* The refunds stay when no channel is opened.
LEMMA RefundsStay ==
    ASSUME \A m \in net' : m \in net \/ m.type \notin {"OpenChannel", "OpenChannelResponse"},
           \A n \in open' : n \in open /\ MyTransactions'[n][1] = MyTransactions[n][1]
    PROVE  Refunds' \subseteq Refunds
BY DEF Refunds

-----------------------------------------------------------------------------
(* Every step keeps the invariant                                          *)

\* Steps that leave the channels alone: a node learns of its peer, a call ends
\* or dies, a request is refused.
LEMMA BystanderStep ==
    ASSUME IInv, IInv', JInv, UNCHANGED <<keys, channelVars>>,
           \A m \in net' : m \in net \/ m.type = "Error",
           \A q \in Nodes :
               \/ call'[q] = call[q]
               \/ /\ call'[q] = Idle
                  /\ q \in crashed' \/ \A m \in net' : m \in Replies => m.to # q,
           crashed \subseteq crashed'
    PROVE  JInv'
<1> USE DEF channelVars
<1> TypeOK /\ TypeOK'
    BY DEF IInv
<1>1. \A q \in Nodes : keys[q] \in Nat /\ keys[q] <= keys'[q]
    BY DEF TypeOK
<1>2. \A p \in Nodes : \A t \in Versions(p)' : t \in Versions(p)
    <2>1. \A q \in Nodes : call'[q] = call[q] \/ call'[q].pc \in {"idle", "open"}
        BY DEF Idle
    <2> QED BY <2>1, NoNewVersions
<1>3. ShapeInv' /\ AgreeInv'
    BY <1>1, <1>2, ShapesStay DEF JInv, SameView
<1>4. RolesInv'
    <2>1. \A m \in net' : m.type = "RevocationKey" => m \in Replies
        BY DEF TypeOK, Requests
    <2>2. \A q \in Nodes : \/ call'[q] = call[q]
                           \/ /\ call'[q].pc \in {"idle", "open"}
                              /\ \/ q \in crashed'
                                 \/ \A m \in net' : m.type = "RevocationKey" => m.to # q
        BY <2>1 DEF Idle
    <2> QED BY <1>1, <2>2, RolesStay DEF JInv
<1>5. Refunds' \subseteq Refunds
    BY RefundsStay
<1>6. RefundInv' /\ FiledInv'
    BY <1>1, <1>2, <1>5, FilesStay DEF JInv, SameView
<1>7. OpenersInv'
    BY DEF JInv, OpenersInv, Idle
<1> QED BY <1>3, <1>4, <1>6, <1>7 DEF JInv

\* Those steps.
LEMMA BystanderSteps ==
    ASSUME IInv, IInv', JInv, NEW n \in Nodes,
           \/ ConnectToPeer(n) \/ FundingTimesOut(n) \/ CreateChannelFails(n)
           \/ UpdateStateFails(n) \/ RevocationFails(n) \/ GetUpdatedTransactionsPanics(n)
    PROVE  JInv'
<1>1. CASE ConnectToPeer(n)
    BY <1>1, BystanderStep DEF ConnectToPeer
<1>2. \A q \in Nodes : call' = [call EXCEPT ![n] = Idle] =>
          (call'[q] = call[q] \/ (call'[q] = Idle /\ q = n))
    BY DEF IInv, TypeOK
<1>3. CASE FundingTimesOut(n)
    BY <1>2, <1>3, BystanderStep DEF FundingTimesOut, Crash
<1>4. CASE CreateChannelFails(n)
    BY <1>2, <1>4, BystanderStep, DropFacts DEF CreateChannelFails
<1>5. CASE UpdateStateFails(n)
    BY <1>2, <1>5, BystanderStep, DropFacts DEF UpdateStateFails, Crash
<1>6. CASE RevocationFails(n)
    BY <1>2, <1>6, BystanderStep, DropFacts DEF RevocationFails
<1>7. CASE GetUpdatedTransactionsPanics(n)
    BY <1>2, <1>7, BystanderStep DEF GetUpdatedTransactionsPanics, Crash
<1> QED BY <1>1, <1>3, <1>4, <1>5, <1>6, <1>7

\* The next key is new, and counts as generated once the counter moved.
LEMMA FreshKey ==
    ASSUME TypeOK, NEW n \in Nodes, NEW k, k = GenerateRevocationKey(n),
           keys' = [keys EXCEPT ![n] = @ + 1]
    PROVE  /\ k \in Key /\ k.owner = n /\ ~Used(k) /\ Used(k)'
           /\ \A q \in Nodes : keys[q] <= keys'[q]
BY DEF TypeOK, GenerateRevocationKey, Key, Used

\* CreateChannel sends its request.
LEMMA CreateChannelStep ==
    ASSUME IInv, IInv', JInv, NEW n \in Nodes, CreateChannel(n)
    PROVE  JInv'
<1> USE DEF channelVars
<1> TypeOK /\ TypeOK'
    BY DEF IInv
<1>1. PICK k : k = GenerateRevocationKey(n)
    OBVIOUS
<1>2. PICK change \in Changes :
        LET refund == generateRefundTransaction(n, change, k)
        IN /\ keys' = [keys EXCEPT ![n] = @ + 1]
           /\ call' = [call EXCEPT ![n] = [pc |-> "open", tx |-> refund]]
           /\ net' = net \cup {[type |-> "OpenChannel", from |-> n, id |-> k,
                                refund |-> refund]}
    BY <1>1 DEF CreateChannel
<1> DEFINE refund == generateRefundTransaction(n, change, k)
           req == [type |-> "OpenChannel", from |-> n, id |-> k, refund |-> refund]
<1>3. /\ k \in Key /\ ~Used(k) /\ Used(k)'
      /\ \A q \in Nodes : keys[q] <= keys'[q]
    BY <1>1, <1>2, FreshKey
<1>4. refund.hash = k
    BY <1>3, RefundFacts
<1>5. call' = [call EXCEPT ![n] = [pc |-> "open", tx |-> refund]] /\ net' = net \cup {req}
    BY <1>2
<1> HIDE DEF refund
<1>6. /\ \A m \in net' : m \in net \/ m.type = "OpenChannel"
      /\ \A q \in Nodes : call'[q] = call[q] \/ (q = n /\ call'[q].pc = "open")
    BY <1>5 DEF TypeOK
<1>7. \A p \in Nodes : \A t \in Versions(p)' : t \in Versions(p)
    BY <1>6, NoNewVersions DEF CreateChannel
<1>8. ShapeInv' /\ AgreeInv'
    BY <1>3, <1>7, ShapesStay DEF JInv, SameView, CreateChannel
<1>9. RolesInv'
    <2>1. n \notin crashed /\ call[n].pc # "revoke"
        BY DEF CreateChannel, Free, Alive, Idle
    <2>2. \A m \in net' : m.type = "RevocationKey" => m.to # n
        BY <1>6, <2>1 DEF IInv, RepliesInv
    <2> QED BY <1>3, <1>6, <2>2, RolesStay DEF JInv, CreateChannel
<1>10. \A f \in Refunds' : f \in Refunds \/ f = refund
    <2>1. MyTransactions' = MyTransactions /\ open' = open
        BY DEF CreateChannel
    <2> QED BY <1>5, <2>1 DEF Refunds
<1>11. \A f \in Refunds' : f \in Refunds \/ (~Used(f.hash) /\ Used(f.hash)')
    BY <1>3, <1>4, <1>10
<1>12. RefundInv' /\ FiledInv'
    BY <1>3, <1>7, <1>11, FilesStay DEF JInv, SameView, CreateChannel
<1>13. OpenersInv'
    BY <1>5, <1>6 DEF JInv, OpenersInv, CreateChannel
<1> QED BY <1>8, <1>9, <1>12, <1>13 DEF JInv

\* What NewChannel changes, when n had no channel.
LEMMA NewChannelFacts ==
    ASSUME TypeOK, NEW n \in Nodes, n \notin open, NEW refund, NEW f,
           open' = open \cup {n},
           MyTransactions' = [MyTransactions EXCEPT ![n] = <<refund>>],
           MyRevocationKeys' = [MyRevocationKeys EXCEPT ![n] = f],
           TheirRevocationKeys' = [TheirRevocationKeys EXCEPT ![n] = <<>>]
    PROVE  /\ MyTransactions'[n] = <<refund>>
           /\ \A q \in Nodes \ {n} : MyTransactions'[q] = MyTransactions[q]
           /\ \A q \in open' : q # n => q \in open /\ MyTransactions'[q] = MyTransactions[q]
           /\ MyTransactions'[n][1] = refund
           /\ \A q \in Nodes : \A i \in 2..Len(MyTransactions'[q]) :
                 i \in 2..Len(MyTransactions[q]) /\ MyTransactions'[q][i] = MyTransactions[q][i]
           /\ \A q \in Nodes : \A h \in DOMAIN TheirRevocationKeys'[q] :
                 /\ h \in DOMAIN TheirRevocationKeys[q]
                 /\ TheirRevocationKeys'[q][h] = TheirRevocationKeys[q][h]
           /\ \A q \in open : \A h \in DOMAIN MyRevocationKeys[q] :
                 /\ h \in DOMAIN MyRevocationKeys'[q]
                 /\ MyRevocationKeys'[q][h] = MyRevocationKeys[q][h]
<1>1. /\ MyTransactions'[n] = <<refund>>
      /\ TheirRevocationKeys'[n] = <<>>
      /\ \A q \in Nodes \ {n} :
            /\ MyTransactions'[q] = MyTransactions[q]
            /\ MyRevocationKeys'[q] = MyRevocationKeys[q]
            /\ TheirRevocationKeys'[q] = TheirRevocationKeys[q]
    BY DEF TypeOK
<1>2. Len(<<refund>>) = 1 /\ <<refund>>[1] = refund /\ 2..1 = {} /\ DOMAIN <<>> = {}
    OBVIOUS
<1>3. 2..Len(MyTransactions'[n]) = {} /\ DOMAIN TheirRevocationKeys'[n] = {}
    BY <1>1, <1>2
<1>4. MyTransactions'[n][1] = refund
    BY <1>1, <1>2
<1> QED BY <1>1, <1>3, <1>4 DEF TypeOK

\* The peer opens a channel, or refuses.
LEMMA OpenChannelStep ==
    ASSUME OneOpener, IInv, IInv', JInv, NEW n \in Nodes, OpenChannel(n)
    PROVE  JInv'
<1> USE DEF channelVars
<1> TypeOK /\ TypeOK'
    BY DEF IInv
<1>1. PICK r \in net :
        /\ r.type = "OpenChannel" /\ r.from = Peer(n) /\ Alive(n)
        /\ IF RefuseChannel(n)
           THEN /\ Answer(r, Error(r))
                /\ UNCHANGED <<keys, channelVars>>
           ELSE LET refund == SignTransaction(n, r.refund)
                IN /\ NewChannel(n, FALSE, refund, GenerateRevocationKey(n))
                   /\ keys' = [keys EXCEPT ![n] = @ + 1]
                   /\ Answer(r, [type |-> "OpenChannelResponse", to |-> r.from,
                                 id |-> r.id, refund |-> refund])
        /\ UNCHANGED <<known, crashed, call, broadcast, released, countVars>>
    BY DEF OpenChannel
<1>2. CASE RefuseChannel(n)
    <2>1. \A m \in net' : m \in net \/ m.type = "Error"
        BY <1>1, <1>2, AnswerFacts DEF Error
    <2> QED BY <1>1, <1>2, <2>1, BystanderStep
<1>3. CASE ~RefuseChannel(n)
    <2> DEFINE refund == SignTransaction(n, r.refund)
               reply == [type |-> "OpenChannelResponse", to |-> r.from,
                         id |-> r.id, refund |-> refund]
    <2>1. PICK k : k = GenerateRevocationKey(n)
        OBVIOUS
    <2>2. /\ NewChannel(n, FALSE, refund, k) /\ Answer(r, reply)
          /\ keys' = [keys EXCEPT ![n] = @ + 1]
        BY <1>1, <1>3, <2>1
    <2>3. n \notin open /\ Peer(n) \in Openers /\ n \notin Openers /\ Peer(n) \notin open
        BY <1>1, <1>3, PeerFacts DEF RefuseChannel, JInv, OpenersInv, OneOpener
    <2>4. r.refund \in Transaction
        BY <1>1 DEF TypeOK, Requests, Replies
    <2>5. refund.hash = r.refund.hash
        BY <2>4, SignFacts
    <2>6. \A q \in Nodes : keys[q] <= keys'[q]
        BY <2>1, <2>2, FreshKey
    <2> HIDE DEF refund
    <2>7. \A m \in net' : m \in net \/ m = reply
        BY <2>2, AnswerFacts
    <2>8. /\ MyTransactions'[n][1] = refund
          /\ \A q \in Nodes \ {n} : MyTransactions'[q] = MyTransactions[q]
          /\ \A q \in open' : q # n => q \in open /\ MyTransactions'[q] = MyTransactions[q]
          /\ \A q \in Nodes : \A i \in 2..Len(MyTransactions'[q]) :
                i \in 2..Len(MyTransactions[q]) /\ MyTransactions'[q][i] = MyTransactions[q][i]
          /\ \A q \in Nodes : \A h \in DOMAIN TheirRevocationKeys'[q] :
                /\ h \in DOMAIN TheirRevocationKeys[q]
                /\ TheirRevocationKeys'[q][h] = TheirRevocationKeys[q][h]
          /\ \A q \in open : \A h \in DOMAIN MyRevocationKeys[q] :
                /\ h \in DOMAIN MyRevocationKeys'[q]
                /\ MyRevocationKeys'[q][h] = MyRevocationKeys[q][h]
        BY <2>2, <2>3, NewChannelFacts DEF NewChannel
    <2>9. /\ open' = open \cup {n}
           /\ ~Funder'[n] /\ \A q \in Nodes \ {n} : Funder'[q] = Funder[q]
        BY <2>2 DEF NewChannel, TypeOK
    <2>10. \A p \in Nodes : \A t \in Versions(p)' : t \in Versions(p)
        BY <1>1, <2>7, <2>8, NoNewVersions
    <2>11. ShapeInv' /\ AgreeInv'
        BY <2>6, <2>8, <2>10, <2>9, ShapesStay DEF JInv, SameView
    <2>12. RolesInv'
        BY <1>1, <2>6, <2>7, RolesStay DEF JInv
    <2>13. \A f \in Refunds' : \E g \in Refunds : g.hash = f.hash
        <3> SUFFICES ASSUME NEW f \in Refunds' PROVE f \in Refunds \/ f = refund
            BY <1>1, <2>5 DEF Refunds
        <3>1. CASE \E m \in net' : m.type \in {"OpenChannel", "OpenChannelResponse"} /\ f = m.refund
            BY <2>7, <3>1 DEF Refunds
        <3>2. CASE \E q \in open' : f = MyTransactions'[q][1]
            BY <2>8, <3>2 DEF Refunds
        <3> QED BY <3>1, <3>2 DEF Refunds
    <2>14. RefundInv' /\ FiledInv'
        BY <2>6, <2>8, <2>10, <2>13, FilesStay DEF JInv, SameView
    <2>15. OpenersInv'
        <3>1. \A m \in net : m.type = "OpenChannelResponse" => m.to # n
            BY <2>3 DEF JInv, OpenersInv
        <3>2. \A m \in net' : m.type = "OpenChannelResponse" =>
                  m.to \in Openers /\ m.to \notin open' /\ Peer(m.to) \in open'
            BY <1>1, <2>3, <2>7, <2>9, <3>1, PeerFacts DEF JInv, OpenersInv
        <3>3. \A q \in open' :
                /\ q \in Openers => Peer(q) \in open'
                /\ q \notin Openers => Peer(q) \in Openers
                /\ Funder'[q] <=> q \in Openers
            <4> SUFFICES ASSUME NEW q \in open'
                         PROVE  /\ q \in Openers => Peer(q) \in open'
                                /\ q \notin Openers => Peer(q) \in Openers
                                /\ Funder'[q] <=> q \in Openers
                OBVIOUS
            <4>1. CASE q = n
                BY <2>3, <2>9, <4>1
            <4>2. CASE q # n
                BY <2>9, <4>2 DEF JInv, OpenersInv, TypeOK
            <4> QED BY <4>1, <4>2
        <3>4. \A m \in net' : m.type = "OpenChannel" => m.from \in Openers
            BY <2>7 DEF JInv, OpenersInv
        <3>5. \A q \in Nodes \ open' : MyTransactions'[q] = <<>>
            BY <2>8, <2>9 DEF JInv, OpenersInv
        <3> QED BY <1>1, <3>2, <3>3, <3>4, <3>5 DEF JInv, OpenersInv
    <2> QED BY <2>11, <2>12, <2>14, <2>15 DEF JInv
<1> QED BY <1>2, <1>3

\* CreateChannel gets its answer.
LEMMA ChannelCreatedStep ==
    ASSUME OneOpener, IInv, IInv', JInv, NEW n \in Nodes, ChannelCreated(n)
    PROVE  JInv' /\ n \notin open
<1> USE DEF channelVars
<1> TypeOK /\ TypeOK'
    BY DEF IInv
<1>1. PICK m \in net :
        /\ m.type = "OpenChannelResponse" /\ m.to = n /\ Alive(n)
        /\ NewChannel(n, TRUE, m.refund, call[n].tx.hash)
        /\ broadcast' = broadcast \cup {n}
        /\ net' = DropReplies(n)
        /\ call' = [call EXCEPT ![n] = Idle]
        /\ UNCHANGED <<known, crashed, keys, released, countVars>>
    BY DEF ChannelCreated
<1>2. n \in Openers /\ n \notin open /\ Peer(n) \in open
    BY <1>1 DEF JInv, OpenersInv
<1>3. /\ open' = open \cup {n}
      /\ Funder'[n] /\ \A q \in Nodes \ {n} : Funder'[q] = Funder[q]
    BY <1>1 DEF NewChannel, TypeOK
<1>4. PICK revs : /\ MyTransactions' = [MyTransactions EXCEPT ![n] = <<m.refund>>]
                /\ MyRevocationKeys' = [MyRevocationKeys EXCEPT ![n] = revs]
                /\ TheirRevocationKeys' = [TheirRevocationKeys EXCEPT ![n] = <<>>]
    BY <1>1 DEF NewChannel
<1>5. PICK refund : refund = m.refund
    OBVIOUS
<1>6. /\ MyTransactions'[n][1] = m.refund
      /\ \A q \in Nodes \ {n} : MyTransactions'[q] = MyTransactions[q]
      /\ \A q \in open' : q # n => q \in open /\ MyTransactions'[q] = MyTransactions[q]
      /\ \A q \in Nodes : \A i \in 2..Len(MyTransactions'[q]) :
            i \in 2..Len(MyTransactions[q]) /\ MyTransactions'[q][i] = MyTransactions[q][i]
      /\ \A q \in Nodes : \A h \in DOMAIN TheirRevocationKeys'[q] :
            /\ h \in DOMAIN TheirRevocationKeys[q]
            /\ TheirRevocationKeys'[q][h] = TheirRevocationKeys[q][h]
      /\ \A q \in open : \A h \in DOMAIN MyRevocationKeys[q] :
            /\ h \in DOMAIN MyRevocationKeys'[q]
            /\ MyRevocationKeys'[q][h] = MyRevocationKeys[q][h]
    BY <1>2, <1>3, <1>4, <1>5, NewChannelFacts
<1>7. \A q \in net' : q \in net /\ (q \in Replies => q.to # n)
    BY <1>1, DropFacts
<1>8. \A q \in Nodes : call'[q] = call[q] \/ (q = n /\ call'[q].pc = "idle")
    BY <1>1 DEF TypeOK, Idle
<1>9. \A q \in Nodes : keys[q] \in Nat /\ keys[q] <= keys'[q]
    BY <1>1 DEF TypeOK
<1>10. \A p \in Nodes : \A t \in Versions(p)' : t \in Versions(p)
    BY <1>6, <1>7, <1>8, NoNewVersions
<1>11. ShapeInv' /\ AgreeInv'
    BY <1>3, <1>6, <1>9, <1>10, ShapesStay DEF JInv, SameView
<1>12. \A q \in net' : q.type \in {"RevocationKey", "OpenChannelResponse"} => q.to # n
    BY <1>7 DEF TypeOK, Requests
<1>13. RolesInv'
    BY <1>1, <1>7, <1>8, <1>9, <1>12, RolesStay DEF JInv
<1>14. \A f \in Refunds' : f \in Refunds
    <2> SUFFICES ASSUME NEW f \in Refunds' PROVE f \in Refunds
        OBVIOUS
    <2>1. CASE \E q \in net' : q.type \in {"OpenChannel", "OpenChannelResponse"} /\ f = q.refund
        BY <1>7, <2>1 DEF Refunds
    <2>2. CASE \E q \in open' : f = MyTransactions'[q][1]
        BY <1>1, <1>6, <2>2 DEF Refunds
    <2> QED BY <2>1, <2>2 DEF Refunds
<1>15. RefundInv' /\ FiledInv'
    BY <1>6, <1>9, <1>10, <1>14, FilesStay DEF JInv, SameView
<1>16. OpenersInv'
    <2>1. \A q \in net' : q.type # "OpenChannelResponse"
        BY <1>2, <1>7, <1>12 DEF JInv, OpenersInv, OneOpener
    <2>2. ASSUME NEW q \in open'
          PROVE  /\ q \in Openers => Peer(q) \in open'
                 /\ q \notin Openers => Peer(q) \in Openers
                 /\ Funder'[q] <=> q \in Openers
        <3>1. CASE q = n
            BY <1>2, <1>3, <3>1 DEF TypeOK
        <3>2. CASE q # n
            BY <1>2, <1>3, <3>2 DEF JInv, OpenersInv, TypeOK
        <3> QED BY <3>1, <3>2
    <2>3. \A q \in Nodes \ open' : MyTransactions'[q] = <<>>
        BY <1>3, <1>6 DEF JInv, OpenersInv
    <2> QED BY <1>7, <1>8, <2>1, <2>2, <2>3 DEF JInv, OpenersInv
<1> QED BY <1>2, <1>11, <1>13, <1>15, <1>16 DEF JInv

\* The split a user starts from adds up to the capacity.
LEMMA SplitSum ==
    ASSUME IInv, JInv, NEW n \in open
    PROVE  CurrentSplit(n)[1] + CurrentSplit(n)[2] = Amount
<1>1. CASE State[n] = 0
    BY <1>1, AmountsAssumption DEF CurrentSplit
<1>2. CASE State[n] # 0
    <2> DEFINE i == State[n] + 1
    <2>1. i \in 2..Len(MyTransactions[n]) /\ n \in Nodes
        BY <1>2 DEF IInv, TypeOK, ChannelInv
    <2>2. PICK t : t = MyTransactions[n][i]
        OBVIOUS
    <2>3. t \in Versions(n)
        BY <2>1, <2>2, VersionsAre DEF IsVersion
    <2>4. t.Outputs[1].Amount + t.Outputs[2].Amount = Amount
        BY <2>1, <2>3 DEF JInv, ShapeInv, Shape
    <2>5. CurrentSplit(n) = <<t.Outputs[1].Amount, t.Outputs[2].Amount>>
        BY <1>2, <2>2 DEF CurrentSplit
    <2> QED BY <2>4, <2>5
<1> QED BY <1>1, <1>2

\* The transaction a user proposes has the shape of a version.
LEMMA ProposalShape ==
    ASSUME IInv, JInv, NEW n \in open, NEW pay \in Pays, NEW k \in Key, NEW tx,
           tx = MakeUpdatedTransaction(n, pay, k)
    PROVE  /\ tx.hash = k /\ tx.update = k
           /\ tx.Outputs[1].Amount + tx.Outputs[2].Amount = Amount
           /\ tx.Outputs[CoinOf(n)].RevocationKey = k
           /\ tx.Outputs[3 - CoinOf(n)].RevocationKey = NoKey
<1> DEFINE split == CurrentSplit(n)
<1>1. split[1] \in Nat /\ split[2] \in Nat /\ split[1] + split[2] = Amount /\ pay \in Nat
    BY SplitSum, SplitFacts, AmountsAssumption DEF IInv
<1> HIDE DEF split
<1>2. Funder[n] <=> n \in Openers
    BY DEF JInv, OpenersInv
<1>3. CASE n \in Openers
    <2>1. tx = [hash |-> k, update |-> k,
                Outputs |-> <<[Amount |-> split[1] - pay, ScriptType |-> "P2PK",
                               RevocationKey |-> k],
                              PayToPublicKey(split[2] + pay)>>,
                Witnesses |-> {}]
        <3>1. MyCoinIndex(n) = 1 /\ 3 - MyCoinIndex(n) = 2
            BY <1>2, <1>3 DEF MyCoinIndex
        <3> QED BY <1>2, <1>3, <3>1 DEF MakeUpdatedTransaction, split
    <2>2. CoinOf(n) = 1
        BY <1>3 DEF CoinOf
    <2> QED BY <1>1, <2>1, <2>2 DEF PayToPublicKey
<1>4. CASE n \notin Openers
    <2>1. tx = [hash |-> k, update |-> k,
                Outputs |-> <<PayToPublicKey(split[1] + pay),
                              [Amount |-> split[2] - pay, ScriptType |-> "P2PK",
                               RevocationKey |-> k]>>,
                Witnesses |-> {}]
        <3>1. MyCoinIndex(n) = 2 /\ 3 - MyCoinIndex(n) = 1
            BY <1>2, <1>4 DEF MyCoinIndex
        <3> QED BY <1>2, <1>4, <3>1 DEF MakeUpdatedTransaction, split
    <2>2. CoinOf(n) = 2
        BY <1>4 DEF CoinOf
    <2> QED BY <1>1, <2>1, <2>2 DEF PayToPublicKey
<1> QED BY <1>3, <1>4

\* Filing a key under a fresh hash loses none.
LEMMA KeysStay ==
    ASSUME TypeOK, NEW n \in Nodes, NEW k, ~Used(k),
           MyRevocationKeys' = [MyRevocationKeys EXCEPT ![n] = Put(@, k, k)]
    PROVE  /\ \A q \in open : \A h \in DOMAIN MyRevocationKeys[q] :
                 Used(h) => /\ h \in DOMAIN MyRevocationKeys'[q]
                            /\ MyRevocationKeys'[q][h] = MyRevocationKeys[q][h]
           /\ k \in DOMAIN MyRevocationKeys'[n] /\ MyRevocationKeys'[n][k] = k
<1>1. /\ MyRevocationKeys'[n] = Put(MyRevocationKeys[n], k, k)
      /\ \A q \in Nodes \ {n} : MyRevocationKeys'[q] = MyRevocationKeys[q]
    BY DEF TypeOK
<1>2. \A h \in DOMAIN MyRevocationKeys[n] :
          Used(h) => /\ h \in DOMAIN MyRevocationKeys'[n]
                     /\ MyRevocationKeys'[n][h] = MyRevocationKeys[n][h]
    BY <1>1 DEF Put
<1>3. k \in DOMAIN MyRevocationKeys'[n] /\ MyRevocationKeys'[n][k] = k
    BY <1>1 DEF Put
<1> QED BY <1>1, <1>2, <1>3 DEF TypeOK

\* UpdateState sends its first request.
LEMMA UpdateStateStep ==
    ASSUME IInv, IInv', JInv, NEW n \in Nodes, UpdateState(n)
    PROVE  JInv'
<1> TypeOK /\ TypeOK'
    BY DEF IInv
<1>1. PICK k : k = GenerateRevocationKey(n)
    OBVIOUS
<1>2. PICK pay \in Pays :
        LET tx == MakeUpdatedTransaction(n, pay, k)
        IN /\ keys' = [keys EXCEPT ![n] = @ + 1]
           /\ MyRevocationKeys' = [MyRevocationKeys EXCEPT ![n] = Put(@, tx.hash, k)]
           /\ call' = [call EXCEPT ![n] = [pc |-> "update", tx |-> tx]]
           /\ net' = net \cup {[type |-> "GetUpdatedTransactions", from |-> n,
                                id |-> k, tx |-> tx]}
    BY <1>1 DEF UpdateState
<1>3. PICK tx : tx = MakeUpdatedTransaction(n, pay, k)
    OBVIOUS
<1> DEFINE req == [type |-> "GetUpdatedTransactions", from |-> n, id |-> k, tx |-> tx]
<1>4. /\ k \in Key /\ k.owner = n /\ ~Used(k) /\ Used(k)'
      /\ \A q \in Nodes : keys[q] <= keys'[q]
    BY <1>1, <1>2, FreshKey
<1>5. /\ n \in open /\ n \notin crashed /\ call[n] = Idle
      /\ UNCHANGED <<crashed, open, Funder, MyTransactions, TheirRevocationKeys>>
    BY DEF UpdateState, Free, Alive
<1>6. /\ tx.hash = k /\ tx.update = k
      /\ tx.Outputs[1].Amount + tx.Outputs[2].Amount = Amount
      /\ tx.Outputs[CoinOf(n)].RevocationKey = k
      /\ tx.Outputs[3 - CoinOf(n)].RevocationKey = NoKey
    BY <1>3, <1>4, <1>5, ProposalShape
<1>7. /\ call'[n] = [pc |-> "update", tx |-> tx]
      /\ \A q \in Nodes \ {n} : call'[q] = call[q]
      /\ net' = net \cup {req}
    BY <1>2, <1>3 DEF TypeOK
<1>8. Shape(tx, n)'
    BY <1>4, <1>5, <1>6 DEF Shape, CoinOf
<1>9. \A p \in Nodes : \A t \in Versions(p)' : t \in Versions(p) \/ (p = n /\ t = tx)
    <2> SUFFICES ASSUME NEW p \in Nodes, NEW t, IsVersion(t, p)'
                 PROVE  IsVersion(t, p) \/ (p = n /\ t = tx)
        BY VersionsAre
    <2>1. Peer(p) \in Nodes
        BY PeerFacts
    <2>2. CASE \E i \in 2..Len(MyTransactions'[p]) : t = MyTransactions'[p][i]
        BY <1>5, <2>2 DEF IsVersion
    <2>3. CASE \E m \in net' : Carries(m, p, t)
        BY <1>7, <2>3 DEF IsVersion, Carries
    <2>4. CASE call'[p].pc \in {"update", "revoke"} /\ t = call'[p].tx
        BY <1>7, <2>4 DEF IsVersion
    <2>5. CASE call'[Peer(p)].pc = "revoke" /\ t = call'[Peer(p)].unsigned
        BY <1>7, <2>1, <2>5 DEF IsVersion
    <2> QED BY <2>2, <2>3, <2>4, <2>5 DEF IsVersion, Carries, Peer
<1>10. \A q \in open : \A h \in DOMAIN MyRevocationKeys[q] :
          Used(h) => /\ h \in DOMAIN MyRevocationKeys'[q]
                     /\ MyRevocationKeys'[q][h] = MyRevocationKeys[q][h]
    BY <1>2, <1>3, <1>4, <1>6, KeysStay
<1>11. \A p \in Nodes : \A s \in Versions(p) : s.update # tx.update
    BY <1>4, <1>6 DEF JInv, ShapeInv, Shape
<1>12. ShapeInv' /\ AgreeInv'
    <2>1. ~Used(tx.hash)
        BY <1>4, <1>6
    <2>2. PICK T : T = {tx}
        OBVIOUS
    <2>3. \A p \in Nodes : \A t \in Versions(p)' :
              (\E s \in Versions(p) : SameView(s, t)) \/ (p = n /\ t \in T)
        BY <1>9, <2>2 DEF SameView
    <2> QED BY <1>4, <1>5, <1>8, <1>10, <1>11, <2>1, <2>2, <2>3, ShapesCarry DEF JInv
<1>13. RefundInv' /\ FiledInv'
    <2>1. Refunds' \subseteq Refunds
        BY <1>5, <1>7, RefundsStay
    <2>2. ~Used(tx.hash)
        BY <1>4, <1>6
    <2>3. PICK T : T = {tx}
        OBVIOUS
    <2>4. \A p \in Nodes : \A t \in Versions(p)' :
              (\E s \in Versions(p) : SameView(s, t)) \/ (p = n /\ t \in T)
        BY <1>9, <2>3 DEF SameView
    <2> QED BY <1>4, <1>5, <2>1, <2>2, <2>3, <2>4, FilesCarry DEF JInv
<1>14. RolesInv'
    <2>1. \A q \in Nodes :
            /\ call'[q].pc \in {"update", "revoke"} => call'[q].tx.update.owner = q
            /\ call'[q].pc = "revoke" => call'[q].unsigned.update.owner = q
        BY <1>4, <1>6, <1>7 DEF JInv, RolesInv
    <2>2. ASSUME NEW m \in net' PROVE RolesInv!1!(m)'
        <3>1. CASE m.type = "GetUpdatedTransactions"
            BY <1>4, <1>6, <1>7, <3>1 DEF JInv, RolesInv
        <3>2. CASE m.type = "GetRevocationKey"
            <4>1. m \in net /\ m.from \in Nodes /\ m.id \in Key
                BY <1>7, <3>2 DEF TypeOK, Requests, Replies
            <4>2. Used(m.id) /\ Used(m.id)'
                BY <1>4, <3>2, <4>1, UsedStays DEF JInv, RolesInv
            <4>3. m.id # k
                BY <1>4, <4>2
            <4> QED BY <1>6, <1>7, <3>2, <4>1, <4>2, <4>3 DEF JInv, RolesInv
        <3>3. CASE m.type = "UpdatedTransactions"
            BY <1>7, <3>3 DEF JInv, RolesInv
        <3>4. CASE m.type = "RevocationKey"
            <4>1. m \in net /\ m.to \in Nodes
                BY <1>7, <3>4 DEF TypeOK, Requests, Replies
            <4>2. m.to # n
                BY <1>5, <3>4, <4>1 DEF IInv, RepliesInv, Idle
            <4> QED BY <1>5, <1>7, <3>4, <4>1, <4>2 DEF JInv, RolesInv
        <3> QED BY <3>1, <3>2, <3>3, <3>4
    <2> QED BY <2>1, <2>2 DEF RolesInv
<1>15. OpenersInv'
    BY <1>5, <1>7 DEF JInv, OpenersInv
<1> QED BY <1>12, <1>13, <1>14, <1>15 DEF JInv

\* Our version of a proposal has the shape of a version.
LEMMA VersionShape ==
    ASSUME JInv, NEW n \in open, NEW theirTx, NEW k \in Key, NEW tx,
           tx = generateTransactionWithCorrectScripts(n, theirTx, k)
    PROVE  /\ tx.hash = k /\ tx.update = theirTx.update /\ SameAmounts(theirTx, tx)
           /\ tx.Outputs[CoinOf(n)].RevocationKey = k
           /\ tx.Outputs[CoinOf(n)].ScriptType = "MULTI"
           /\ tx.Outputs[3 - CoinOf(n)].RevocationKey = NoKey
<1> DEFINE a0 == theirTx.Outputs[1].Amount
           a1 == theirTx.Outputs[2].Amount
<1>1. Funder[n] <=> n \in Openers
    BY DEF JInv, OpenersInv
<1>2. CASE n \in Openers
    <2>1. tx = [hash |-> k, update |-> theirTx.update,
                Outputs |-> <<Revocable(a0, k), PayToPublicKey(a1)>>, Witnesses |-> {}]
        BY <1>1, <1>2 DEF generateTransactionWithCorrectScripts
    <2>2. CoinOf(n) = 1
        BY <1>2 DEF CoinOf
    <2>3. tx.Outputs[1] = Revocable(a0, k) /\ tx.Outputs[2] = PayToPublicKey(a1)
        BY <2>1
    <2>4. \A x \in 1..2 : x = 1 \/ x = 2
        OBVIOUS
    <2> QED BY <2>1, <2>2, <2>3, <2>4 DEF PayToPublicKey, Revocable, SameAmounts
<1>3. CASE n \notin Openers
    <2>1. tx = [hash |-> k, update |-> theirTx.update,
                Outputs |-> <<PayToPublicKey(a0), Revocable(a1, k)>>, Witnesses |-> {}]
        BY <1>1, <1>3 DEF generateTransactionWithCorrectScripts
    <2>2. CoinOf(n) = 2
        BY <1>3 DEF CoinOf
    <2>3. tx.Outputs[1] = PayToPublicKey(a0) /\ tx.Outputs[2] = Revocable(a1, k)
        BY <2>1
    <2>4. \A x \in 1..2 : x = 1 \/ x = 2
        OBVIOUS
    <2> QED BY <2>1, <2>2, <2>3, <2>4 DEF PayToPublicKey, Revocable, SameAmounts
<1> QED BY <1>2, <1>3

\* The peer answers with both versions of the update.
LEMMA GetUpdatedTransactionsStep ==
    ASSUME IInv, IInv', JInv, NEW n \in Nodes, GetUpdatedTransactions(n)
    PROVE  JInv'
<1> TypeOK /\ TypeOK'
    BY DEF IInv
<1>1. PICK k : k = GenerateRevocationKey(n)
    OBVIOUS
<1>2. PICK r \in net :
        /\ r.type = "GetUpdatedTransactions" /\ r.from = Peer(n)
        /\ n \in open
        /\ LET txn == SignTransaction(n, r.tx)
               newTx == generateTransactionWithCorrectScripts(n, r.tx, k)
           IN /\ keys' = [keys EXCEPT ![n] = @ + 1]
              /\ MyRevocationKeys' = [MyRevocationKeys EXCEPT ![n] = Put(@, newTx.hash, k)]
              /\ Answer(r, [type |-> "UpdatedTransactions", to |-> r.from,
                            id |-> r.id, signed |-> txn, unsigned |-> newTx])
        /\ UNCHANGED <<crashed, call, open, Funder, MyTransactions, TheirRevocationKeys>>
    BY <1>1 DEF GetUpdatedTransactions
<1>3. PICK txn : txn = SignTransaction(n, r.tx)
    OBVIOUS
<1>4. PICK newTx : newTx = generateTransactionWithCorrectScripts(n, r.tx, k)
    OBVIOUS
<1> DEFINE reply == [type |-> "UpdatedTransactions", to |-> r.from,
                     id |-> r.id, signed |-> txn, unsigned |-> newTx]
<1>5. /\ k \in Key /\ k.owner = n /\ ~Used(k) /\ Used(k)'
      /\ \A q \in Nodes : keys[q] <= keys'[q]
    BY <1>1, <1>2, FreshKey
<1>6. /\ Peer(n) \in Nodes /\ Peer(n) # n /\ Peer(Peer(n)) = n
      /\ \A p \in Nodes : Peer(p) = Peer(n) => p = n
    BY PeerFacts
<1>7. r.tx \in Transaction /\ r.tx \in Versions(Peer(n)) /\ r.tx.update.owner = Peer(n)
    <2>1. r.tx \in Transaction
        BY <1>2 DEF TypeOK, Requests, Replies
    <2>2. IsVersion(r.tx, Peer(n))
        BY <1>2 DEF IsVersion, Carries
    <2>3. r.tx.update.owner = Peer(n)
        BY <1>2 DEF JInv, RolesInv
    <2> QED BY <2>1, <2>2, <2>3, VersionsAre
<1>8. /\ newTx.hash = k /\ newTx.update = r.tx.update /\ SameAmounts(r.tx, newTx)
      /\ newTx.Outputs[CoinOf(n)].RevocationKey = k
      /\ newTx.Outputs[CoinOf(n)].ScriptType = "MULTI"
      /\ newTx.Outputs[3 - CoinOf(n)].RevocationKey = NoKey
    BY <1>2, <1>4, <1>5, VersionShape
<1>9. SameView(r.tx, txn)
    BY <1>3, <1>7, SignFacts DEF SameView
<1>10. \A m \in net' : m \in net \/ m = reply
    BY <1>2, <1>3, <1>4, AnswerFacts
<1>11. /\ \A q \in open : \A h \in DOMAIN MyRevocationKeys[q] :
             Used(h) => /\ h \in DOMAIN MyRevocationKeys'[q]
                        /\ MyRevocationKeys'[q][h] = MyRevocationKeys[q][h]
       /\ k \in DOMAIN MyRevocationKeys'[n] /\ MyRevocationKeys'[n][k] = k
    BY <1>2, <1>4, <1>5, <1>8, KeysStay
<1>12. Shape(newTx, n)'
    <2>1. Shape(r.tx, Peer(n)) /\ r.tx.update \in Key
        BY <1>6, <1>7, VersionTypes DEF JInv, ShapeInv
    <2>2. Used(r.tx.update)'
        BY <1>5, <2>1, UsedStays DEF Shape
    <2>3. newTx.Outputs[1].Amount + newTx.Outputs[2].Amount = Amount
        <3>1. 1 \in 1..2 /\ 2 \in 1..2
            OBVIOUS
        <3> QED BY <1>8, <2>1, <3>1 DEF Shape, SameAmounts
    <2> QED BY <1>2, <1>5, <1>6, <1>7, <1>8, <1>11, <2>2, <2>3 DEF Shape, CoinOf
<1>13. PICK T : T = {newTx}
    OBVIOUS
<1>14. \A p \in Nodes : \A t \in Versions(p)' :
          (\E s \in Versions(p) : SameView(s, t)) \/ (p = n /\ t \in T)
    <2> SUFFICES ASSUME NEW p \in Nodes, NEW t, IsVersion(t, p)'
                 PROVE  \/ IsVersion(t, p)
                        \/ p = Peer(n) /\ t = txn
                        \/ p = n /\ t = newTx
        BY <1>7, <1>9, <1>13, VersionsAre DEF SameView
    <2>1. CASE \E m \in net' : Carries(m, p, t)
        <3>1. PICK m \in net' : Carries(m, p, t)
            BY <2>1
        <3>2. CASE m \in net
            BY <3>1, <3>2 DEF IsVersion
        <3>3. CASE m = reply
            BY <1>2, <1>6, <3>1, <3>3 DEF Carries
        <3> QED BY <1>10, <3>2, <3>3
    <2>2. CASE ~\E m \in net' : Carries(m, p, t)
        BY <1>2, <2>2 DEF IsVersion, Carries, Peer
    <2> QED BY <2>1, <2>2
<1>15. ~Used(newTx.hash)
    BY <1>5, <1>8
<1>16. ShapeInv' /\ AgreeInv'
    <2>1. \A t \in T : \A p \in Nodes : \A s \in Versions(p) :
              s.update = t.update => SameAmounts(s, t)
        BY <1>6, <1>7, <1>8, <1>13 DEF JInv, AgreeInv, SameAmounts
    <2>2. \A t \in T : Shape(t, n)' /\ ~Used(t.hash)
        BY <1>12, <1>13, <1>15
    <2>3. \A s, t \in T : s = t
        BY <1>13
    <2>4. open' = open
        BY <1>2
    <2>5. /\ \A q \in open : \A h \in DOMAIN MyRevocationKeys[q] :
                Used(h) => /\ h \in DOMAIN MyRevocationKeys'[q]
                           /\ MyRevocationKeys'[q][h] = MyRevocationKeys[q][h]
          /\ \A q \in Nodes : keys[q] <= keys'[q]
        BY <1>5, <1>11
    <2> QED BY <1>14, <2>1, <2>2, <2>3, <2>4, <2>5, ShapesCarry DEF JInv
<1>17. RefundInv' /\ FiledInv'
    <2>1. Refunds' \subseteq Refunds
        BY <1>2, <1>10, RefundsStay
    <2>2. \A t \in T : ~Used(t.hash)
        BY <1>13, <1>15
    <2>3. TheirRevocationKeys' = TheirRevocationKeys /\ \A q \in Nodes : keys[q] <= keys'[q]
        BY <1>2, <1>5
    <2> QED BY <1>14, <2>1, <2>2, <2>3, FilesCarry DEF JInv
<1>18. RolesInv'
    <2>1. \A q \in Nodes :
            /\ call'[q].pc \in {"update", "revoke"} => call'[q].tx.update.owner = q
            /\ call'[q].pc = "revoke" => call'[q].unsigned.update.owner = q
        BY <1>2 DEF JInv, RolesInv
    <2>2. ASSUME NEW m \in net' PROVE RolesInv!1!(m)'
        <3>1. CASE m = reply
            BY <1>2, <1>7, <1>8, <1>9, <3>1 DEF SameView
        <3>2. CASE m \in net /\ m.type = "GetRevocationKey"
            <4>1. m.id \in Key
                BY <3>2 DEF TypeOK, Requests, Replies
            <4>2. Used(m.id)'
                BY <1>5, <3>2, <4>1, UsedStays DEF JInv, RolesInv
            <4> QED BY <1>2, <3>2, <4>2 DEF JInv, RolesInv
        <3>3. CASE m \in net /\ m.type # "GetRevocationKey"
            BY <1>2, <3>3 DEF JInv, RolesInv
        <3> QED BY <1>10, <3>1, <3>2, <3>3
    <2> QED BY <2>1, <2>2 DEF RolesInv
<1>19. OpenersInv'
    BY <1>2, <1>10 DEF JInv, OpenersInv
<1> QED BY <1>16, <1>17, <1>18, <1>19 DEF JInv

\* A version that joins a node's transactions is the only change there.
LEMMA AppendVersion ==
    ASSUME IInv, NEW n \in open, NEW tx,
           MyTransactions' = [MyTransactions EXCEPT ![n] = Append(@, tx)]
    PROVE  /\ \A q \in Nodes : \A i \in 2..Len(MyTransactions'[q]) :
                 \/ /\ i \in 2..Len(MyTransactions[q])
                    /\ MyTransactions'[q][i] = MyTransactions[q][i]
                 \/ q = n /\ MyTransactions'[q][i] = tx
           /\ \A q \in open : MyTransactions'[q][1] = MyTransactions[q][1]
           /\ \A q \in Nodes \ open : MyTransactions'[q] = MyTransactions[q]
<1>1. /\ n \in Nodes /\ MyTransactions[n] \in Seq(Transaction)
      /\ Len(MyTransactions[n]) \in Nat /\ State[n] \in Nat
    BY DEF IInv, TypeOK
<1>2. MyTransactions'[n] = Append(MyTransactions[n], tx)
    BY <1>1 DEF IInv, TypeOK
<1>3. \A q \in Nodes \ {n} : MyTransactions'[q] = MyTransactions[q]
    BY DEF IInv, TypeOK
<1>4. /\ Len(MyTransactions'[n]) = Len(MyTransactions[n]) + 1
      /\ \A i \in 1..Len(MyTransactions[n]) : MyTransactions'[n][i] = MyTransactions[n][i]
      /\ MyTransactions'[n][Len(MyTransactions[n]) + 1] = tx
    BY <1>1, <1>2
<1>5. Len(MyTransactions[n]) > 0
    BY <1>1 DEF IInv, ChannelInv
<1>6. \A i \in 2..Len(MyTransactions'[n]) :
          \/ i \in 2..Len(MyTransactions[n]) /\ MyTransactions'[n][i] = MyTransactions[n][i]
          \/ MyTransactions'[n][i] = tx
    BY <1>1, <1>4
<1>7. MyTransactions'[n][1] = MyTransactions[n][1]
    BY <1>1, <1>4, <1>5
<1> QED BY <1>3, <1>6, <1>7 DEF IInv, TypeOK

\* UpdateState keeps both versions and sends the second request.
LEMMA SendRevocationKeyStep ==
    ASSUME IInv, IInv', JInv, NEW n \in Nodes, SendRevocationKey(n)
    PROVE  JInv'
<1> TypeOK /\ TypeOK'
    BY DEF IInv
<1>1. PICK m \in net :
        /\ m.type = "UpdatedTransactions" /\ m.to = n /\ Alive(n)
        /\ LET tx == call[n].tx
               theirs == SignTransaction(n, m.unsigned)
               key == Get(MyRevocationKeys[n], tx.hash)
           IN /\ MyTransactions' = [MyTransactions EXCEPT ![n] = Append(@, m.signed)]
              /\ call' = [call EXCEPT ![n] = [pc |-> "revoke", tx |-> tx, unsigned |-> theirs]]
              /\ net' = DropReplies(n) \cup {[type |-> "GetRevocationKey", from |-> n,
                                              id |-> tx.hash, tx |-> theirs, key |-> key]}
        /\ UNCHANGED <<crashed, keys, open, Funder, MyRevocationKeys, TheirRevocationKeys>>
    BY DEF SendRevocationKey
<1>2. PICK tx : tx = call[n].tx
    OBVIOUS
<1>3. PICK theirs : theirs = SignTransaction(n, m.unsigned)
    OBVIOUS
<1>4. PICK key : key = Get(MyRevocationKeys[n], tx.hash)
    OBVIOUS
<1> DEFINE req == [type |-> "GetRevocationKey", from |-> n,
                   id |-> tx.hash, tx |-> theirs, key |-> key]
<1>5. /\ Peer(n) \in Nodes /\ Peer(n) # n /\ Peer(Peer(n)) = n
      /\ \A p \in Nodes : Peer(p) = n => p = Peer(n)
    BY PeerFacts
<1>6. call[n].pc = "update" /\ n \in open
    BY <1>1 DEF IInv, RepliesInv, CallInv, Alive
<1>7. /\ m.unsigned \in Transaction
      /\ m.signed \in Versions(n) /\ m.unsigned \in Versions(Peer(n)) /\ tx \in Versions(n)
    <2>1. m.unsigned \in Transaction
        BY <1>1 DEF TypeOK, Requests, Replies
    <2>2. IsVersion(m.signed, n) /\ IsVersion(m.unsigned, Peer(n)) /\ IsVersion(tx, n)
        BY <1>1, <1>2, <1>5, <1>6 DEF IsVersion, Carries
    <2> QED BY <2>1, <2>2, VersionsAre
<1>8. SameView(m.unsigned, theirs)
    BY <1>3, <1>7, SignFacts DEF SameView
<1>9. /\ call'[n] = [pc |-> "revoke", tx |-> tx, unsigned |-> theirs]
      /\ \A q \in Nodes \ {n} : call'[q] = call[q]
    BY <1>1, <1>2, <1>3 DEF TypeOK
<1>10. \A q \in net' : q = req \/ (q \in net /\ (q \in Replies => q.to # n))
    BY <1>1, <1>2, <1>3, <1>4, DropFacts
<1>11. /\ \A q \in Nodes : \A i \in 2..Len(MyTransactions'[q]) :
             \/ i \in 2..Len(MyTransactions[q]) /\ MyTransactions'[q][i] = MyTransactions[q][i]
             \/ q = n /\ MyTransactions'[q][i] = m.signed
       /\ \A q \in open : MyTransactions'[q][1] = MyTransactions[q][1]
       /\ \A q \in Nodes \ open : MyTransactions'[q] = MyTransactions[q]
    <2>1. PICK signed : signed = m.signed
        OBVIOUS
    <2>2. MyTransactions' = [MyTransactions EXCEPT ![n] = Append(@, signed)]
        BY <1>1, <2>1
    <2> QED BY <1>6, <2>1, <2>2, AppendVersion
<1>12. \A q \in Nodes : keys[q] \in Nat /\ keys[q] <= keys'[q]
    BY <1>1 DEF TypeOK
<1>13. \A p \in Nodes : \A t \in Versions(p)' : \E s \in Versions(p) : SameView(s, t)
    <2> SUFFICES ASSUME NEW p \in Nodes, NEW t, IsVersion(t, p)'
                 PROVE  \/ IsVersion(t, p)
                        \/ p = n /\ (t = m.signed \/ t = tx)
                        \/ p = Peer(n) /\ t = theirs
        BY <1>5, <1>7, <1>8, VersionsAre DEF SameView
    <2>1. CASE \E i \in 2..Len(MyTransactions'[p]) : t = MyTransactions'[p][i]
        BY <1>11, <2>1 DEF IsVersion
    <2>2. CASE \E q \in net' : Carries(q, p, t)
        <3>1. PICK q \in net' : Carries(q, p, t)
            BY <2>2
        <3>2. CASE q \in net
            BY <3>1, <3>2 DEF IsVersion
        <3>3. CASE q = req
            BY <1>5, <3>1, <3>3 DEF Carries
        <3> QED BY <1>10, <3>2, <3>3
    <2>3. CASE call'[p].pc \in {"update", "revoke"} /\ t = call'[p].tx
        BY <1>9, <2>3 DEF IsVersion
    <2>4. CASE call'[Peer(p)].pc = "revoke" /\ t = call'[Peer(p)].unsigned
        <3>1. Peer(p) \in Nodes
            BY PeerFacts
        <3> QED BY <1>5, <1>9, <2>4, <3>1 DEF IsVersion
    <2> QED BY <2>1, <2>2, <2>3, <2>4 DEF IsVersion, Carries, Peer
<1>14. ShapeInv' /\ AgreeInv'
    BY <1>1, <1>12, <1>13, ShapesStay DEF JInv
<1>15. RefundInv' /\ FiledInv'
    <2>1. \A q \in net' : q \in net \/ q.type \notin {"OpenChannel", "OpenChannelResponse"}
        BY <1>10
    <2>2. Refunds' \subseteq Refunds
        BY <1>1, <1>11, <2>1, RefundsStay
    <2> QED BY <1>1, <1>12, <1>13, <2>2, FilesStay DEF JInv
<1>16. /\ tx.update.owner = n /\ theirs.update.owner = n
       /\ tx.hash \in Key /\ tx.hash.owner = n /\ Used(tx.hash) /\ Used(tx.hash)'
    <2>1. tx.update.owner = n /\ m.unsigned.update.owner = n
        BY <1>1, <1>2, <1>6 DEF JInv, RolesInv
    <2>2. tx.hash \in Key /\ tx.hash.owner = n /\ Used(tx.hash)
        BY <1>7, VersionTypes DEF JInv, ShapeInv, Shape
    <2>3. Used(tx.hash)'
        BY <1>12, <2>2, UsedStays
    <2> QED BY <1>8, <2>1, <2>2, <2>3 DEF SameView
<1>17. RolesInv'
    <2>1. \A q \in Nodes :
            /\ call'[q].pc \in {"update", "revoke"} => call'[q].tx.update.owner = q
            /\ call'[q].pc = "revoke" => call'[q].unsigned.update.owner = q
        BY <1>9, <1>16 DEF JInv, RolesInv
    <2>2. ASSUME NEW q \in net' PROVE RolesInv!1!(q)'
        <3>1. CASE q = req
            BY <1>9, <1>16, <3>1
        <3>2. CASE q \in net /\ q.type = "GetUpdatedTransactions"
            BY <3>2 DEF JInv, RolesInv
        <3>3. CASE q \in net /\ q.type = "UpdatedTransactions"
            BY <3>3 DEF JInv, RolesInv
        <3>4. CASE q \in net /\ q.type = "GetRevocationKey"
            <4>1. q.id \in Key /\ q.from \in Nodes
                BY <3>4 DEF TypeOK, Requests, Replies
            <4>2. Used(q.id)'
                BY <1>12, <3>4, <4>1, UsedStays DEF JInv, RolesInv
            <4>3. q.from = n => q.id # tx.hash
                BY <1>2, <1>6, <3>4 DEF JInv, RolesInv
            <4> QED BY <1>9, <3>4, <4>1, <4>2, <4>3 DEF JInv, RolesInv
        <3>5. CASE q \in net /\ q # req /\ q.type = "RevocationKey"
            <4>1. q \in Replies /\ q.to \in Nodes
                BY <3>5 DEF TypeOK, Requests, Replies
            <4> QED BY <1>1, <1>9, <1>10, <3>5, <4>1 DEF JInv, RolesInv
        <3> QED BY <1>10, <3>1, <3>2, <3>3, <3>4, <3>5
    <2> QED BY <2>1, <2>2 DEF RolesInv
<1>18. OpenersInv'
    <2>1. open' = open /\ Funder' = Funder
        BY <1>1
    <2>2. \A q \in Nodes \ open' : MyTransactions'[q] = <<>>
        BY <1>11, <2>1 DEF JInv, OpenersInv
    <2> QED BY <1>9, <1>10, <2>1, <2>2 DEF JInv, OpenersInv
<1> QED BY <1>14, <1>15, <1>17, <1>18 DEF JInv

\* The peer takes the signed version and answers with a key.
LEMMA GetRevocationKeyStep ==
    ASSUME IInv, IInv', JInv, NEW n \in Nodes, GetRevocationKey(n)
    PROVE  JInv'
<1> TypeOK /\ TypeOK'
    BY DEF IInv
<1> DEFINE theirCoin == IF Funder[n] THEN 0 ELSE 1
<1>1. PICK r \in net :
        /\ r.type = "GetRevocationKey" /\ r.from = Peer(n) /\ Alive(n)
        /\ n \in open
        /\ LET key == Get(MyRevocationKeys[n], r.tx.hash)
           IN /\ MyTransactions' = [MyTransactions EXCEPT ![n] = Append(@, r.tx)]
              /\ TheirRevocationKeys' = [TheirRevocationKeys EXCEPT ![n] =
                     Put(@, r.tx.hash, NewRevocationInfo(r.key, r.tx, theirCoin))]
              /\ Answer(r, [type |-> "RevocationKey", to |-> r.from, id |-> r.id, key |-> key])
        /\ UNCHANGED <<crashed, keys, call, open, Funder, MyRevocationKeys>>
    BY DEF GetRevocationKey
<1>2. PICK tx : tx = r.tx
    OBVIOUS
<1>3. PICK key : key = Get(MyRevocationKeys[n], tx.hash)
    OBVIOUS
<1>4. PICK info : info = NewRevocationInfo(r.key, r.tx, theirCoin)
    OBVIOUS
<1> DEFINE reply == [type |-> "RevocationKey", to |-> r.from, id |-> r.id, key |-> key]
<1>5. /\ MyTransactions' = [MyTransactions EXCEPT ![n] = Append(@, tx)]
      /\ TheirRevocationKeys' = [TheirRevocationKeys EXCEPT ![n] = Put(@, tx.hash, info)]
      /\ n \in open /\ Answer(r, reply)
      /\ UNCHANGED <<crashed, keys, call, open, Funder, MyRevocationKeys>>
    BY <1>1, <1>2, <1>3, <1>4
<1>6. Peer(n) \in Nodes /\ Peer(n) # n /\ Peer(Peer(n)) = n
    BY PeerFacts
<1>7. tx \in Versions(n) /\ Shape(tx, n)
    <2>1. IsVersion(tx, n)
        BY <1>1, <1>2, <1>6 DEF IsVersion, Carries
    <2> QED BY <2>1, VersionsAre DEF JInv, ShapeInv
<1>8. tx.update # tx.hash
    BY <1>1, <1>2, <1>6, <1>7 DEF JInv, RolesInv, Shape
<1>9. key = tx.hash
    BY <1>3, <1>7, <1>8 DEF Shape, Get
<1>10. \A m \in net' : m \in net \/ (m = reply /\ Waiting(r))
    BY <1>5, AnswerFacts
<1>11. /\ \A q \in Nodes : \A i \in 2..Len(MyTransactions'[q]) :
             \/ i \in 2..Len(MyTransactions[q]) /\ MyTransactions'[q][i] = MyTransactions[q][i]
             \/ q = n /\ MyTransactions'[q][i] = tx
       /\ \A q \in open : MyTransactions'[q][1] = MyTransactions[q][1]
       /\ \A q \in Nodes \ open : MyTransactions'[q] = MyTransactions[q]
    BY <1>5, AppendVersion
<1>12. \A q \in Nodes : keys[q] \in Nat /\ keys[q] <= keys'[q]
    BY <1>5 DEF TypeOK
<1>13. \A p \in Nodes : \A t \in Versions(p)' : \E s \in Versions(p) : SameView(s, t)
    <2> SUFFICES ASSUME NEW p \in Nodes, NEW t, IsVersion(t, p)'
                 PROVE  IsVersion(t, p) \/ (p = n /\ t = tx)
        BY <1>7, VersionsAre DEF SameView
    <2>1. CASE \E i \in 2..Len(MyTransactions'[p]) : t = MyTransactions'[p][i]
        BY <1>11, <2>1 DEF IsVersion
    <2>2. CASE \E m \in net' : Carries(m, p, t)
        BY <1>10, <2>2 DEF IsVersion, Carries
    <2>3. CASE ~(\E m \in net' : Carries(m, p, t))
               /\ ~(\E i \in 2..Len(MyTransactions'[p]) : t = MyTransactions'[p][i])
        BY <1>5, <2>3 DEF IsVersion, Carries, Peer
    <2> QED BY <2>1, <2>2, <2>3
<1>14. ShapeInv' /\ AgreeInv'
    BY <1>5, <1>12, <1>13, ShapesStay DEF JInv
<1>15. RefundInv' /\ FiledInv'
    <2>1. \A m \in net' : m \in net \/ m.type \notin {"OpenChannel", "OpenChannelResponse"}
        BY <1>10
    <2>2. Refunds' \subseteq Refunds
        BY <1>5, <1>11, <2>1, RefundsStay
    <2>3. /\ TheirRevocationKeys'[n] = Put(TheirRevocationKeys[n], tx.hash, info)
          /\ \A q \in Nodes \ {n} : TheirRevocationKeys'[q] = TheirRevocationKeys[q]
        BY <1>5 DEF TypeOK
    <2>4. \A q \in Nodes : \A h \in DOMAIN TheirRevocationKeys'[q] :
            \/ /\ h \in DOMAIN TheirRevocationKeys[q]
               /\ TheirRevocationKeys'[q][h] = TheirRevocationKeys[q][h]
            \/ h = tx.hash
        BY <2>3 DEF Put
    <2>5. \A q \in Nodes : \A h \in DOMAIN TheirRevocationKeys'[q] :
            \/ /\ h \in DOMAIN TheirRevocationKeys[q]
               /\ TheirRevocationKeys'[q][h] = TheirRevocationKeys[q][h]
            \/ \E p \in Nodes : \E s \in Versions(p) : s.hash = h /\ s.update # h
        BY <1>7, <1>8, <2>4
    <2> QED BY <1>12, <1>13, <2>2, <2>5, FilesStay DEF JInv
<1>16. RolesInv'
    <2>1. \A q \in Nodes :
            /\ call'[q].pc \in {"update", "revoke"} => call'[q].tx.update.owner = q
            /\ call'[q].pc = "revoke" => call'[q].unsigned.update.owner = q
        BY <1>5 DEF JInv, RolesInv
    <2>2. ASSUME NEW m \in net' PROVE RolesInv!1!(m)'
        <3>1. CASE m = reply /\ Waiting(r)
            <4>1. call[r.from].pc = "revoke" /\ call[r.from].tx.hash = r.id
                BY <1>1, <3>1 DEF Waiting
            <4>2. r.tx = call[r.from].unsigned
                BY <1>1, <4>1 DEF JInv, RolesInv
            <4> QED BY <1>2, <1>5, <1>9, <3>1, <4>2
        <3>2. CASE m \in net /\ m.type = "GetRevocationKey"
            <4>1. m.id \in Key
                BY <3>2 DEF TypeOK, Requests, Replies
            <4>2. Used(m.id)'
                BY <1>12, <3>2, <4>1, UsedStays DEF JInv, RolesInv
            <4> QED BY <1>5, <3>2, <4>2 DEF JInv, RolesInv
        <3>3. CASE m \in net /\ m.type # "GetRevocationKey"
            BY <1>5, <3>3 DEF JInv, RolesInv
        <3> QED BY <1>10, <3>1, <3>2, <3>3
    <2> QED BY <2>1, <2>2 DEF RolesInv
<1>17. OpenersInv'
    BY <1>5, <1>10, <1>11 DEF JInv, OpenersInv
<1> QED BY <1>14, <1>15, <1>16, <1>17 DEF JInv

\* UpdateState gets the key and files it with the output it opens.
LEMMA StateUpdatedStep ==
    ASSUME OneOpener, IInv, IInv', JInv, NEW n \in Nodes, StateUpdated(n)
    PROVE  JInv'
<1> TypeOK /\ TypeOK'
    BY DEF IInv
<1>1. PICK m \in net :
        /\ m.type = "RevocationKey" /\ m.to = n /\ Alive(n)
        /\ LET info == NewRevocationInfo(m.key, call[n].unsigned, TheirCoin(n))
           IN TheirRevocationKeys' = [TheirRevocationKeys EXCEPT ![n] =
                  Put(@, call[n].tx.hash, info)]
        /\ net' = DropReplies(n)
        /\ call' = [call EXCEPT ![n] = Idle]
        /\ UNCHANGED <<crashed, keys, open, Funder, MyTransactions, MyRevocationKeys>>
    BY DEF StateUpdated
<1>2. PICK tx, theirs : tx = call[n].tx /\ theirs = call[n].unsigned
    OBVIOUS
<1>3. PICK info : info = NewRevocationInfo(m.key, theirs, TheirCoin(n))
    OBVIOUS
<1>4. call[n].pc = "revoke" /\ n \in open
    BY <1>1 DEF IInv, RepliesInv, CallInv, Alive
<1>5. /\ TheirRevocationKeys' = [TheirRevocationKeys EXCEPT ![n] = Put(@, tx.hash, info)]
      /\ UNCHANGED <<crashed, keys, open, Funder, MyTransactions, MyRevocationKeys>>
    BY <1>1, <1>2, <1>3
<1>6. Peer(n) \in Nodes /\ Peer(n) # n /\ Peer(Peer(n)) = n
    BY PeerFacts
<1>7. tx \in Versions(n) /\ theirs \in Versions(Peer(n))
    <2>1. IsVersion(tx, n) /\ IsVersion(theirs, Peer(n))
        BY <1>2, <1>4, <1>6 DEF IsVersion
    <2> QED BY <2>1, VersionsAre
<1>8. Shape(theirs, Peer(n)) /\ theirs.update.owner = n /\ m.key = theirs.hash
    BY <1>1, <1>2, <1>4, <1>6, <1>7 DEF JInv, ShapeInv, RolesInv, Alive
<1>9. TheirCoin(n) + 1 = CoinOf(Peer(n))
    <2>1. Funder[n] <=> n \in Openers
        BY <1>4 DEF JInv, OpenersInv
    <2>2. n \in Openers <=> Peer(n) \notin Openers
        BY <1>4, <1>6 DEF JInv, OpenersInv, OneOpener
    <2> QED BY <2>1, <2>2 DEF TheirCoin, CoinOf
<1>10. RevKeySuccessful(info)
    <2>1. theirs.update # theirs.hash
        BY <1>6, <1>8 DEF Shape
    <2>2. PICK c : c = CoinOf(Peer(n))
        OBVIOUS
    <2>3. theirs.Outputs[c].ScriptType = "MULTI" /\ theirs.Outputs[c].RevocationKey = m.key
        BY <1>8, <2>1, <2>2 DEF Shape
    <2>4. /\ info.RevKey = m.key /\ info.TransactionOutput = theirs.Outputs[c]
          /\ info.ScriptType = theirs.Outputs[c].ScriptType
        BY <1>3, <1>9, <2>2 DEF NewRevocationInfo
    <2> QED BY <2>3, <2>4 DEF RevKeySuccessful
<1>11. \A q \in net' : q \in net /\ (q \in Replies => q.to # n)
    BY <1>1, DropFacts
<1>12. \A q \in Nodes : call'[q] = call[q] \/ (q = n /\ call'[q].pc = "idle")
    BY <1>1 DEF TypeOK, Idle
<1>13. \A q \in Nodes : keys[q] \in Nat /\ keys[q] <= keys'[q]
    BY <1>1 DEF TypeOK
<1>14. \A p \in Nodes : \A t \in Versions(p)' : t \in Versions(p)
    BY <1>5, <1>11, <1>12, NoNewVersions
<1>15. ShapeInv' /\ AgreeInv'
    BY <1>5, <1>13, <1>14, ShapesStay DEF JInv, SameView
<1>16. RefundInv' /\ FiledInv'
    <2>1. Refunds' \subseteq Refunds
        BY <1>5, <1>11, RefundsStay
    <2>2. /\ TheirRevocationKeys'[n] = Put(TheirRevocationKeys[n], tx.hash, info)
          /\ \A q \in Nodes \ {n} : TheirRevocationKeys'[q] = TheirRevocationKeys[q]
        BY <1>5 DEF TypeOK
    <2>3. \A q \in Nodes : \A h \in DOMAIN TheirRevocationKeys'[q] :
            \/ /\ h \in DOMAIN TheirRevocationKeys[q]
               /\ TheirRevocationKeys'[q][h] = TheirRevocationKeys[q][h]
            \/ h = tx.hash /\ TheirRevocationKeys'[q][h] = info
        BY <2>2 DEF Put
    <2>4. \A q \in Nodes : \A h \in DOMAIN TheirRevocationKeys'[q] :
            \/ /\ h \in DOMAIN TheirRevocationKeys[q]
               /\ TheirRevocationKeys'[q][h] = TheirRevocationKeys[q][h]
            \/ \E p \in Nodes : \E s \in Versions(p) :
                  s.hash = h /\ RevKeySuccessful(TheirRevocationKeys'[q][h])
        BY <1>7, <1>10, <2>3
    <2> QED BY <1>13, <1>14, <2>1, <2>4, FilesStay DEF JInv, SameView
<1>17. RolesInv'
    <2>1. \A q \in net' : q.type = "RevocationKey" => q.to # n
        BY <1>11 DEF TypeOK, Requests
    <2> QED BY <1>5, <1>11, <1>12, <1>13, <2>1, RolesStay DEF JInv
<1>18. OpenersInv'
    BY <1>5, <1>11, <1>12 DEF JInv, OpenersInv
<1> QED BY <1>15, <1>16, <1>17, <1>18 DEF JInv

-----------------------------------------------------------------------------
(* The theorems                                                            *)

\* Initially nobody holds a version or a refund.
LEMMA ChannelsInit == Init => JInv
<1> SUFFICES ASSUME Init PROVE JInv
    OBVIOUS
<1>1. \A p \in Nodes : Versions(p) = {}
    <2> SUFFICES ASSUME NEW p \in Nodes, NEW t PROVE ~IsVersion(t, p)
        BY VersionsAre
    <2>1. Peer(p) \in Nodes
        BY PeerFacts
    <2> QED BY <2>1 DEF Init, IsVersion, Idle
<1>2. Refunds = {}
    BY DEF Init, Refunds
<1>3. OpenersInv /\ RolesInv
    BY DEF Init, OpenersInv, RolesInv, Idle
<1>4. \A p \in Nodes : DOMAIN TheirRevocationKeys[p] = {}
    BY DEF Init
<1> QED BY <1>1, <1>2, <1>3, <1>4 DEF JInv, ShapeInv, AgreeInv, RefundInv, FiledInv

\* Every step keeps the invariant.
LEMMA ChannelsStep ==
    ASSUME OneOpener, IInv, IInv', JInv, [Next]_vars
    PROVE  JInv'
<1>1. ASSUME NEW n \in Nodes, CreateChannel(n) PROVE JInv'
    BY <1>1, CreateChannelStep
<1>2. ASSUME NEW n \in Nodes, OpenChannel(n) PROVE JInv'
    BY <1>2, OpenChannelStep
<1>3. ASSUME NEW n \in Nodes, ChannelCreated(n) PROVE JInv'
    BY <1>3, ChannelCreatedStep
<1>4. ASSUME NEW n \in Nodes,
             \/ ConnectToPeer(n) \/ FundingTimesOut(n) \/ CreateChannelFails(n)
             \/ UpdateStateFails(n) \/ RevocationFails(n) \/ GetUpdatedTransactionsPanics(n)
      PROVE  JInv'
    BY <1>4, BystanderSteps
<1>5. ASSUME NEW n \in Nodes, UpdateState(n) PROVE JInv'
    BY <1>5, UpdateStateStep
<1>6. ASSUME NEW n \in Nodes, GetUpdatedTransactions(n) PROVE JInv'
    BY <1>6, GetUpdatedTransactionsStep
<1>7. ASSUME NEW n \in Nodes, SendRevocationKey(n) PROVE JInv'
    BY <1>7, SendRevocationKeyStep
<1>8. ASSUME NEW n \in Nodes, GetRevocationKey(n) PROVE JInv'
    BY <1>8, GetRevocationKeyStep
<1>9. ASSUME NEW n \in Nodes, StateUpdated(n) PROVE JInv'
    BY <1>9, StateUpdatedStep
<1>10. CASE UNCHANGED vars
    BY <1>10, BystanderStep DEF vars
<1> QED
    BY <1>1, <1>2, <1>3, <1>4, <1>5, <1>6, <1>7, <1>8, <1>9, <1>10 DEF Next

\* With one opener the invariant of the channels holds in every reachable state.
THEOREM ChannelInvariance ==
    ASSUME OneOpener
    PROVE  Spec => [](IInv /\ JInv)
<1>1. Init => IInv /\ JInv
    BY InitInv, ChannelsInit
<1>2. IInv /\ JInv /\ [Next]_vars => (IInv /\ JInv)'
    BY StepInv, ChannelsStep
<1> QED BY <1>1, <1>2, PTL DEF Spec

\* Where a version's revocable output is.
LEMMA RevocableAt ==
    ASSUME NEW t, NEW p \in Nodes, t.hash \in Key, DOMAIN t.Outputs = 1..2, Shape(t, p)
    PROVE  RevocableIndex(t) = CoinOf(p)
<1>1. CoinOf(p) \in 1..2 /\ \A x \in 1..2 : x = CoinOf(p) \/ x = 3 - CoinOf(p)
    BY DEF CoinOf
<1>2. \A x \in 1..2 : t.Outputs[x].RevocationKey = t.hash <=> x = CoinOf(p)
    BY <1>1, NoKeyAssumption DEF Shape
<1> QED BY <1>1, <1>2 DEF RevocableIndex

\* When one side opens the channel, the two versions of every update agree on
\* the amounts, which add up to the capacity, and each side can revoke its own
\* output only (UpdateState, generateTransactionWithCorrectScripts).
THEOREM UpdatesAgree ==
    ASSUME OneOpener
    PROVE  Spec => []VersionsAgree
<1>1. IInv /\ JInv => VersionsAgree
    <2> SUFFICES ASSUME IInv, JInv,
                        NEW i \in 2..Len(MyTransactions[Alice]),
                        NEW j \in 2..Len(MyTransactions[Bob]),
                        MyTransactions[Alice][i].update = MyTransactions[Bob][j].update
                 PROVE  LET a == MyTransactions[Alice][i]
                            b == MyTransactions[Bob][j]
                        IN /\ \A x \in 1..2 : a.Outputs[x].Amount = b.Outputs[x].Amount
                           /\ a.Outputs[1].Amount + a.Outputs[2].Amount = Amount
                           /\ RevocableIndex(a) # RevocableIndex(b)
        BY DEF VersionsAgree
    <2>1. PICK a, b : a = MyTransactions[Alice][i] /\ b = MyTransactions[Bob][j]
        OBVIOUS
    <2>2. Alice \in Nodes /\ Bob \in Nodes /\ Peer(Alice) = Bob
        BY DEF Nodes, Peer
    <2>3. a \in Versions(Alice) /\ b \in Versions(Bob)
        BY <2>1, VersionsAre DEF IsVersion
    <2>4. Shape(a, Alice) /\ Shape(b, Bob) /\ SameAmounts(a, b)
        BY <2>1, <2>2, <2>3 DEF JInv, ShapeInv, AgreeInv
    <2>5. a \in Transaction /\ b \in Transaction /\ a.hash \in Key /\ b.hash \in Key
        BY <2>2, <2>3, VersionTypes DEF IInv
    <2>6. DOMAIN a.Outputs = 1..2 /\ DOMAIN b.Outputs = 1..2
        <3>1. Len(a.Outputs) = 2 /\ Len(b.Outputs) = 2
            BY <2>1, <2>4 DEF IInv, ChannelInv, Shape
        <3>2. a.Outputs \in Seq(Output) /\ b.Outputs \in Seq(Output)
            BY <2>5 DEF Transaction
        <3> QED BY <3>1, <3>2
    <2>7. RevocableIndex(a) = CoinOf(Alice) /\ RevocableIndex(b) = CoinOf(Bob)
        BY <2>2, <2>4, <2>5, <2>6, RevocableAt
    <2>8. CoinOf(Alice) # CoinOf(Bob)
        BY <2>2, <2>4, NodesAssumption DEF JInv, OpenersInv, OneOpener, CoinOf, Shape
    <2> QED BY <2>1, <2>4, <2>7, <2>8 DEF SameAmounts, Shape
<1> QED BY <1>1, ChannelInvariance, PTL

\* When one side opens the channel, what the initiator of an update filed to
\* punish its peer is the right key for the right output (UpdateState).
THEOREM InitiatorsCanPunish ==
    ASSUME OneOpener
    PROVE  Spec => []InitiatorCanPunish
<1>1. IInv /\ JInv => InitiatorCanPunish
    <2> SUFFICES ASSUME IInv, JInv, NEW n \in Nodes, NEW i \in 1..Len(MyTransactions[n]), NEW tx,
                        tx = MyTransactions[n][i], tx.update = tx.hash,
                        tx.hash \in DOMAIN TheirRevocationKeys[n]
                 PROVE  RevKeySuccessful(TheirRevocationKeys[n][tx.hash])
        BY DEF InitiatorCanPunish
    <2>1. i \in 2..Len(MyTransactions[n])
        <3>1. n \in open
            BY DEF JInv, OpenersInv
        <3>2. i = 1 => tx \in Refunds
            BY <3>1 DEF Refunds
        <3>3. i # 1
            BY <3>2 DEF JInv, RefundInv
        <3>4. Len(MyTransactions[n]) \in Nat
            BY DEF IInv, TypeOK
        <3> QED BY <3>3, <3>4
    <2>2. tx \in Versions(n)
        BY <2>1, VersionsAre DEF IsVersion
    <2> QED BY <2>2 DEF JInv, FiledInv
<1> QED BY <1>1, ChannelInvariance, PTL

\* Appending keeps what was there.
LEMMA AppendPrefix ==
    ASSUME NEW S, NEW s \in Seq(S), NEW x
    PROVE  IsPrefixOf(s, s) /\ IsPrefixOf(s, Append(s, x))
<1>1. Len(s) \in Nat /\ SubSeq(s, 1, Len(s)) = s
    OBVIOUS
<1>2. Len(Append(s, x)) = Len(s) + 1 /\ SubSeq(Append(s, x), 1, Len(s)) = s
    OBVIOUS
<1> QED BY <1>1, <1>2 DEF IsPrefixOf

\* One step of one node, seen from an open channel.
KeptBy(n) ==
    /\ n \in open'
    /\ Funder'[n] = Funder[n]
    /\ State'[n] >= State[n]
    /\ IsPrefixOf(MyTransactions[n], MyTransactions'[n])
    /\ IsPrefixOf(TheirTransactions[n], TheirTransactions'[n])

\* An entry that stays, or to which a step appends, is kept.
LEMMA Kept ==
    ASSUME TypeOK, NEW n \in open, open \subseteq open', Funder'[n] = Funder[n],
           State'[n] = State[n] \/ State'[n] = State[n] + 1,
           \/ MyTransactions'[n] = MyTransactions[n]
           \/ \E t : MyTransactions'[n] = Append(MyTransactions[n], t),
           \/ TheirTransactions'[n] = TheirTransactions[n]
           \/ \E t : TheirTransactions'[n] = Append(TheirTransactions[n], t)
    PROVE  KeptBy(n)
<1>1. /\ State[n] \in Nat /\ MyTransactions[n] \in Seq(Transaction)
      /\ TheirTransactions[n] \in Seq(Transaction)
    BY DEF TypeOK
<1>2. IsPrefixOf(MyTransactions[n], MyTransactions'[n])
    BY <1>1, AppendPrefix
<1>3. IsPrefixOf(TheirTransactions[n], TheirTransactions'[n])
    BY <1>1, AppendPrefix
<1>4. State'[n] >= State[n]
    BY <1>1
<1> QED BY <1>2, <1>3, <1>4 DEF KeptBy

\* Steps of a node on a channel that exists.
LEMMA StepsKeep ==
    ASSUME OneOpener, IInv, IInv', JInv, [Next]_vars, NEW q \in open
    PROVE  KeptBy(q)
<1> USE DEF channelVars
<1>1. TypeOK /\ q \in Nodes
    BY DEF IInv, TypeOK
<1>2. CASE UNCHANGED channelVars
    BY <1>1, <1>2, Kept
<1>3. ASSUME NEW n \in Nodes, OpenChannel(n), ~UNCHANGED channelVars PROVE KeptBy(q)
    <2>1. n \notin open
        BY <1>3 DEF OpenChannel, RefuseChannel
    <2>2. PICK refund, k : NewChannel(n, FALSE, refund, k)
        BY <1>3 DEF OpenChannel
    <2>3. /\ open \subseteq open' /\ Funder'[q] = Funder[q] /\ State'[q] = State[q]
          /\ MyTransactions'[q] = MyTransactions[q] /\ TheirTransactions'[q] = TheirTransactions[q]
        BY <1>1, <2>1, <2>2 DEF NewChannel, TypeOK
    <2> QED BY <1>1, <2>3, Kept
<1>4. ASSUME NEW n \in Nodes, ChannelCreated(n) PROVE KeptBy(q)
    <2>1. n \notin open
        BY <1>4, ChannelCreatedStep
    <2>2. PICK refund, k : NewChannel(n, TRUE, refund, k)
        BY <1>4 DEF ChannelCreated
    <2>3. /\ open \subseteq open' /\ Funder'[q] = Funder[q] /\ State'[q] = State[q]
          /\ MyTransactions'[q] = MyTransactions[q] /\ TheirTransactions'[q] = TheirTransactions[q]
        BY <1>1, <2>1, <2>2 DEF NewChannel, TypeOK
    <2> QED BY <1>1, <2>3, Kept
<1>5. ASSUME NEW n \in Nodes, UpdateState(n) PROVE KeptBy(q)
    BY <1>1, <1>5, Kept DEF UpdateState
<1>6. ASSUME NEW n \in Nodes, GetUpdatedTransactions(n) PROVE KeptBy(q)
    <2>1. PICK t : TheirTransactions' = [TheirTransactions EXCEPT ![n] = Append(@, t)]
        BY <1>6 DEF GetUpdatedTransactions
    <2>2. \/ TheirTransactions'[q] = TheirTransactions[q]
          \/ TheirTransactions'[q] = Append(TheirTransactions[q], t)
        BY <1>1, <2>1 DEF TypeOK
    <2>3. UNCHANGED <<open, Funder, State, MyTransactions>>
        BY <1>6 DEF GetUpdatedTransactions
    <2> QED BY <1>1, <2>2, <2>3, Kept
<1>7. ASSUME NEW n \in Nodes, SendRevocationKey(n) PROVE KeptBy(q)
    <2>1. PICK t, u : /\ MyTransactions' = [MyTransactions EXCEPT ![n] = Append(@, t)]
                      /\ TheirTransactions' = [TheirTransactions EXCEPT ![n] = Append(@, u)]
        BY <1>7 DEF SendRevocationKey
    <2>2. /\ \/ MyTransactions'[q] = MyTransactions[q]
             \/ MyTransactions'[q] = Append(MyTransactions[q], t)
          /\ \/ TheirTransactions'[q] = TheirTransactions[q]
             \/ TheirTransactions'[q] = Append(TheirTransactions[q], u)
        BY <1>1, <2>1 DEF TypeOK
    <2>3. UNCHANGED <<open, Funder, State>>
        BY <1>7 DEF SendRevocationKey
    <2> QED BY <1>1, <2>2, <2>3, Kept
<1>8. ASSUME NEW n \in Nodes, GetRevocationKey(n) PROVE KeptBy(q)
    <2>1. PICK t : /\ MyTransactions' = [MyTransactions EXCEPT ![n] = Append(@, t)]
                   /\ State' = [State EXCEPT ![n] = @ + 1]
        BY <1>8 DEF GetRevocationKey
    <2>2. /\ \/ MyTransactions'[q] = MyTransactions[q]
             \/ MyTransactions'[q] = Append(MyTransactions[q], t)
          /\ State'[q] = State[q] \/ State'[q] = State[q] + 1
        BY <1>1, <2>1 DEF TypeOK
    <2>3. UNCHANGED <<open, Funder, TheirTransactions>>
        BY <1>8 DEF GetRevocationKey
    <2> QED BY <1>1, <2>2, <2>3, Kept
<1>9. ASSUME NEW n \in Nodes, StateUpdated(n) PROVE KeptBy(q)
    <2>1. /\ State' = [State EXCEPT ![n] = @ + 1]
          /\ UNCHANGED <<open, Funder, MyTransactions, TheirTransactions>>
        BY <1>9 DEF StateUpdated
    <2>2. State'[q] = State[q] \/ State'[q] = State[q] + 1
        BY <1>1, <2>1 DEF TypeOK
    <2> QED BY <1>1, <2>1, <2>2, Kept
<1>10. ASSUME NEW n \in Nodes,
              \/ ConnectToPeer(n) \/ CreateChannel(n) \/ FundingTimesOut(n)
              \/ CreateChannelFails(n) \/ UpdateStateFails(n) \/ RevocationFails(n)
              \/ GetUpdatedTransactionsPanics(n)
       PROVE UNCHANGED channelVars
    BY <1>10 DEF ConnectToPeer, CreateChannel, FundingTimesOut, CreateChannelFails,
                 UpdateStateFails, RevocationFails, GetUpdatedTransactionsPanics
<1>11. UNCHANGED vars => UNCHANGED channelVars
    BY DEF vars
<1> QED
    BY <1>2, <1>3, <1>4, <1>5, <1>6, <1>7, <1>8, <1>9, <1>10, <1>11 DEF Next

\* When one side opens the channel no step replaces an open channel, shortens
\* its transactions or turns its state back (OpenChannel, CreateChannel).
THEOREM ChannelsAreKept ==
    ASSUME OneOpener
    PROVE  Spec => ChannelKept
<1>1. (IInv /\ JInv) /\ (IInv /\ JInv)' /\ [Next]_vars =>
          [\A n \in open :
              /\ n \in open'
              /\ Funder'[n] = Funder[n]
              /\ State'[n] >= State[n]
              /\ IsPrefixOf(MyTransactions[n], MyTransactions'[n])
              /\ IsPrefixOf(TheirTransactions[n], TheirTransactions'[n])]_vars
    BY StepsKeep DEF KeptBy
<1> QED BY <1>1, ChannelInvariance, PTL DEF Spec, ChannelKept
-----------------------------------------------------------------------------
(* One updater and no losses: the slices are indexed by state              *)

\* At most one node's user calls UpdateState.
OneUpdater == \A m, n \in Updaters : m = n

\* u, who alone updates, and its peer are in step.  Between its two RPCs u is one
\* transaction ahead; its peer follows when it serves the second one.
InStep(u) ==
    LET mine == MyTransactions[u]
        theirs == MyTransactions[Peer(u)]
    IN /\ Len(theirs) = State[Peer(u)] + 1
       /\ call[u].pc # "revoke" =>
             /\ Len(mine) = State[u] + 1 /\ State[u] = State[Peer(u)]
             /\ mine[Len(mine)].update = theirs[Len(theirs)].update
             /\ \A m \in net : m.type # "GetRevocationKey"
       /\ call[u].pc = "revoke" =>
             /\ Len(mine) = State[u] + 2
             /\ \/ /\ State[Peer(u)] = State[u]
                   /\ \A m \in net : m.type # "RevocationKey"
                   /\ \A m \in net : m.type = "GetRevocationKey" =>
                         /\ m.tx.update = mine[Len(mine)].update
                         /\ \A r \in net : r.type = "GetRevocationKey" => r = m
                \/ /\ State[Peer(u)] = State[u] + 1
                   /\ mine[Len(mine)].update = theirs[Len(theirs)].update
                   /\ \A m \in net : m.type # "GetRevocationKey"

\* A message of an update goes between u and its peer, and from the first answer
\* on both have the channel; what an answer carries belongs together; an error
\* answers CreateChannel.
FlowsRight(u, m) ==
    /\ m.type \in {"GetUpdatedTransactions", "GetRevocationKey"} => m.from = u
    /\ m.type \in {"UpdatedTransactions", "RevocationKey"} => m.to = u
    /\ m.type \in {"GetRevocationKey", "UpdatedTransactions", "RevocationKey"} => open = Nodes
    /\ m.type = "Error" => call[m.to].pc = "open"
    /\ m.type = "OpenChannelResponse" => m.refund.update = MyTransactions[Peer(m.to)][1].update
    /\ m.type = "UpdatedTransactions" => m.signed.update = m.unsigned.update

FlowInv(u) ==
    /\ call[Peer(u)].pc \in {"idle", "open"}
    /\ call[u].pc = "revoke" => open = Nodes
    /\ \A m \in net : FlowsRight(u, m)

\* A channel that one side has is new, one that both have is in step.
PairInv(u) ==
    /\ open # Nodes => \A n \in open : State[n] = 0 /\ Len(MyTransactions[n]) = 1
    /\ open = Nodes => InStep(u)

\* The invariant, as long as nobody died.
StepsInv(u) == crashed = {} => FlowInv(u) /\ PairInv(u)

\* A step that touches neither slices nor states, sends nothing for the second
\* RPC and neither starts nor ends it.
LEMMA PairStays ==
    ASSUME NEW u, PairInv(u), UNCHANGED <<open, State, MyTransactions>>,
           call'[u].pc = "revoke" <=> call[u].pc = "revoke",
           \A m \in net' : m.type \in {"GetRevocationKey", "RevocationKey"} => m \in net
    PROVE  PairInv(u)'
<1>1. InStep(u) => InStep(u)'
    BY DEF InStep
<1> QED BY <1>1 DEF PairInv

\* The messages a step leaves in flight.
LEMMA FlowStays ==
    ASSUME NEW u, FlowInv(u), UNCHANGED <<open, MyTransactions>>,
           call'[Peer(u)].pc \in {"idle", "open"},
           call'[u].pc = "revoke" => open = Nodes,
           \A m \in net' : \/ m \in net /\ (m.type = "Error" => call'[m.to].pc = "open")
                           \/ FlowsRight(u, m)'
    PROVE  FlowInv(u)'
<1>1. ASSUME NEW m \in net, m.type = "Error" => call'[m.to].pc = "open"
      PROVE  FlowsRight(u, m)'
    BY <1>1 DEF FlowInv, FlowsRight
<1> QED BY <1>1 DEF FlowInv

\* The caller of CreateChannel and the one who takes its failure.
LEMMA CreatePair ==
    ASSUME IInv, NEW u \in Nodes, FlowInv(u), PairInv(u), NEW n \in Nodes, CreateChannel(n)
    PROVE  FlowInv(u)' /\ PairInv(u)'
<1>1. TypeOK /\ Peer(u) \in Nodes
    BY PeerFacts DEF IInv
<1>2. PICK k, refund :
          /\ call' = [call EXCEPT ![n] = [pc |-> "open", tx |-> refund]]
          /\ net' = net \cup {[type |-> "OpenChannel", from |-> n, id |-> k, refund |-> refund]}
    BY DEF CreateChannel
<1>3. call[n].pc = "idle" /\ UNCHANGED <<open, State, MyTransactions>>
    BY DEF CreateChannel, Free, Idle, channelVars
<1>4. \A q \in Nodes : call'[q].pc = IF q = n THEN "open" ELSE call[q].pc
    BY <1>1, <1>2 DEF TypeOK
<1>5. ASSUME NEW m \in net'
      PROVE  /\ m.type \in {"GetRevocationKey", "RevocationKey"} => m \in net
             /\ \/ m \in net /\ (m.type = "Error" => call'[m.to].pc = "open")
                \/ FlowsRight(u, m)'
    <2>1. CASE m \in net
        <3>1. m.type = "Error" => call[m.to].pc = "open" /\ m.to \in Nodes
            BY <1>1, <2>1 DEF FlowInv, FlowsRight, TypeOK, Requests, Replies
        <3> QED BY <1>4, <2>1, <3>1
    <2>2. CASE m \notin net
        <3>1. m.type = "OpenChannel"
            BY <1>2, <2>2
        <3> QED BY <3>1 DEF FlowsRight
    <2> QED BY <2>1, <2>2
<1>6. call'[u].pc = "revoke" <=> call[u].pc = "revoke"
    BY <1>3, <1>4
<1>7. call'[Peer(u)].pc \in {"idle", "open"} /\ (call'[u].pc = "revoke" => open = Nodes)
    BY <1>1, <1>4, <1>6 DEF FlowInv
<1>8. FlowInv(u)'
    BY <1>3, <1>5, <1>7, FlowStays
<1>9. PairInv(u)'
    BY <1>3, <1>5, <1>6, PairStays
<1> QED BY <1>8, <1>9

\* CreateChannel fails: its error is taken with it.
LEMMA CreateFailsPair ==
    ASSUME IInv, NEW u \in Nodes, FlowInv(u), PairInv(u), NEW n \in Nodes, CreateChannelFails(n)
    PROVE  FlowInv(u)' /\ PairInv(u)'
<1>1. TypeOK /\ Peer(u) \in Nodes
    BY PeerFacts DEF IInv
<1>2. /\ call[n].pc = "open" /\ call' = [call EXCEPT ![n] = Idle] /\ net' = DropReplies(n)
      /\ UNCHANGED <<open, State, MyTransactions>>
    BY DEF CreateChannelFails, channelVars
<1>3. \A q \in Nodes : call'[q].pc = IF q = n THEN "idle" ELSE call[q].pc
    BY <1>1, <1>2 DEF TypeOK, Idle
<1>4. ASSUME NEW m \in net'
      PROVE  m \in net /\ (m.type = "Error" => call'[m.to].pc = "open")
    <2>1. m \in net /\ ~(m \in Replies /\ m.to = n)
        BY <1>2 DEF DropReplies
    <2>2. m.type = "Error" => m \in Replies /\ m.to \in Nodes /\ call[m.to].pc = "open"
        BY <1>1, <2>1 DEF FlowInv, FlowsRight, TypeOK, Requests, Replies
    <2> QED BY <1>3, <2>1, <2>2
<1>5. call'[u].pc = "revoke" <=> call[u].pc = "revoke"
    BY <1>2, <1>3
<1>6. call'[Peer(u)].pc \in {"idle", "open"} /\ (call'[u].pc = "revoke" => open = Nodes)
    BY <1>1, <1>3, <1>5 DEF FlowInv
<1>7. FlowInv(u)'
    BY <1>2, <1>4, <1>6, FlowStays
<1>8. PairInv(u)'
    BY <1>2, <1>4, <1>5, PairStays
<1> QED BY <1>7, <1>8

\* The second RPC of an update fails with losses or a dead peer only: no handler
\* answers it with an error.
LEMMA RevocationHeard ==
    ASSUME Lossy = FALSE, crashed = {}, IInv, NEW u \in Nodes, FlowInv(u),
           NEW n \in Nodes, RevocationFails(n)
    PROVE  FALSE
<1>1. call[n].pc = "revoke" /\ CallFails(n)
    BY DEF RevocationFails
<1>2. PICK m \in net : m.type = "Error" /\ m.to = n
    BY <1>1 DEF CallFails
<1> QED BY <1>1, <1>2 DEF FlowInv, FlowsRight

\* UpdateState up to its first RPC.
LEMMA UpdatePair ==
    ASSUME IInv, NEW u \in Nodes, Peer(u) \notin Updaters, FlowInv(u), PairInv(u),
           NEW n \in Nodes, UpdateState(n)
    PROVE  FlowInv(u)' /\ PairInv(u)'
<1>1. TypeOK /\ Peer(u) \in Nodes /\ Peer(u) # u
    BY PeerFacts DEF IInv
<1>2. n = u
    BY PeerFacts DEF UpdateState
<1>3. PICK k, tx :
          /\ call' = [call EXCEPT ![n] = [pc |-> "update", tx |-> tx]]
          /\ net' = net \cup {[type |-> "GetUpdatedTransactions", from |-> n, id |-> k, tx |-> tx]}
    BY DEF UpdateState
<1>4. call[n].pc = "idle" /\ UNCHANGED <<open, State, MyTransactions>>
    BY DEF UpdateState, Free, Idle
<1>5. \A q \in Nodes : call'[q].pc = IF q = n THEN "update" ELSE call[q].pc
    BY <1>1, <1>3 DEF TypeOK
<1>6. ASSUME NEW m \in net'
      PROVE  /\ m.type \in {"GetRevocationKey", "RevocationKey"} => m \in net
             /\ \/ m \in net /\ (m.type = "Error" => call'[m.to].pc = "open")
                \/ FlowsRight(u, m)'
    <2>1. CASE m \in net
        <3>1. m.type = "Error" => call[m.to].pc = "open" /\ m.to \in Nodes
            BY <1>1, <2>1 DEF FlowInv, FlowsRight, TypeOK, Requests, Replies
        <3> QED BY <1>4, <1>5, <2>1, <3>1
    <2>2. CASE m \notin net
        <3>1. m.type = "GetUpdatedTransactions" /\ m.from = u
            BY <1>2, <1>3, <2>2
        <3> QED BY <3>1 DEF FlowsRight
    <2> QED BY <2>1, <2>2
<1>7. call'[u].pc = "update" /\ call[u].pc = "idle"
    BY <1>2, <1>4, <1>5
<1>8. call'[Peer(u)].pc \in {"idle", "open"}
    BY <1>1, <1>2, <1>5 DEF FlowInv
<1>9. FlowInv(u)'
    BY <1>4, <1>6, <1>7, <1>8, FlowStays
<1>10. PairInv(u)'
    BY <1>4, <1>6, <1>7, PairStays
<1> QED BY <1>9, <1>10

\* The peer serves the first RPC.
LEMMA ServePair ==
    ASSUME IInv, NEW u \in Nodes, FlowInv(u), PairInv(u), NEW n \in Nodes,
           GetUpdatedTransactions(n)
    PROVE  FlowInv(u)' /\ PairInv(u)'
<1>1. TypeOK /\ CallInv
    BY DEF IInv
<1>2. UNCHANGED <<open, State, MyTransactions, call>>
    BY DEF GetUpdatedTransactions
<1>3. PICK r, k :
          /\ r \in net
          /\ r.type = "GetUpdatedTransactions" /\ r.from = Peer(n) /\ n \in open
          /\ Answer(r, [type |-> "UpdatedTransactions", to |-> r.from, id |-> r.id,
                        signed |-> SignTransaction(n, r.tx),
                        unsigned |-> generateTransactionWithCorrectScripts(n, r.tx, k)])
    BY DEF GetUpdatedTransactions
<1>4. PICK s, t : s = SignTransaction(n, r.tx) /\ t = generateTransactionWithCorrectScripts(n, r.tx, k)
    OBVIOUS
<1>5. s.update = t.update
    <2>1. r.tx \in Transaction
        BY <1>1, <1>3 DEF TypeOK, Requests, Replies
    <2> QED BY <1>4, <2>1, SignFacts DEF generateTransactionWithCorrectScripts
<1>6. r.from = u
    BY <1>3 DEF FlowInv, FlowsRight
<1>7. ASSUME NEW m \in net', m \notin net
      PROVE  /\ m = [type |-> "UpdatedTransactions", to |-> r.from, id |-> r.id,
                     signed |-> s, unsigned |-> t]
             /\ call[u].pc = "update"
    BY <1>3, <1>4, <1>6, <1>7 DEF Answer, Waiting
<1>8. ASSUME NEW m \in net'
      PROVE  /\ m.type \in {"GetRevocationKey", "RevocationKey"} => m \in net
             /\ \/ m \in net /\ (m.type = "Error" => call'[m.to].pc = "open")
                \/ FlowsRight(u, m)'
    <2>1. CASE m \in net
        BY <1>2, <2>1 DEF FlowInv, FlowsRight
    <2>2. CASE m \notin net
        <3>1. /\ m.type = "UpdatedTransactions" /\ m.to = u /\ m.signed = s /\ m.unsigned = t
              /\ call[u].pc = "update"
            BY <1>6, <1>7, <2>2
        <3>2. open = Nodes
            <4>1. u \in open
                BY <1>1, <3>1 DEF CallInv
            <4>2. Nodes = {n, u}
                BY <1>3, <1>6, PeerFacts
            <4> QED BY <1>1, <1>3, <4>1, <4>2 DEF TypeOK
        <3> QED BY <1>2, <1>5, <3>1, <3>2 DEF FlowsRight
    <2> QED BY <2>1, <2>2
<1>9. FlowInv(u)'
    BY <1>2, <1>8, FlowStays DEF FlowInv
<1>10. PairInv(u)'
    BY <1>2, <1>8, PairStays
<1> QED BY <1>9, <1>10

\* The peer opens the channel: it is the first to have it.
LEMMA OpenPair ==
    ASSUME OneOpener, IInv, JInv, NEW u \in Nodes, FlowInv(u), PairInv(u), NEW n \in Nodes,
           OpenChannel(n)
    PROVE  FlowInv(u)' /\ PairInv(u)'
<1>1. TypeOK /\ OpenersInv /\ Peer(n) \in Nodes /\ Peer(n) # n /\ Nodes = {n, Peer(n)}
    BY PeerFacts DEF IInv, JInv
<1>2. PICK r \in net :
          /\ r.type = "OpenChannel" /\ r.from = Peer(n)
          /\ IF RefuseChannel(n)
             THEN Answer(r, Error(r)) /\ UNCHANGED channelVars
             ELSE LET refund == SignTransaction(n, r.refund)
                  IN /\ NewChannel(n, FALSE, refund, GenerateRevocationKey(n))
                     /\ Answer(r, [type |-> "OpenChannelResponse", to |-> r.from,
                                   id |-> r.id, refund |-> refund])
          /\ UNCHANGED call
    BY DEF OpenChannel
<1>3. CASE RefuseChannel(n)
    <2>1. UNCHANGED <<open, State, MyTransactions, call>> /\ Answer(r, Error(r))
        BY <1>2, <1>3 DEF channelVars
    <2>2. ASSUME NEW m \in net', m \notin net
          PROVE  m.type = "Error" /\ m.to = r.from /\ call[m.to].pc = "open"
        <3>1. m = Error(r) /\ Waiting(r)
            BY <2>1, <2>2 DEF Answer
        <3>2. m.type = "Error" /\ m.to = r.from
            BY <3>1 DEF Error
        <3>3. call[r.from].pc = "open"
            BY <1>2, <3>1 DEF Waiting
        <3> QED BY <3>2, <3>3
    <2>3. ASSUME NEW m \in net'
          PROVE  /\ m.type \in {"GetRevocationKey", "RevocationKey"} => m \in net
                 /\ \/ m \in net /\ (m.type = "Error" => call'[m.to].pc = "open")
                    \/ FlowsRight(u, m)'
        <3>1. CASE m \in net
            BY <2>1, <3>1 DEF FlowInv, FlowsRight
        <3>2. CASE m \notin net
            BY <2>1, <2>2, <3>2 DEF FlowsRight
        <3> QED BY <3>1, <3>2
    <2>4. FlowInv(u)'
        BY <2>1, <2>3, FlowStays DEF FlowInv
    <2>5. PairInv(u)'
        BY <2>1, <2>3, PairStays
    <2> QED BY <2>4, <2>5
<1>4. CASE ~RefuseChannel(n)
    <2>1. PICK f : f = SignTransaction(n, r.refund)
        OBVIOUS
    <2>2. /\ open' = open \cup {n} /\ State' = [State EXCEPT ![n] = 0]
          /\ MyTransactions' = [MyTransactions EXCEPT ![n] = <<f>>]
          /\ call' = call
          /\ Answer(r, [type |-> "OpenChannelResponse", to |-> r.from, id |-> r.id, refund |-> f])
        BY <1>2, <1>4, <2>1 DEF NewChannel
    <2>3. open = {}
        <3>1. n \notin open
            BY <1>4 DEF RefuseChannel
        <3>2. Peer(n) \in Openers
            BY <1>1, <1>2 DEF OpenersInv
        <3>3. Peer(n) \notin open
            BY <1>1, <3>1, <3>2, PeerFacts DEF OpenersInv
        <3> QED BY <1>1, <3>1, <3>3 DEF TypeOK
    <2>4. open' = {n} /\ open' # Nodes /\ open # Nodes
        BY <1>1, <2>2, <2>3
    <2>5. State'[n] = 0 /\ MyTransactions'[n] = <<f>>
        BY <1>1, <2>2 DEF TypeOK
    <2>6. PairInv(u)'
        <3>1. Len(<<f>>) = 1
            OBVIOUS
        <3> QED BY <2>4, <2>5, <3>1 DEF PairInv
    <2>7. ASSUME NEW m \in net' PROVE FlowsRight(u, m)'
        <3>1. CASE m \in net
            <4>1. m.type # "OpenChannelResponse"
                BY <1>1, <2>3, <3>1 DEF OpenersInv
            <4>2. m.type \notin {"GetRevocationKey", "UpdatedTransactions", "RevocationKey"}
                BY <2>4, <3>1 DEF FlowInv, FlowsRight
            <4> QED BY <2>2, <3>1, <4>1, <4>2 DEF FlowInv, FlowsRight
        <3>2. CASE m \notin net
            <4>1. m.type = "OpenChannelResponse" /\ m.to = Peer(n) /\ m.refund = f
                BY <1>2, <2>2, <3>2 DEF Answer
            <4>2. MyTransactions'[Peer(m.to)][1] = f
                BY <2>5, <4>1, PeerFacts
            <4> QED BY <4>1, <4>2 DEF FlowsRight
        <3> QED BY <3>1, <3>2
    <2>8. call[u].pc # "revoke" /\ call[Peer(u)].pc \in {"idle", "open"}
        BY <2>4 DEF FlowInv
    <2> QED BY <2>2, <2>6, <2>7, <2>8 DEF FlowInv
<1> QED BY <1>3, <1>4

\* The opener has the channel too: both are at state 0, with the same refund.
LEMMA CreatedPair ==
    ASSUME OneOpener, crashed = {}, IInv, JInv, NEW u \in Nodes, FlowInv(u), PairInv(u),
           NEW n \in Nodes, ChannelCreated(n)
    PROVE  FlowInv(u)' /\ PairInv(u)'
<1>1. /\ TypeOK /\ OpenersInv /\ RepliesInv /\ ChannelInv
      /\ Peer(n) \in Nodes /\ Peer(n) # n /\ Nodes = {n, Peer(n)} /\ Peer(Peer(n)) = n
    BY PeerFacts DEF IInv, JInv
<1>2. PICK m \in net :
          /\ m.type = "OpenChannelResponse" /\ m.to = n
          /\ NewChannel(n, TRUE, m.refund, call[n].tx.hash)
          /\ net' = DropReplies(n) /\ call' = [call EXCEPT ![n] = Idle]
    BY DEF ChannelCreated
<1>3. n \notin open /\ Peer(n) \in open /\ call[n].pc = "open"
    BY <1>1, <1>2 DEF OpenersInv, RepliesInv
<1>4. open = {Peer(n)} /\ open # Nodes
    BY <1>1, <1>3 DEF TypeOK
<1>5. PICK f : f = m.refund
    OBVIOUS
<1>6. /\ open' = Nodes /\ State'[n] = 0 /\ State'[Peer(n)] = 0
      /\ MyTransactions'[n] = <<f>> /\ MyTransactions'[Peer(n)] = MyTransactions[Peer(n)]
    BY <1>1, <1>2, <1>4, <1>5 DEF NewChannel, TypeOK, PairInv
<1>7. /\ Len(<<f>>) = 1 /\ <<f>>[1] = f /\ Len(MyTransactions[Peer(n)]) = 1
      /\ f.update = MyTransactions[Peer(n)][1].update
    BY <1>2, <1>4, <1>5 DEF PairInv, FlowInv, FlowsRight
<1>8. \A q \in Nodes : call'[q].pc = IF q = n THEN "idle" ELSE call[q].pc
    BY <1>1, <1>2 DEF TypeOK, Idle
<1>9. call[u].pc # "revoke" /\ call'[u].pc # "revoke" /\ call'[Peer(u)].pc \in {"idle", "open"}
    BY <1>3, <1>4, <1>8, PeerFacts DEF FlowInv
<1>10. ASSUME NEW r \in net'
       PROVE  r \in net /\ ~(r \in Replies /\ r.to = n)
    BY <1>2, <1>10 DEF DropReplies
<1>11. ASSUME NEW r \in net'
       PROVE  FlowsRight(u, r)' /\ r.type # "GetRevocationKey"
    <2>1. r.type \notin {"GetRevocationKey", "UpdatedTransactions", "RevocationKey"}
        BY <1>4, <1>10 DEF FlowInv, FlowsRight
    <2>2. r.type = "Error" => call'[r.to].pc = "open"
        <3>1. r.type = "Error" => r \in Replies /\ r.to \in Nodes /\ call[r.to].pc = "open"
            BY <1>1, <1>10 DEF FlowInv, FlowsRight, TypeOK, Requests, Replies
        <3> QED BY <1>8, <1>10, <3>1
    <2>3. r.type # "OpenChannelResponse"
        <3>1. r.type = "OpenChannelResponse" => r \in Replies /\ r.to \in Nodes /\ r.to \notin open
            BY <1>1, <1>10 DEF OpenersInv, TypeOK, Requests, Replies
        <3> QED BY <1>1, <1>3, <1>10, <3>1
    <2>4. r.type = "GetUpdatedTransactions" => r.from = u
        BY <1>10 DEF FlowInv, FlowsRight
    <2> QED BY <2>1, <2>2, <2>3, <2>4 DEF FlowsRight
<1>12. FlowInv(u)'
    BY <1>6, <1>9, <1>11 DEF FlowInv
<1>13. InStep(u)'
    <2>1. /\ State'[u] = 0 /\ State'[Peer(u)] = 0
          /\ Len(MyTransactions'[u]) = 1 /\ Len(MyTransactions'[Peer(u)]) = 1
          /\ MyTransactions'[u][1].update = MyTransactions'[Peer(u)][1].update
        <3>1. CASE u = n
            BY <1>6, <1>7, <3>1
        <3>2. CASE u = Peer(n)
            BY <1>1, <1>6, <1>7, <3>2
        <3> QED BY <1>1, <3>1, <3>2
    <2> QED BY <1>9, <1>11, <2>1 DEF InStep
<1> QED BY <1>6, <1>12, <1>13 DEF PairInv

\* Between its RPCs u keeps its version of the update and asks with the other one.
LEMMA SendPair ==
    ASSUME crashed = {}, IInv, JInv, NEW u \in Nodes, FlowInv(u), PairInv(u), NEW n \in Nodes,
           SendRevocationKey(n)
    PROVE  FlowInv(u)' /\ PairInv(u)'
<1>1. TypeOK /\ RepliesInv /\ Peer(u) \in Nodes /\ Peer(u) # u
    BY PeerFacts DEF IInv
<1>2. PICK m, key :
          /\ m \in net
          /\ m.type = "UpdatedTransactions" /\ m.to = n
          /\ MyTransactions' = [MyTransactions EXCEPT ![n] = Append(@, m.signed)]
          /\ call' = [call EXCEPT ![n] = [pc |-> "revoke", tx |-> call[n].tx,
                                          unsigned |-> SignTransaction(n, m.unsigned)]]
          /\ net' = DropReplies(n) \cup
                    {[type |-> "GetRevocationKey", from |-> n, id |-> call[n].tx.hash,
                      tx |-> SignTransaction(n, m.unsigned), key |-> key]}
          /\ UNCHANGED <<open, State>>
    BY DEF SendRevocationKey
<1>3. n = u /\ open = Nodes /\ call[u].pc = "update" /\ m.signed.update = m.unsigned.update
    BY <1>2 DEF FlowInv, FlowsRight, RepliesInv, IInv
<1>4. PICK s, t : s = m.signed /\ t = SignTransaction(n, m.unsigned)
    OBVIOUS
<1>5. s.update = t.update
    <2>1. m.unsigned \in Transaction
        BY <1>1, <1>2 DEF TypeOK, Requests, Replies
    <2> QED BY <1>3, <1>4, <2>1, SignFacts
<1>6. /\ call'[u].pc = "revoke" /\ call'[Peer(u)] = call[Peer(u)]
      /\ MyTransactions'[u] = Append(MyTransactions[u], s)
      /\ MyTransactions'[Peer(u)] = MyTransactions[Peer(u)]
    BY <1>1, <1>2, <1>3, <1>4 DEF TypeOK
<1>7. ASSUME NEW r \in net'
      PROVE  \/ r \in net /\ ~(r \in Replies /\ r.to = u)
             \/ r = [type |-> "GetRevocationKey", from |-> u, id |-> call[n].tx.hash,
                     tx |-> t, key |-> key]
    BY <1>2, <1>3, <1>4, <1>7 DEF DropReplies
<1>8. PICK c, d : c = MyTransactions[u] /\ d = Append(c, s)
    OBVIOUS
<1>9. c \in Seq(Transaction) /\ Len(d) = Len(c) + 1 /\ d[Len(d)] = s
    <2>1. c \in Seq(Transaction)
        BY <1>1, <1>8 DEF TypeOK
    <2> QED BY <1>8, <2>1
<1>10. ASSUME NEW r \in net' PROVE FlowsRight(u, r)'
    <2>1. CASE r \in net /\ ~(r \in Replies /\ r.to = u)
        <3>1. r.type = "Error" => /\ r.to \in Nodes /\ call[r.to].pc = "open"
                                  /\ r \in Replies
            BY <1>1, <2>1 DEF FlowInv, FlowsRight, TypeOK, Requests, Replies
        <3>2. r.type = "Error" => call'[r.to].pc = "open"
            BY <1>6, <2>1, <3>1, PeerFacts
        <3>3. r.type # "OpenChannelResponse"
            <4>1. r.type = "OpenChannelResponse" => r.to \in Nodes
                BY <1>1, <2>1 DEF TypeOK, Requests, Replies
            <4> QED BY <1>3, <2>1, <4>1 DEF JInv, OpenersInv
        <3> QED BY <1>2, <2>1, <3>2, <3>3 DEF FlowInv, FlowsRight
    <2>2. CASE r.type = "GetRevocationKey" /\ r.from = u
        BY <1>2, <1>3, <2>2 DEF FlowsRight
    <2> QED BY <1>7, <2>1, <2>2
<1>11. FlowInv(u)'
    BY <1>2, <1>3, <1>6, <1>10 DEF FlowInv
<1>12. /\ Len(c) = State[u] + 1 /\ State[u] = State[Peer(u)] /\ State[u] \in Nat
       /\ Len(MyTransactions[Peer(u)]) = State[Peer(u)] + 1
       /\ \A r \in net : r.type # "GetRevocationKey"
    BY <1>1, <1>3, <1>8 DEF PairInv, InStep, TypeOK
<1>13. ASSUME NEW r \in net', r.type = "GetRevocationKey"
       PROVE  r = [type |-> "GetRevocationKey", from |-> u, id |-> call[n].tx.hash,
                   tx |-> t, key |-> key]
    BY <1>7, <1>12, <1>13
<1>14. \A r \in net' : r.type # "RevocationKey"
    <2>1. ASSUME NEW r \in net, r.type = "RevocationKey" PROVE FALSE
        BY <1>1, <1>3, <2>1 DEF RepliesInv, FlowInv, FlowsRight
    <2> QED BY <1>7, <2>1
<1>15. InStep(u)'
    <2>1. Len(d) = State'[u] + 2 /\ State'[Peer(u)] = State'[u]
        BY <1>2, <1>9, <1>12
    <2>2. \A r \in net' : r.type = "GetRevocationKey" =>
             r.tx.update = d[Len(d)].update /\ \A q \in net' : q.type = "GetRevocationKey" => q = r
        <3>1. PICK w : w = [type |-> "GetRevocationKey", from |-> u, id |-> call[n].tx.hash,
                            tx |-> t, key |-> key]
            OBVIOUS
        <3>2. w.tx.update = d[Len(d)].update
            BY <1>5, <1>9, <3>1
        <3> QED BY <1>13, <3>1, <3>2
    <2>3. Len(MyTransactions'[Peer(u)]) = State'[Peer(u)] + 1 /\ MyTransactions'[u] = d
        BY <1>2, <1>6, <1>8, <1>12
    <2> QED BY <1>6, <1>14, <2>1, <2>2, <2>3 DEF InStep
<1> QED BY <1>2, <1>3, <1>11, <1>15 DEF PairInv

\* The peer serves the second RPC: it catches up with u.
LEMMA RevokePair ==
    ASSUME IInv, NEW u \in Nodes, FlowInv(u), PairInv(u), NEW n \in Nodes,
           GetRevocationKey(n)
    PROVE  FlowInv(u)' /\ PairInv(u)'
<1>1. TypeOK /\ Peer(u) \in Nodes /\ Peer(u) # u
    BY PeerFacts DEF IInv
<1>2. PICK r, key :
          /\ r \in net
          /\ r.type = "GetRevocationKey" /\ r.from = Peer(n)
          /\ MyTransactions' = [MyTransactions EXCEPT ![n] = Append(@, r.tx)]
          /\ State' = [State EXCEPT ![n] = @ + 1]
          /\ Answer(r, [type |-> "RevocationKey", to |-> r.from, id |-> r.id, key |-> key])
          /\ UNCHANGED <<open, call>>
    BY DEF GetRevocationKey
<1>3. n = Peer(u) /\ r.from = u /\ open = Nodes
    BY <1>2, PeerFacts DEF FlowInv, FlowsRight
<1>4. PICK c, d, p : c = MyTransactions[p] /\ d = Append(c, r.tx) /\ p = Peer(u)
    OBVIOUS
<1>5. c \in Seq(Transaction) /\ Len(d) = Len(c) + 1 /\ d[Len(d)] = r.tx
    <2>1. c \in Seq(Transaction)
        BY <1>1, <1>4 DEF TypeOK
    <2> QED BY <1>4, <2>1
<1>6. /\ MyTransactions'[p] = d /\ MyTransactions'[u] = MyTransactions[u]
      /\ State'[p] = State[p] + 1 /\ State'[u] = State[u] /\ State[p] \in Nat /\ State[u] \in Nat
    BY <1>1, <1>2, <1>3, <1>4 DEF TypeOK
<1>7. /\ call[u].pc = "revoke" /\ Len(c) = State[p] + 1 /\ State[p] = State[u]
      /\ Len(MyTransactions[u]) = State[u] + 2
      /\ r.tx.update = MyTransactions[u][Len(MyTransactions[u])].update
      /\ \A m \in net : m.type = "GetRevocationKey" => m = r
    BY <1>2, <1>3, <1>4 DEF PairInv, InStep
<1>8. ASSUME NEW m \in net'
      PROVE  \/ m \in net /\ m # r
             \/ m = [type |-> "RevocationKey", to |-> u, id |-> r.id, key |-> key]
    <2>1. r # [type |-> "RevocationKey", to |-> u, id |-> r.id, key |-> key]
        BY <1>2
    <2> QED BY <1>2, <1>3, <1>8, <2>1 DEF Answer
<1>9. \A m \in net' : m.type # "GetRevocationKey"
    BY <1>7, <1>8
<1>10. ASSUME NEW m \in net' PROVE FlowsRight(u, m)'
    <2>1. CASE m \in net
        <3>1. m.type # "OpenChannelResponse" \/
              MyTransactions'[Peer(m.to)][1] = MyTransactions[Peer(m.to)][1]
            <4>1. ASSUME m.type = "OpenChannelResponse" PROVE m.to \in Nodes
                BY <1>1, <2>1, <4>1 DEF TypeOK, Requests, Replies
            <4>2. d[1] = c[1]
                BY <1>4, <1>5, <1>6, <1>7
            <4>3. \A q \in Nodes : MyTransactions'[q][1] = MyTransactions[q][1]
                BY <1>1, <1>4, <1>6, <4>2, PeerFacts
            <4> QED BY <4>1, <4>3, PeerFacts
        <3> QED BY <1>2, <2>1, <3>1 DEF FlowInv, FlowsRight
    <2>2. CASE m \notin net
        <3>1. m.type = "RevocationKey" /\ m.to = u
            BY <1>8, <2>2
        <3> QED BY <1>2, <1>3, <3>1 DEF FlowsRight
    <2> QED BY <2>1, <2>2
<1>11. FlowInv(u)'
    BY <1>2, <1>3, <1>10 DEF FlowInv
<1>12. InStep(u)'
    <2>1. Len(d) = State'[p] + 1 /\ State'[p] = State'[u] + 1
        BY <1>5, <1>6, <1>7
    <2>2. d[Len(d)].update = MyTransactions[u][Len(MyTransactions[u])].update
        BY <1>5, <1>7
    <2> QED BY <1>2, <1>4, <1>6, <1>7, <1>9, <2>1, <2>2 DEF InStep
<1> QED BY <1>2, <1>3, <1>11, <1>12 DEF PairInv

\* The answer to the second RPC: u moves its state to the transaction it kept.
LEMMA StatePair ==
    ASSUME crashed = {}, IInv, NEW u \in Nodes, FlowInv(u), PairInv(u), NEW n \in Nodes,
           StateUpdated(n)
    PROVE  FlowInv(u)' /\ PairInv(u)'
<1>1. TypeOK /\ RepliesInv /\ Peer(u) \in Nodes /\ Peer(u) # u
    BY PeerFacts DEF IInv
<1>2. PICK m \in net :
          /\ m.type = "RevocationKey" /\ m.to = n
          /\ State' = [State EXCEPT ![n] = @ + 1]
          /\ net' = DropReplies(n) /\ call' = [call EXCEPT ![n] = Idle]
          /\ UNCHANGED <<open, MyTransactions>>
    BY DEF StateUpdated
<1>3. n = u /\ open = Nodes /\ call[u].pc = "revoke"
    BY <1>1, <1>2 DEF FlowInv, FlowsRight, RepliesInv
<1>4. /\ call'[u].pc = "idle" /\ call'[Peer(u)] = call[Peer(u)]
      /\ State'[u] = State[u] + 1 /\ State'[Peer(u)] = State[Peer(u)]
      /\ State[u] \in Nat /\ State[Peer(u)] \in Nat
    BY <1>1, <1>2, <1>3 DEF TypeOK, Idle
<1>5. PICK c, d : c = MyTransactions[u] /\ d = MyTransactions[Peer(u)]
    OBVIOUS
<1>6. /\ Len(d) = State[Peer(u)] + 1 /\ Len(c) = State[u] + 2 /\ State[Peer(u)] = State[u] + 1
      /\ c[Len(c)].update = d[Len(d)].update
      /\ \A r \in net : r.type # "GetRevocationKey"
    BY <1>2, <1>3, <1>5 DEF PairInv, InStep
<1>7. \A r \in net' : r \in net /\ ~(r \in Replies /\ r.to = u)
    BY <1>2, <1>3 DEF DropReplies
<1>8. ASSUME NEW r \in net'
      PROVE  r \in net /\ (r.type = "Error" => call'[r.to].pc = "open")
    <2>1. r.type = "Error" => /\ r.to \in Nodes /\ call[r.to].pc = "open"
                              /\ r \in Replies
        BY <1>1, <1>7 DEF FlowInv, FlowsRight, TypeOK, Requests, Replies
    <2> QED BY <1>4, <1>7, <2>1, PeerFacts
<1>9. FlowInv(u)'
    <2>1. call'[Peer(u)].pc \in {"idle", "open"}
        BY <1>4 DEF FlowInv
    <2> QED BY <1>2, <1>4, <1>8, <2>1, FlowStays
<1>10. InStep(u)'
    <2>1. Len(d) = State'[Peer(u)] + 1 /\ Len(c) = State'[u] + 1 /\ State'[u] = State'[Peer(u)]
        BY <1>4, <1>6
    <2> QED BY <1>2, <1>4, <1>5, <1>6, <1>7, <2>1 DEF InStep
<1> QED BY <1>2, <1>3, <1>9, <1>10 DEF PairInv

\* Every step, as long as nobody dies.
LEMMA PairStep ==
    ASSUME Lossy = FALSE, OneOpener, NEW u \in Nodes, Peer(u) \notin Updaters,
           IInv, JInv, StepsInv(u), [Next]_vars
    PROVE  StepsInv(u)'
<1> SUFFICES ASSUME crashed' = {} PROVE FlowInv(u)' /\ PairInv(u)'
    BY DEF StepsInv
<1>1. ASSUME NEW n \in Nodes,
             FundingTimesOut(n) \/ UpdateStateFails(n) \/ GetUpdatedTransactionsPanics(n)
      PROVE  FALSE
    BY <1>1 DEF FundingTimesOut, UpdateStateFails, GetUpdatedTransactionsPanics, Crash
<1>2. crashed = {}
    <2>1. ASSUME NEW n \in Nodes,
                 ConnectToPeer(n) \/ CreateChannel(n) \/ CreateChannelFails(n) \/ UpdateState(n)
                     \/ RevocationFails(n)
          PROVE  UNCHANGED crashed
        BY <2>1 DEF ConnectToPeer, CreateChannel, CreateChannelFails, UpdateState, RevocationFails
    <2>2. ASSUME NEW n \in Nodes,
                 OpenChannel(n) \/ GetUpdatedTransactions(n) \/ GetRevocationKey(n)
          PROVE  UNCHANGED crashed
        BY <2>2 DEF OpenChannel, GetUpdatedTransactions, GetRevocationKey
    <2>3. ASSUME NEW n \in Nodes, ChannelCreated(n) \/ SendRevocationKey(n) \/ StateUpdated(n)
          PROVE  UNCHANGED crashed
        BY <2>3 DEF ChannelCreated, SendRevocationKey, StateUpdated
    <2>4. CASE UNCHANGED vars
        BY <2>4 DEF vars
    <2> QED BY <1>1, <2>1, <2>2, <2>3, <2>4 DEF Next
<1>3. FlowInv(u) /\ PairInv(u)
    BY <1>2 DEF StepsInv
<1>4. ASSUME UNCHANGED <<open, State, MyTransactions, call, net>>
      PROVE  FlowInv(u)' /\ PairInv(u)'
    BY <1>3, <1>4 DEF FlowInv, FlowsRight, PairInv, InStep
<1>5. ASSUME NEW n \in Nodes, ConnectToPeer(n) PROVE FlowInv(u)' /\ PairInv(u)'
    BY <1>4, <1>5 DEF ConnectToPeer, channelVars
<1>6. CASE UNCHANGED vars
    BY <1>4, <1>6 DEF vars, channelVars
<1>7. ASSUME NEW n \in Nodes, CreateChannel(n) PROVE FlowInv(u)' /\ PairInv(u)'
    BY <1>3, <1>7, CreatePair
<1>8. ASSUME NEW n \in Nodes, OpenChannel(n) PROVE FlowInv(u)' /\ PairInv(u)'
    BY <1>3, <1>8, OpenPair
<1>9. ASSUME NEW n \in Nodes, ChannelCreated(n) PROVE FlowInv(u)' /\ PairInv(u)'
    BY <1>2, <1>3, <1>9, CreatedPair
<1>10. ASSUME NEW n \in Nodes, CreateChannelFails(n) PROVE FlowInv(u)' /\ PairInv(u)'
    BY <1>3, <1>10, CreateFailsPair
<1>11. ASSUME NEW n \in Nodes, UpdateState(n) PROVE FlowInv(u)' /\ PairInv(u)'
    BY <1>3, <1>11, UpdatePair
<1>12. ASSUME NEW n \in Nodes, GetUpdatedTransactions(n) PROVE FlowInv(u)' /\ PairInv(u)'
    BY <1>3, <1>12, ServePair
<1>13. ASSUME NEW n \in Nodes, SendRevocationKey(n) PROVE FlowInv(u)' /\ PairInv(u)'
    BY <1>2, <1>3, <1>13, SendPair
<1>14. ASSUME NEW n \in Nodes, GetRevocationKey(n) PROVE FlowInv(u)' /\ PairInv(u)'
    BY <1>3, <1>14, RevokePair
<1>15. ASSUME NEW n \in Nodes, StateUpdated(n) PROVE FlowInv(u)' /\ PairInv(u)'
    BY <1>2, <1>3, <1>15, StatePair
<1>16. ASSUME NEW n \in Nodes, RevocationFails(n) PROVE FALSE
    BY <1>2, <1>3, <1>16, RevocationHeard
<1> QED
    BY <1>1, <1>5, <1>6, <1>7, <1>8, <1>9, <1>10, <1>11, <1>12, <1>13, <1>14, <1>15, <1>16
    DEF Next

\* When nothing is under way the two sides are in step.
LEMMA InStepIndexed ==
    ASSUME IInv, NEW u \in Nodes, StepsInv(u)
    PROVE  IndexedByState
<1> SUFFICES ASSUME Quiet, open = Nodes
             PROVE  MyTransactions[Alice][State[Alice] + 1].update
                        = MyTransactions[Bob][State[Bob] + 1].update
    BY DEF IndexedByState
<1>1. InStep(u) /\ call[u].pc # "revoke"
    BY DEF StepsInv, PairInv, Quiet, Idle
<1>2. MyTransactions[u][State[u] + 1].update = MyTransactions[Peer(u)][State[Peer(u)] + 1].update
    BY <1>1 DEF InStep
<1>3. CASE u = Alice
    BY <1>2, <1>3 DEF Peer
<1>4. CASE u = Bob
    BY <1>2, <1>4, NodesAssumption DEF Peer
<1> QED BY <1>3, <1>4 DEF Nodes

\* Without losses, when one side opens the channel and one side (the same or the
\* other) updates it, MyTransactions is indexed by State: whenever nothing is
\* under way, both sides' transactions at their states are versions of the same
\* update (UpdateState, GetRevocationKey).  Each hypothesis is needed.
THEOREM SlicesAreIndexed ==
    ASSUME Lossy = FALSE, OneOpener, OneUpdater
    PROVE  Spec => []IndexedByState
<1>1. PICK u \in Nodes : Peer(u) \notin Updaters
    BY NodesAssumption, RolesAssumption DEF OneUpdater, Nodes, Peer
<1>2. Init => StepsInv(u)
    <2>1. Nodes # {}
        BY DEF Nodes
    <2>2. Init => call[u].pc = "idle" /\ call[Peer(u)].pc = "idle"
        BY PeerFacts DEF Init, Idle
    <2> QED BY <2>1, <2>2 DEF Init, StepsInv, FlowInv, PairInv
<1>3. StepsInv(u) /\ IInv /\ JInv /\ [Next]_vars => StepsInv(u)'
    BY <1>1, PairStep
<1>4. IInv /\ StepsInv(u) => IndexedByState
    BY InStepIndexed
<1> QED BY <1>2, <1>3, <1>4, ChannelInvariance, PTL DEF Spec
=============================================================================
