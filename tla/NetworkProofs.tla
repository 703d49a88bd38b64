---------------------------- MODULE NetworkProofs ----------------------------
(***************************************************************************)
(* Proofs about Network for any set of nodes, versions, limits, scenarios  *)
(* and lengths.  The invariant has three parts, each about the variables   *)
(* of one protocol: PeersInv (the handshake), GossipInv (transactions) and *)
(* BootInv (Bootstrap).  The second uses that peers are never forgotten,   *)
(* the third that chains never get shorter.                                *)
(***************************************************************************)
EXTENDS Network, FiniteSetTheorems, TLAPS

\* A peer is a known address of the same version.
PeersKnown == \A n \in Nodes : PeerDb[n] \subseteq AddressDB[n]
PeersAlike == \A n \in Nodes : \A m \in PeerDb[n] : Version[m] = Version[n]

\* A recent or pending own Version is a reason not to send another only
\* because it reached the peer, or will.
SentReach ==
    \A n \in Nodes : \A m \in sentVer[n] \cup waits[n] : Version[m] = Version[n] => Reached(n, m)

PeersInv == PeeringTypeOK /\ PeersKnown /\ PeersAlike /\ SentReach /\ NoOneSided

\* What is in flight goes from a node to one of its peers.
SentToPeers ==
    \A msg \in forwardTxs : msg.from \in Nodes /\ msg.to \in Nodes /\ msg.to \in PeerDb[msg.from]
GossipInv ==
    /\ SeenTransactions \in [Nodes -> SUBSET Transactions]
    /\ witnessed \in [Nodes -> SUBSET Transactions]
    /\ handler \in [Nodes -> {Free} \cup [tx : Transactions, from : Nodes]]
    /\ \A msg \in forwardTxs : msg.tx \in Transactions
    /\ SentToPeers /\ WitnessesComplete

\* The answers Bootstrap works with: none is shorter than least, and the chain
\* of the peer is at least as long as its answer.
Answer(L, b, p) ==
    /\ p \in DOMAIN b.res /\ p \in Nodes
    /\ b.res[p].ind <= b.top
    /\ b.res[p].upper >= b.least /\ L[p] >= b.res[p].upper
AskInv(L, n, b) ==
    /\ b.top <= L[n] /\ b.asks \subseteq DOMAIN b.res
    /\ \A p \in b.compares \cup b.writes \cup b.sets : Answer(L, b, p)
    /\ b.longestRes # None => Answer(L, b, b.longestRes) /\ (b.sets # {} \/ Answer(L, b, b.addr))
FetchInv(L, n, b) ==
    /\ b.upto >= b.least /\ L[b.addr] >= b.least
    /\ L[n] >= b.next - 1 \/ L[n] >= b.least

AnswerType == [ind : Nat \cup {-1}, upper : Nat]
AskType ==
    [pc : {"ask"}, top : Nat, asks : SUBSET Nodes,
     compares : SUBSET Nodes, writes : SUBSET Nodes, sets : SUBSET Nodes,
     res : UNION {[S -> AnswerType] : S \in SUBSET Nodes}, longestRes : Nodes \cup {None},
     addr : Nodes \cup {None}, least : Nat]
FetchType == [pc : {"fetch"}, next : Nat, upto : Nat, addr : Nodes, least : Nat]

BootInv ==
    /\ Length \in [Nodes -> Nat] /\ owed \in [Nodes -> Nat]
    /\ boot \in [Nodes -> {Idle} \cup AskType \cup FetchType]
    /\ \A n \in Nodes : boot[n].pc = "ask" => AskInv(Length, n, boot[n])
    /\ \A n \in Nodes : boot[n].pc = "fetch" => FetchInv(Length, n, boot[n])
    /\ BootstrapGains

-----------------------------------------------------------------------------
(* What grows                                                              *)

\* Nodes are never taken out of the databases, and failures stay recorded.
DbGrows ==
    /\ \A n \in Nodes : AddressDB[n] \subseteq AddressDB'[n] /\ PeerDb[n] \subseteq PeerDb'[n]
    /\ failed \subseteq failed'

\* A database that is full stays full (the limits of addressdb and peerdb).
LEMMA FullStays ==
    ASSUME PeeringTypeOK, PeeringTypeOK', DbGrows, NEW n \in Nodes, Full(n)
    PROVE  Full(n)'
<1>1. IsFiniteSet(AddressDB'[n]) /\ IsFiniteSet(PeerDb'[n])
    BY NodesAssumption, FS_Subset DEF PeeringTypeOK
<1>2. /\ IsFiniteSet(AddressDB[n]) /\ Cardinality(AddressDB[n]) <= Cardinality(AddressDB'[n])
      /\ IsFiniteSet(PeerDb[n]) /\ Cardinality(PeerDb[n]) <= Cardinality(PeerDb'[n])
    BY <1>1, FS_Subset DEF DbGrows
<1>3. /\ Cardinality(AddressDB[n]) \in Nat /\ Cardinality(AddressDB'[n]) \in Nat
      /\ Cardinality(PeerDb[n]) \in Nat /\ Cardinality(PeerDb'[n]) \in Nat
    BY <1>1, <1>2, FS_CardinalityType
<1>4. AddressLimit \in Nat /\ PeerLimit \in Nat
    BY LimitsAssumption
<1> QED BY <1>2, <1>3, <1>4 DEF Full, AddressRoom, PeerRoom

\* Reached is kept as long as the call in flight is.
LEMMA ReachedStays ==
    ASSUME PeeringTypeOK, PeeringTypeOK', DbGrows, NEW n \in Nodes, NEW m \in Nodes,
           Reached(n, m),
           <<n, m>> \in versions => (<<n, m>> \in versions' \/ n \in PeerDb'[m]
                                     \/ <<n, m>> \in failed' \/ Full(m)')
    PROVE  Reached(n, m)'
<1>1. CASE Full(m)
    BY <1>1, FullStays DEF Reached
<1>2. CASE ~Full(m)
    BY <1>2 DEF Reached, DbGrows
<1> QED BY <1>1, <1>2

-----------------------------------------------------------------------------
(* The handshake                                                           *)

LEMMA InitPeers == Init => PeersInv
<1> SUFFICES ASSUME NEW s \in Scenarios, PeeringInit(s.calls, s.peers) PROVE PeersInv
    BY DEF Init
<1>1. /\ s.peers \in [Nodes -> SUBSET Nodes]
      /\ \A n \in Nodes : \A m \in s.peers[n] : n \in s.peers[m] /\ Version[m] = Version[n]
    BY ScenariosAssumption
<1>2. PeeringTypeOK
    BY <1>1, StampsAssumption DEF PeeringInit, PeeringTypeOK
<1>3. PeersKnown /\ PeersAlike /\ SentReach /\ NoOneSided
    BY <1>1 DEF PeeringInit, PeersKnown, PeersAlike, SentReach, NoOneSided, Reached
<1> QED BY <1>2, <1>3 DEF PeersInv

LEMMA RandomPeers ==
    ASSUME PeeringTypeOK, NEW n \in Nodes, NEW chosen \in GetRandom(n)
    PROVE  chosen \subseteq Nodes
BY DEF PeeringTypeOK, GetRandom

\* Every step of module Peering keeps the types and forgets nobody.
LEMMA PeeringStepType ==
    ASSUME PeeringTypeOK, PeeringNext
    PROVE  PeeringTypeOK' /\ DbGrows
<1> USE DEF PeeringTypeOK, DbGrows, With, Only, Does, dbVars, callVars
<1>1. ASSUME NEW n \in Nodes, NEW m \in Nodes, ConnectToPeer(n, m)
      PROVE  PeeringTypeOK' /\ DbGrows
    BY <1>1 DEF ConnectToPeer
<1>2. ASSUME NEW n \in Nodes, NEW m \in Nodes, VersionRejected(n, m) \/ VersionFails(n, m)
      PROVE  PeeringTypeOK' /\ DbGrows
    BY <1>2 DEF VersionRejected, VersionFails
<1>3. ASSUME NEW n \in Nodes, NEW m \in Nodes, VersionHandler(n, m)
      PROVE  PeeringTypeOK' /\ DbGrows
    BY <1>3 DEF VersionHandler
<1>4. ASSUME NEW n \in Nodes, NEW m \in Nodes, VersionReturns(n, m) \/ VersionTimeout(n, m)
      PROVE  PeeringTypeOK' /\ DbGrows
    <2>1. CASE VersionReturns(n, m)
        BY <2>1 DEF VersionReturns
    <2>2. CASE VersionTimeout(n, m)
        BY <2>2 DEF VersionTimeout
    <2> QED BY <1>4, <2>1, <2>2
<1>5. ASSUME NEW n \in Nodes, BroadcastAddress(n)
      PROVE  PeeringTypeOK' /\ DbGrows
    BY <1>5 DEF BroadcastAddress, Announce, Announcements
<1>6. ASSUME NEW n \in Nodes, PauseNetwork(n) \/ ResumeNetwork(n)
      PROVE  PeeringTypeOK' /\ DbGrows
    BY <1>6 DEF PauseNetwork, ResumeNetwork
<1>7. ASSUME NEW n \in Nodes, NEW msg \in addrs, SendAddressesOwn(n, msg) \/ SendAddressesFails(n, msg)
      PROVE  PeeringTypeOK' /\ DbGrows
    BY <1>7 DEF SendAddressesOwn, SendAddressesFails
<1>8. ASSUME NEW n \in Nodes, NEW msg \in addrs, SendAddresses(n, msg)
      PROVE  PeeringTypeOK' /\ DbGrows
    <2>1. msg.addr \in Nodes /\ msg.stamp \in Stamps
        BY DEF Announcements
    <2>2. addrs' \subseteq Announcements
        <3>1. PICK chosen \in GetRandom(n) :
                addrs' = (addrs \ {msg}) \cup Only(FoundNew(n, msg), Announce(chosen, msg.addr, msg.stamp))
            BY <1>8 DEF SendAddresses
        <3>2. chosen \subseteq Nodes
            BY RandomPeers
        <3> QED BY <2>1, <3>1, <3>2 DEF Announce, Announcements
    <2> QED BY <1>8, <2>1, <2>2 DEF SendAddresses
<1> QED BY <1>1, <1>2, <1>3, <1>4, <1>5, <1>6, <1>7, <1>8
        DEF PeeringNext, AnswerVersion, AnswerAddresses

\* A step that takes no call out of flight, but the ones it names, keeps
\* NoOneSided, and SentReach for what was in sentVer or waits before.
LEMMA ReachedKept ==
    ASSUME PeersInv, PeeringTypeOK', DbGrows,
           \A p, q \in Nodes : (<<p, q>> \in versions \ versions' /\ Version[p] = Version[q])
                               => (p \in PeerDb'[q] \/ <<p, q>> \in failed' \/ Full(q)')
    PROVE  \A n, m \in Nodes :
              (m \in PeerDb[n] \cup sentVer[n] \cup waits[n] /\ Version[m] = Version[n]) => Reached(n, m)'
<1> SUFFICES ASSUME NEW n \in Nodes, NEW m \in Nodes, Version[m] = Version[n],
                    m \in PeerDb[n] \cup sentVer[n] \cup waits[n]
             PROVE  Reached(n, m)'
    OBVIOUS
<1>1. Reached(n, m)
    BY DEF PeersInv, NoOneSided, SentReach
<1>2. <<n, m>> \in versions => (<<n, m>> \in versions' \/ n \in PeerDb'[m]
                                \/ <<n, m>> \in failed' \/ Full(m)')
    OBVIOUS
<1> QED BY <1>1, <1>2, ReachedStays DEF PeersInv

\* The steps that leave databases and calls alone.
LEMMA PeersUnchanged ==
    ASSUME PeersInv, UNCHANGED <<AddressDB, PeerDb, LastSeen, sentVer, waits, versions, addrs, failed>>,
           paused' \subseteq Nodes
    PROVE  PeersInv' /\ DbGrows
BY DEF PeersInv, PeeringTypeOK, PeersKnown, PeersAlike, SentReach, NoOneSided, Reached, Full,
       AddressRoom, PeerRoom, DbGrows

\* The steps that change neither PeerDb nor who was sent a Version.
LEMMA CallsKept ==
    ASSUME PeersInv, PeeringTypeOK', DbGrows, UNCHANGED <<PeerDb, sentVer, waits>>,
           \A p, q \in Nodes : (<<p, q>> \in versions \ versions' /\ Version[p] = Version[q])
                               => (p \in PeerDb'[q] \/ <<p, q>> \in failed' \/ Full(q)')
    PROVE  PeersInv'
<1>1. \A n, m \in Nodes :
        (m \in PeerDb[n] \cup sentVer[n] \cup waits[n] /\ Version[m] = Version[n]) => Reached(n, m)'
    BY ReachedKept
<1>2. PeersKnown' /\ PeersAlike'
    BY DEF PeersInv, PeersKnown, PeersAlike, DbGrows
<1>3. SentReach'
    BY <1>1 DEF SentReach, PeeringTypeOK
<1>4. NoOneSided'
    BY <1>1, <1>2 DEF NoOneSided, PeersAlike, PeeringTypeOK
<1> QED BY <1>2, <1>3, <1>4 DEF PeersInv

LEMMA RejectedInv ==
    ASSUME PeersInv, PeeringTypeOK', DbGrows, NEW n \in Nodes, NEW m \in Nodes, VersionRejected(n, m)
    PROVE  PeersInv'
<1>1. Version[m] = Version[n] => Full(n)'
    BY DEF VersionRejected, Accepts, Full, AddressRoom, PeerRoom, dbVars
<1>2. \A p, q \in Nodes : <<p, q>> \in versions \ versions' => p = m /\ q = n
    BY DEF VersionRejected
<1> QED BY <1>1, <1>2, CallsKept DEF VersionRejected, dbVars

LEMMA HandledInv ==
    ASSUME PeersInv, PeeringTypeOK', DbGrows, NEW n \in Nodes, NEW m \in Nodes, VersionHandler(n, m)
    PROVE  PeersInv'
<1> USE DEF With, Only
<1>1. m \in PeerDb'[n] \/ Full(n)'
    <2>1. CASE PeerRoom(n)
        BY <2>1 DEF VersionHandler, PeersInv, PeeringTypeOK
    <2>2. CASE ~PeerRoom(n)
        BY <2>2, FullStays DEF Full, PeersInv
    <2> QED BY <2>1, <2>2
<1>2. \A p, q \in Nodes : <<p, q>> \in versions \ versions' => p = m /\ q = n
    BY DEF VersionHandler
<1>3. \A p, q \in Nodes :
        (q \in PeerDb[p] \cup sentVer[p] \cup waits[p] /\ Version[q] = Version[p]) => Reached(p, q)'
    BY <1>1, <1>2, ReachedKept
<1>4. Version[m] = Version[n] /\ PeersKnown' /\ PeersAlike'
    BY DEF PeersInv, PeersKnown, PeersAlike, PeeringTypeOK, VersionHandler, Accepts
<1>5. /\ Answers(n, m) => Reached(n, m)'
      /\ m \in PeerDb'[n] => Reached(n, m)'
    <2>1. Answers(n, m) => Reached(n, m)'
        BY DEF VersionHandler, Reached
    <2>2. m \in PeerDb'[n] => m \in PeerDb[n] \/ m \in sentVer[n] \/ Answers(n, m)
        BY DEF VersionHandler, Answers, PeersInv, PeeringTypeOK
    <2> QED BY <1>3, <1>4, <2>1, <2>2
<1>6. /\ sentVer' = [sentVer EXCEPT ![n] = @ \cup (IF Answers(n, m) THEN {m} ELSE {})]
      /\ waits' = [waits EXCEPT ![n] = @ \cup (IF Answers(n, m) /\ m \notin AddressDB[n] THEN {m} ELSE {})]
      /\ PeerDb' = [PeerDb EXCEPT ![n] = @ \cup (IF PeerRoom(n) THEN {m} ELSE {})]
    BY DEF VersionHandler
<1>7. \A p, q \in Nodes : q \in (PeerDb'[p] \cup sentVer'[p] \cup waits'[p]) =>
        \/ q \in PeerDb[p] \cup sentVer[p] \cup waits[p]
        \/ p = n /\ q = m /\ (Answers(n, m) \/ m \in PeerDb'[n])
    BY <1>6 DEF PeersInv, PeeringTypeOK
<1>8. SentReach'
    BY <1>3, <1>5, <1>7 DEF SentReach, PeeringTypeOK
<1>9. NoOneSided'
    BY <1>3, <1>4, <1>5, <1>7 DEF NoOneSided, PeersAlike, PeeringTypeOK
<1> QED BY <1>4, <1>8, <1>9 DEF PeersInv

LEMMA AddressesInv ==
    ASSUME PeersInv, PeeringTypeOK', DbGrows, NEW n \in Nodes, NEW msg \in addrs, SendAddresses(n, msg)
    PROVE  PeersInv'
<1> USE DEF With, Only
<1>1. msg.addr \in Nodes
    BY DEF PeersInv, PeeringTypeOK, Announcements
<1>2. versions' = versions \cup {<<n, msg.addr>>} /\ PeerDb' = PeerDb /\ sentVer' = sentVer
    BY DEF SendAddresses
<1>3. \A p, q \in Nodes :
        (q \in PeerDb[p] \cup sentVer[p] \cup waits[p] /\ Version[q] = Version[p]) => Reached(p, q)'
    BY <1>2, ReachedKept
<1>4. PeersKnown' /\ PeersAlike'
    BY <1>2 DEF PeersInv, PeersKnown, PeersAlike, DbGrows
<1>5. \A p, q \in Nodes : q \in waits'[p] => q \in waits[p] \/ <<p, q>> \in versions'
    BY <1>1, <1>2 DEF SendAddresses, PeersInv, PeeringTypeOK
<1>6. SentReach'
    BY <1>2, <1>3, <1>5 DEF SentReach, Reached, PeeringTypeOK
<1>7. NoOneSided'
    BY <1>2, <1>3, <1>4 DEF NoOneSided, PeersAlike, PeeringTypeOK
<1> QED BY <1>4, <1>6, <1>7 DEF PeersInv

LEMMA PeeringStep ==
    ASSUME PeersInv, PeeringNext
    PROVE  PeersInv' /\ DbGrows
<1>1. PeeringTypeOK' /\ DbGrows
    BY PeeringStepType DEF PeersInv
<1>2. ASSUME NEW n \in Nodes, NEW m \in Nodes, ConnectToPeer(n, m) PROVE PeersInv'
    BY <1>1, <1>2, CallsKept DEF ConnectToPeer, dbVars
<1>3. ASSUME NEW n \in Nodes, NEW m \in Nodes, VersionRejected(n, m) PROVE PeersInv'
    BY <1>1, <1>3, RejectedInv
<1>4. ASSUME NEW n \in Nodes, NEW m \in Nodes, VersionHandler(n, m) PROVE PeersInv'
    BY <1>1, <1>4, HandledInv
<1>5. ASSUME NEW n \in Nodes, NEW m \in Nodes, VersionFails(n, m) PROVE PeersInv'
    BY <1>1, <1>5, CallsKept DEF VersionFails, dbVars
<1>6. ASSUME NEW n \in Nodes, NEW m \in Nodes, VersionReturns(n, m) \/ VersionTimeout(n, m)
      PROVE  PeersInv'
    <2>1. UNCHANGED <<AddressDB, PeerDb, versions, failed>>
        BY <1>6 DEF VersionReturns, VersionTimeout, callVars
    <2>2. \A p \in Nodes : sentVer'[p] \cup waits'[p] \subseteq sentVer[p] \cup waits[p]
        <3>1. CASE VersionReturns(n, m)
            BY <3>1 DEF VersionReturns, With, PeersInv, PeeringTypeOK
        <3>2. CASE VersionTimeout(n, m)
            BY <3>2 DEF VersionTimeout, PeersInv, PeeringTypeOK
        <3> QED BY <1>6, <3>1, <3>2
    <2>3. \A p, q \in Nodes : Reached(p, q) => Reached(p, q)'
        BY <2>1 DEF Reached, Full, AddressRoom, PeerRoom
    <2>4. SentReach'
        BY <2>2, <2>3 DEF PeersInv, SentReach, PeeringTypeOK
    <2>5. NoOneSided' /\ PeersKnown' /\ PeersAlike'
        BY <2>1, <2>3 DEF PeersInv, NoOneSided, PeersKnown, PeersAlike, PeeringTypeOK
    <2> QED BY <1>1, <2>4, <2>5 DEF PeersInv
<1>7. ASSUME NEW n \in Nodes, BroadcastAddress(n) PROVE PeersInv'
    BY <1>1, <1>7, CallsKept DEF BroadcastAddress, dbVars
<1>8. ASSUME NEW n \in Nodes, PauseNetwork(n) \/ ResumeNetwork(n) PROVE PeersInv'
    BY <1>1, <1>8, CallsKept DEF PauseNetwork, ResumeNetwork, dbVars, callVars
<1>9. ASSUME NEW n \in Nodes, NEW msg \in addrs, SendAddressesOwn(n, msg) \/ SendAddressesFails(n, msg)
      PROVE  PeersInv'
    BY <1>1, <1>9, CallsKept DEF SendAddressesOwn, SendAddressesFails, dbVars
<1>10. ASSUME NEW n \in Nodes, NEW msg \in addrs, SendAddresses(n, msg) PROVE PeersInv'
    BY <1>1, <1>10, AddressesInv
<1> QED BY <1>1, <1>2, <1>3, <1>4, <1>5, <1>6, <1>7, <1>8, <1>9, <1>10
        DEF PeeringNext, AnswerVersion, AnswerAddresses

-----------------------------------------------------------------------------
(* Transactions                                                            *)

LEMMA InitGossip == Init => GossipInv
BY DEF Init, GossipInv, SentToPeers, WitnessesComplete

\* The steps that change neither transactions nor calls about them.
LEMMA GossipUnchanged ==
    ASSUME GossipInv, PeeringTypeOK, DbGrows, UNCHANGED txVars
    PROVE  GossipInv'
BY DEF GossipInv, SentToPeers, WitnessesComplete, DbGrows, txVars

\* A panic ends the handler that waits for witnesses with the process.
LEMMA GossipDies ==
    ASSUME GossipInv, PeeringTypeOK, DbGrows, NEW n \in Nodes, Dies(n),
           UNCHANGED <<SeenTransactions, witnessed>>, forwardTxs' \subseteq forwardTxs
    PROVE  GossipInv'
<1>1. handler' \in [Nodes -> {Free} \cup [tx : Transactions, from : Nodes]]
    BY DEF GossipInv, Dies
<1> QED BY <1>1 DEF GossipInv, SentToPeers, WitnessesComplete, DbGrows

\* Calls that go on in flight, and the ones that pass a known transaction on.
LEMMA Passed ==
    ASSUME GossipInv, PeeringTypeOK, NEW n \in Nodes, NEW t \in Transactions, UNCHANGED PeerDb,
           forwardTxs' \subseteq forwardTxs \cup ToPeers(n, t),
           SeenTransactions' = With(SeenTransactions, n, {t})
    PROVE  /\ SentToPeers'
           /\ \A msg \in forwardTxs' : msg.tx \in Transactions /\ msg.tx \in SeenTransactions'[msg.from]
<1>1. \A msg \in ToPeers(n, t) : msg.from = n /\ msg.to \in PeerDb[n] /\ msg.tx = t
    BY DEF ToPeers
<1>2. /\ t \in SeenTransactions'[n]
      /\ \A m \in Nodes : SeenTransactions[m] \subseteq SeenTransactions'[m]
    BY DEF GossipInv, With
<1> QED BY <1>1, <1>2 DEF GossipInv, SentToPeers, WitnessesComplete, PeeringTypeOK

LEMMA GossipStep ==
    ASSUME GossipInv, PeeringTypeOK, DbGrows, NEW n \in Nodes,
           \/ \E t \in Transactions : BroadcastTransaction(n, t) \/ TransactionStep(n, t)
           \/ WitnessStep(n) \/ WitnessesLate(n)
    PROVE  GossipInv'
<1> USE DEF GossipInv
<1>1. ASSUME NEW t \in Transactions, BroadcastTransaction(n, t) PROVE GossipInv'
    <2>1. /\ SentToPeers'
          /\ \A msg \in forwardTxs' : msg.tx \in Transactions /\ msg.tx \in SeenTransactions'[msg.from]
        BY <1>1, Passed DEF BroadcastTransaction, dbVars
    <2>2. \A m \in Nodes : SeenTransactions'[m] \cap Segwit \subseteq witnessed'[m]
        BY <1>1 DEF BroadcastTransaction, With, WitnessesComplete
    <2> QED BY <1>1, <2>1, <2>2 DEF BroadcastTransaction, With, WitnessesComplete
<1>2. ASSUME NEW msg \in forwardTxs, msg.to = n, ForwardTransaction(n, msg) PROVE GossipInv'
    <2>1. /\ SentToPeers'
          /\ \A x \in forwardTxs' : x.tx \in Transactions /\ x.tx \in SeenTransactions'[x.from]
        BY <1>2, Passed DEF ForwardTransaction, PassOn, Only, peeringVars, dbVars
    <2>2. \A m \in Nodes : SeenTransactions'[m] \cap Segwit \subseteq witnessed'[m]
        BY <1>2 DEF ForwardTransaction, HasWitnesses, With, WitnessesComplete
    <2> QED BY <1>2, <2>1, <2>2 DEF ForwardTransaction, PassOn, With, WitnessesComplete
<1>3. ASSUME NEW msg \in forwardTxs, msg.to = n, AskWitnesses(n, msg) PROVE GossipInv'
    BY <1>3 DEF AskWitnesses, peeringVars, dbVars, SentToPeers, WitnessesComplete
<1>4. ASSUME NEW msg \in forwardTxs, AskUnknown(n, msg) \/ ForwardTransactionFails(msg)
      PROVE  GossipInv'
    <2>1. CASE AskUnknown(n, msg)
        BY <2>1, GossipDies DEF AskUnknown
    <2>2. CASE ForwardTransactionFails(msg)
        BY <2>2 DEF ForwardTransactionFails, peeringVars, dbVars, SentToPeers, WitnessesComplete
    <2> QED BY <1>4, <2>1, <2>2
<1>5. ASSUME GetWitnesses(n) PROVE GossipInv'
    <2> DEFINE t == handler[n].tx
               m == handler[n].from
    <2>1. t \in Transactions /\ m \in Nodes
        BY <1>5 DEF GetWitnesses
    <2>2. /\ t \in SeenTransactions[m]
          /\ SeenTransactions' = With(SeenTransactions, n, {t})
          /\ witnessed' = With(witnessed, n, witnessed[m] \cap {t})
          /\ handler' = [handler EXCEPT ![n] = Free]
          /\ forwardTxs' \subseteq forwardTxs \cup ToPeers(n, t)
          /\ UNCHANGED PeerDb
        BY <1>5 DEF GetWitnesses, PassOn, Only, Serves, Refuses, peeringVars, dbVars
    <2> HIDE DEF t, m
    <2>3. /\ SentToPeers'
          /\ \A x \in forwardTxs' : x.tx \in Transactions /\ x.tx \in SeenTransactions'[x.from]
        BY <2>1, <2>2, Passed
    <2>4. t \in Segwit => t \in witnessed[m]
        BY <2>1, <2>2 DEF WitnessesComplete
    <2>5. \A p \in Nodes : SeenTransactions'[p] \cap Segwit \subseteq witnessed'[p]
        BY <2>1, <2>2, <2>4 DEF With, WitnessesComplete
    <2> QED BY <2>1, <2>2, <2>3, <2>5 DEF With, WitnessesComplete
<1>6. ASSUME WitnessesLate(n) PROVE GossipInv'
    BY <1>6 DEF WitnessesLate, peeringVars, dbVars, SentToPeers, WitnessesComplete
<1> QED BY <1>1, <1>2, <1>3, <1>4, <1>5, <1>6 DEF TransactionStep, WitnessStep, WitnessesMissing

-----------------------------------------------------------------------------
(* Bootstrap                                                               *)

LEMMA InitBoot == Init => BootInv
<1> SUFFICES ASSUME NEW s \in Scenarios, Length = s.Length, boot = [n \in Nodes |-> Idle],
                    owed = [n \in Nodes |-> 0]
             PROVE  BootInv
    BY DEF Init
<1>1. Length \in [Nodes -> Nat]
    BY ScenariosAssumption, ChainAssumption
<1> QED BY <1>1 DEF BootInv, Idle, BootstrapGains

LengthGrows == Length' \in [Nodes -> Nat] /\ \A n \in Nodes : Length[n] <= Length'[n]

\* A block that is handled makes the chain longer by one, or not at all.
LEMMA HandleGrows ==
    ASSUME Length \in [Nodes -> Nat], NEW n \in Nodes, NEW h,
           Length' = Length \/ Length' = HandleBlock(n, h)
    PROVE  LengthGrows
BY DEF LengthGrows, HandleBlock, Extends

\* What holds of answers goes on to hold while chains grow.
LEMMA AskGrows ==
    ASSUME Length \in [Nodes -> Nat], LengthGrows, NEW n \in Nodes, NEW b \in AskType,
           AskInv(Length, n, b)
    PROVE  AskInv(Length', n, b)
<1>1. \A p : Answer(Length, b, p) => Answer(Length', b, p)
    <2> SUFFICES ASSUME NEW p, Answer(Length, b, p) PROVE Answer(Length', b, p)
        OBVIOUS
    <2>1. p \in Nodes /\ b.res[p] \in AnswerType
        BY DEF Answer, AskType
    <2> QED BY <2>1 DEF Answer, AnswerType, LengthGrows
<1>2. b.top \in Nat /\ b.top <= Length'[n]
    BY DEF AskInv, AskType, LengthGrows
<1> QED BY <1>1, <1>2 DEF AskInv

LEMMA FetchGrows ==
    ASSUME Length \in [Nodes -> Nat], LengthGrows, NEW n \in Nodes, NEW b \in FetchType,
           FetchInv(Length, n, b)
    PROVE  FetchInv(Length', n, b)
BY DEF FetchInv, FetchType, LengthGrows

\* A step of node n has to establish the invariant for n only.
LEMMA BootOfOthers ==
    ASSUME BootInv, LengthGrows, NEW n \in Nodes,
           \A m \in Nodes \ {n} : boot'[m] = boot[m],
           boot' \in [Nodes -> {Idle} \cup AskType \cup FetchType],
           boot'[n].pc = "ask" => AskInv(Length', n, boot'[n]),
           boot'[n].pc = "fetch" => FetchInv(Length', n, boot'[n]),
           owed' \in [Nodes -> Nat], BootstrapGains'
    PROVE  BootInv'
<1>1. ASSUME NEW m \in Nodes, boot'[m].pc = "ask" PROVE AskInv(Length', m, boot'[m])
    <2>1. CASE m = n
        BY <1>1, <2>1
    <2>2. CASE m # n
        <3>1. boot[m] = boot'[m] /\ boot[m].pc = "ask"
            BY <1>1, <2>2
        <3>2. boot[m] \in AskType /\ AskInv(Length, m, boot[m])
            BY <3>1 DEF BootInv, AskType, FetchType, Idle
        <3> QED BY <3>1, <3>2, AskGrows DEF BootInv
    <2> QED BY <2>1, <2>2
<1>2. ASSUME NEW m \in Nodes, boot'[m].pc = "fetch" PROVE FetchInv(Length', m, boot'[m])
    <2>1. CASE m = n
        BY <1>2, <2>1
    <2>2. CASE m # n
        <3>1. boot[m] = boot'[m] /\ boot[m].pc = "fetch"
            BY <1>2, <2>2
        <3>2. boot[m] \in FetchType /\ FetchInv(Length, m, boot[m])
            BY <3>1 DEF BootInv, AskType, FetchType, Idle
        <3> QED BY <3>1, <3>2, FetchGrows DEF BootInv
    <2> QED BY <2>1, <2>2
<1> QED BY <1>1, <1>2 DEF BootInv, LengthGrows

LEMMA GainsKept ==
    ASSUME BootInv, LengthGrows, UNCHANGED owed
    PROVE  BootstrapGains' /\ owed' \in [Nodes -> Nat]
BY DEF BootInv, BootstrapGains, LengthGrows

\* Steps outside Bootstrap.
LEMMA BootUnchanged ==
    ASSUME BootInv, LengthGrows, UNCHANGED <<boot, owed>>
    PROVE  BootInv'
<1>1. CASE Nodes = {}
    BY <1>1 DEF BootInv, BootstrapGains, LengthGrows
<1>2. CASE Nodes # {}
    <2>1. PICK n \in Nodes : TRUE
        BY <1>2
    <2>2. boot[n].pc = "ask" => AskInv(Length', n, boot[n])
        BY AskGrows DEF BootInv, AskType, FetchType, Idle
    <2>3. boot[n].pc = "fetch" => FetchInv(Length', n, boot[n])
        BY FetchGrows DEF BootInv, AskType, FetchType, Idle
    <2> QED BY <2>2, <2>3, BootOfOthers, GainsKept DEF BootInv
<1> QED BY <1>1, <1>2

LEMMA BootDies ==
    ASSUME BootInv, NEW n \in Nodes, Dies(n), UNCHANGED <<Length, owed>>
    PROVE  BootInv'
<1>1. LengthGrows
    BY DEF BootInv, LengthGrows
<1>2. boot' = [boot EXCEPT ![n] = Idle]
    BY DEF Dies
<1> QED BY <1>1, <1>2, BootOfOthers, GainsKept DEF BootInv, Idle

LEMMA BootstrapStarts ==
    ASSUME BootInv, PeeringTypeOK, NEW n \in Nodes, Bootstrap(n)
    PROVE  BootInv'
<1>1. LengthGrows /\ UNCHANGED owed
    BY DEF BootInv, LengthGrows, Bootstrap, blockVars
<1>2. CASE PeerDb[n] = {}
    BY <1>1, <1>2, BootUnchanged DEF Bootstrap, BootInv
<1>3. CASE PeerDb[n] # {}
    <2> DEFINE b == [pc |-> "ask", top |-> Length[n], asks |-> PeerDb[n],
                     compares |-> {}, writes |-> {}, sets |-> {},
                     res |-> [p \in PeerDb[n] |-> [ind |-> -1, upper |-> 0]],
                     longestRes |-> None, addr |-> None, least |-> MaxLength]
    <2>1. boot' = [boot EXCEPT ![n] = b]
        BY <1>3 DEF Bootstrap
    <2>2. b \in AskType
        <3>1. [p \in PeerDb[n] |-> [ind |-> -1, upper |-> 0]] \in [PeerDb[n] -> AnswerType]
            BY DEF AnswerType
        <3>2. PeerDb[n] \in SUBSET Nodes
            BY DEF PeeringTypeOK
        <3> QED BY <3>1, <3>2, ChainAssumption DEF AskType, BootInv
    <2>3. AskInv(Length', n, b)
        BY <1>1 DEF AskInv, LengthGrows, BootInv
    <2>4. b.pc = "ask"
        OBVIOUS
    <2> HIDE DEF b
    <2> QED BY <1>1, <2>1, <2>2, <2>3, <2>4, BootOfOthers, GainsKept DEF BootInv
<1> QED BY <1>2, <1>3

\* Asking: the goroutines compare and write without a lock.
LEMMA AskStep ==
    ASSUME BootInv, NEW n \in Nodes, NEW c \in AskType, boot' = [boot EXCEPT ![n] = c],
           AskInv(Length, n, c), UNCHANGED <<Length, owed>>
    PROVE  BootInv'
<1>1. LengthGrows
    BY DEF BootInv, LengthGrows
<1>2. AskInv(Length', n, c) /\ c.pc = "ask"
    BY DEF AskType
<1> QED BY <1>1, <1>2, BootOfOthers, GainsKept DEF BootInv

LEMMA IsAsking ==
    ASSUME BootInv, NEW n \in Nodes, boot[n].pc = "ask"
    PROVE  boot[n] \in AskType /\ AskInv(Length, n, boot[n])
BY DEF BootInv, AskType, FetchType, Idle

LEMMA GetBlocksInv ==
    ASSUME BootInv, NEW n \in Nodes, NEW p \in Nodes, GetBlocks(n, p)
    PROVE  BootInv'
<1> DEFINE b == boot[n]
           ind == RecordHeight(p, b.top)
           upper == UpperIndex(ind, p)
           answer == [ind |-> ind, upper |-> upper]
           least == IF upper < b.least THEN upper ELSE b.least
           c == [b EXCEPT !.asks = @ \ {p}, !.res = [@ EXCEPT ![p] = answer],
                          !.compares = @ \cup {p}, !.least = least]
<1>1. b \in AskType /\ AskInv(Length, n, b)
    BY IsAsking DEF GetBlocks
<1>2. /\ ind \in Nat \cup {-1} /\ ind <= b.top
      /\ upper \in Nat /\ upper <= Length[p]
    BY <1>1, ChainAssumption DEF UpperIndex, RecordHeight, HasBlock, AskType, BootInv
<1>3. boot' = [boot EXCEPT ![n] = c] /\ UNCHANGED <<Length, owed>>
    BY DEF GetBlocks, blockVars, BootInv
<1>4. answer \in AnswerType /\ answer.ind = ind /\ answer.upper = upper
    BY <1>2 DEF AnswerType
<1>5. least \in Nat /\ least <= upper /\ least <= b.least
    BY <1>1, <1>2 DEF AskType
<1>6. p \in b.asks /\ p \in DOMAIN b.res
    BY <1>1 DEF GetBlocks, AskInv
<1> HIDE DEF b, ind, upper, answer, least
<1>7. PICK S \in SUBSET Nodes : b.res \in [S -> AnswerType]
    BY <1>1 DEF AskType
<1>8. c \in AskType
    <2>1. [b.res EXCEPT ![p] = answer] \in [S -> AnswerType]
        BY <1>4, <1>7
    <2> QED BY <1>1, <1>5, <2>1 DEF AskType
<1>9. /\ c.top = b.top /\ c.asks = b.asks \ {p} /\ c.sets = b.sets /\ c.least = least
      /\ c.compares = b.compares \cup {p} /\ c.writes = b.writes /\ c.res = [b.res EXCEPT ![p] = answer]
      /\ c.longestRes = b.longestRes /\ c.addr = b.addr
    BY <1>1 DEF AskType
<1> HIDE DEF c
<1>10. Answer(Length, c, p)
    BY <1>2, <1>4, <1>5, <1>6, <1>7, <1>9 DEF Answer
<1>11. ASSUME NEW q, Answer(Length, b, q), q # p PROVE Answer(Length, c, q)
    <2>1. q \in S /\ c.res[q] = b.res[q] /\ b.res[q] \in AnswerType /\ b.least \in Nat
        BY <1>1, <1>7, <1>9, <1>11 DEF Answer, AskType
    <2> QED BY <1>5, <1>7, <1>9, <1>11, <2>1 DEF Answer, AnswerType
<1>12. AskInv(Length, n, c)
    <2>1. c.top <= Length[n] /\ c.asks \subseteq DOMAIN c.res
        BY <1>1, <1>7, <1>9 DEF AskInv
    <2>2. \A q \in c.compares \cup c.writes \cup c.sets : Answer(Length, c, q)
        BY <1>1, <1>9, <1>10, <1>11 DEF AskInv
    <2>3. c.longestRes # None => Answer(Length, c, c.longestRes) /\ (c.sets # {} \/ Answer(Length, c, c.addr))
        BY <1>1, <1>9, <1>10, <1>11 DEF AskInv
    <2> QED BY <2>1, <2>2, <2>3 DEF AskInv
<1> QED BY <1>3, <1>8, <1>12, AskStep

LEMMA AskSteps ==
    ASSUME BootInv, NEW n \in Nodes, NEW p \in Nodes,
           GetBlocksFails(n, p) \/ CompareRes(n, p) \/ SetLongestRes(n, p) \/ SetAddr(n, p)
    PROVE  BootInv'
<1> DEFINE b == boot[n]
<1>1. b \in AskType /\ AskInv(Length, n, b) /\ UNCHANGED <<Length, owed>>
    BY IsAsking DEF GetBlocksFails, CompareRes, SetLongestRes, SetAddr, blockVars
<1>2. CASE GetBlocksFails(n, p)
    <2> DEFINE c == [b EXCEPT !.asks = @ \ {p}]
    <2>1. boot' = [boot EXCEPT ![n] = c]
        BY <1>2 DEF GetBlocksFails, BootInv
    <2>2. c \in AskType /\ AskInv(Length, n, c)
        BY <1>1 DEF AskType, AskInv, Answer
    <2> HIDE DEF c
    <2> QED BY <1>1, <2>1, <2>2, AskStep
<1>3. CASE SetLongestRes(n, p)
    <2> DEFINE c == [b EXCEPT !.writes = @ \ {p}, !.sets = @ \cup {p}, !.longestRes = p]
    <2>1. boot' = [boot EXCEPT ![n] = c] /\ p \in b.writes
        BY <1>3 DEF SetLongestRes, BootInv
    <2>2. c \in AskType
        BY <1>1, <2>1 DEF AskType
    <2>3. /\ c.top = b.top /\ c.asks = b.asks /\ c.compares = b.compares /\ c.least = b.least
          /\ c.writes = b.writes \ {p} /\ c.sets = b.sets \cup {p} /\ c.res = b.res
          /\ c.longestRes = p
        BY <1>1 DEF AskType
    <2> HIDE DEF c
    <2>4. \A q : Answer(Length, b, q) => Answer(Length, c, q)
        BY <2>3 DEF Answer
    <2>5. AskInv(Length, n, c)
        BY <1>1, <2>1, <2>3, <2>4 DEF AskInv
    <2> QED BY <1>1, <2>1, <2>2, <2>5, AskStep
<1>4. CASE SetAddr(n, p)
    <2> DEFINE c == [b EXCEPT !.sets = @ \ {p}, !.addr = p]
    <2>1. boot' = [boot EXCEPT ![n] = c] /\ p \in b.sets
        BY <1>4 DEF SetAddr, BootInv
    <2>2. c \in AskType
        BY <1>1, <2>1 DEF AskType
    <2>3. /\ c.top = b.top /\ c.asks = b.asks /\ c.compares = b.compares /\ c.least = b.least
          /\ c.writes = b.writes /\ c.sets = b.sets \ {p} /\ c.res = b.res
          /\ c.longestRes = b.longestRes /\ c.addr = p
        BY <1>1 DEF AskType
    <2> HIDE DEF c
    <2>4. \A q : Answer(Length, b, q) => Answer(Length, c, q)
        BY <2>3 DEF Answer
    <2>5. AskInv(Length, n, c)
        BY <1>1, <2>1, <2>3, <2>4 DEF AskInv
    <2> QED BY <1>1, <2>1, <2>2, <2>5, AskStep
<1>5. CASE CompareRes(n, p)
    <2> DEFINE more == Only(Longer(b, b.res[p]), {p})
               c == [b EXCEPT !.compares = @ \ {p}, !.writes = @ \cup more]
    <2>1. boot' = [boot EXCEPT ![n] = c] /\ p \in b.compares
        BY <1>5 DEF CompareRes, BootInv
    <2>2. more \subseteq {p}
        BY DEF Only
    <2> HIDE DEF more
    <2>3. c \in AskType
        BY <1>1, <2>1, <2>2 DEF AskType
    <2>4. /\ c.top = b.top /\ c.asks = b.asks /\ c.compares = b.compares \ {p} /\ c.least = b.least
          /\ c.writes = b.writes \cup more /\ c.sets = b.sets /\ c.res = b.res
          /\ c.longestRes = b.longestRes /\ c.addr = b.addr
        BY <1>1 DEF AskType
    <2> HIDE DEF c
    <2>5. \A q : Answer(Length, b, q) => Answer(Length, c, q)
        BY <2>4 DEF Answer
    <2>6. AskInv(Length, n, c)
        BY <1>1, <2>1, <2>2, <2>4, <2>5 DEF AskInv
    <2> QED BY <1>1, <2>1, <2>3, <2>6, AskStep
<1> QED BY <1>2, <1>3, <1>4, <1>5

\* wg.Wait returns: whoever was written into longestRes and addr has answered.
LEMMA CollectedInv ==
    ASSUME BootInv, NEW n \in Nodes, Collected(n)
    PROVE  BootInv'
<1> DEFINE b == boot[n]
<1>1. b \in AskType /\ AskInv(Length, n, b) /\ UNCHANGED <<Length, owed>> /\ LengthGrows /\ b.sets = {}
    BY IsAsking DEF Collected, blockVars, LengthGrows, BootInv, AllDone
<1>2. CASE b.longestRes = None
    <2>1. boot' = [boot EXCEPT ![n] = Idle]
        BY <1>2 DEF Collected, BootInv
    <2> QED BY <1>1, <2>1, BootOfOthers, GainsKept DEF BootInv, Idle
<1>3. CASE b.longestRes # None
    <2> DEFINE c == [pc |-> "fetch", next |-> FirstIndex(b.res[b.longestRes].ind),
                     upto |-> b.res[b.longestRes].upper, addr |-> b.addr, least |-> b.least]
    <2>1. boot' = [boot EXCEPT ![n] = c]
        BY <1>3 DEF Collected, BootInv
    <2>2. Answer(Length, b, b.longestRes) /\ Answer(Length, b, b.addr)
        BY <1>1, <1>3 DEF AskInv
    <2>3. b.res[b.longestRes] \in AnswerType /\ b.res[b.addr] \in AnswerType
        BY <1>1, <2>2 DEF AskType, Answer
    <2>4. c \in FetchType
        BY <1>1, <2>2, <2>3 DEF FetchType, AskType, AnswerType, FirstIndex, Answer
    <2>5. FetchInv(Length', n, c)
        BY <1>1, <2>2, <2>3 DEF FetchInv, AskInv, AskType, AnswerType, Answer, FirstIndex, BootInv
    <2>6. c.pc = "fetch"
        OBVIOUS
    <2> HIDE DEF c
    <2> QED BY <1>1, <2>1, <2>4, <2>5, <2>6, BootOfOthers, GainsKept DEF BootInv
<1> QED BY <1>2, <1>3

LEMMA IsFetching ==
    ASSUME BootInv, NEW n \in Nodes, boot[n].pc = "fetch"
    PROVE  boot[n] \in FetchType /\ FetchInv(Length, n, boot[n])
BY DEF BootInv, AskType, FetchType, Idle

\* Each block that is fetched extends the chain, unless the node has it already.
LEMMA GetDataInv ==
    ASSUME BootInv, NEW n \in Nodes, GetData(n)
    PROVE  BootInv'
<1> DEFINE b == boot[n]
           c == [b EXCEPT !.next = @ + 1]
<1>1. b \in FetchType /\ FetchInv(Length, n, b)
    BY IsFetching DEF GetData
<1>2. Length' = HandleBlock(n, b.next)
    BY DEF GetData
<1>3. LengthGrows
    BY <1>2, HandleGrows DEF BootInv
<1>4. boot' = [boot EXCEPT ![n] = c] /\ UNCHANGED owed
    BY DEF GetData, BootInv
<1>5. c = [pc |-> "fetch", next |-> b.next + 1, upto |-> b.upto, addr |-> b.addr, least |-> b.least]
    BY <1>1 DEF FetchType
<1>6. c \in FetchType
    BY <1>1, <1>5 DEF FetchType
<1>7. Length'[n] >= b.next \/ Length'[n] >= b.least
    BY <1>1, <1>2, <1>3 DEF HandleBlock, Extends, FetchInv, FetchType, LengthGrows, BootInv
<1>8. FetchInv(Length', n, c)
    BY <1>1, <1>3, <1>5, <1>7 DEF FetchInv, FetchType, LengthGrows, BootInv
<1>9. c.pc = "fetch"
    BY <1>5
<1> HIDE DEF c
<1> QED BY <1>3, <1>4, <1>6, <1>8, <1>9, BootOfOthers, GainsKept DEF BootInv

LEMMA BootstrappedInv ==
    ASSUME BootInv, NEW n \in Nodes, Bootstrapped(n)
    PROVE  BootInv'
<1>1. boot[n] \in FetchType /\ FetchInv(Length, n, boot[n])
    BY IsFetching DEF Bootstrapped
<1>2. LengthGrows /\ UNCHANGED Length /\ boot' = [boot EXCEPT ![n] = Idle]
      /\ owed' = [owed EXCEPT ![n] = boot[n].least] /\ boot[n].next > boot[n].upto
    BY DEF Bootstrapped, blockVars, LengthGrows, BootInv
<1>3. Length[n] >= boot[n].least /\ boot[n].least \in Nat
    BY <1>1, <1>2 DEF FetchInv, FetchType, BootInv
<1>4. owed' \in [Nodes -> Nat] /\ BootstrapGains'
    BY <1>2, <1>3 DEF BootInv, BootstrapGains
<1> QED BY <1>2, <1>4, BootOfOthers DEF BootInv, Idle

-----------------------------------------------------------------------------
(* Every step                                                              *)

\* Who is asked for the data is a node.
LEMMA FetchesFrom ==
    ASSUME BootInv, NEW n \in Nodes, boot[n].pc = "fetch"
    PROVE  boot[n].addr \in Nodes
BY IsFetching DEF FetchType

\* Nodes leave the databases and the handshake alone; a panic stops a server.
LEMMA NodeStepPeers ==
    ASSUME PeersInv, BootInv, NEW n \in Nodes, NodeStep(n)
    PROVE  PeersInv' /\ DbGrows
<1>1. UNCHANGED <<AddressDB, PeerDb, LastSeen, sentVer, waits, versions, addrs, failed>>
      /\ paused' \subseteq Nodes
    <2> USE DEF peeringVars, dbVars, callVars, PeersInv, PeeringTypeOK
    <2>1. CASE \E t \in Transactions : BroadcastTransaction(n, t) \/ TransactionStep(n, t)
        BY <2>1 DEF BroadcastTransaction, TransactionStep, ForwardTransaction, AskWitnesses, AskUnknown,
                    ForwardTransactionFails, Dies
    <2>2. CASE StartMiner(n) \/ HandleMinerBlock(n) \/ Bootstrap(n) \/ WitnessesLate(n) \/ WitnessStep(n)
               \/ BlockStep(n)
        BY <2>2 DEF StartMiner, HandleMinerBlock, Bootstrap, WitnessStep, GetWitnesses, WitnessesMissing,
                    WitnessesLate, BlockStep, ForwardBlock, ForwardBlockFails
    <2>3. CASE BootStep(n)
        BY <2>3, FetchesFrom DEF BootStep, Collected, GetData, GetDataMissing, GetDataFails, Bootstrapped, GetBlocks, GetBlocksFails,
                    CompareRes, SetLongestRes, SetAddr, Dies
    <2> QED BY <2>1, <2>2, <2>3 DEF NodeStep
<1> QED BY <1>1, PeersUnchanged

LEMMA NodeStepGossip ==
    ASSUME GossipInv, BootInv, PeeringTypeOK, DbGrows, NEW n \in Nodes, NodeStep(n)
    PROVE  GossipInv'
<1>1. CASE \/ \E t \in Transactions : BroadcastTransaction(n, t) \/ TransactionStep(n, t)
           \/ WitnessStep(n) \/ WitnessesLate(n)
    BY <1>1, GossipStep
<1>2. CASE StartMiner(n) \/ HandleMinerBlock(n) \/ Bootstrap(n) \/ BlockStep(n)
    BY <1>2, GossipUnchanged DEF StartMiner, HandleMinerBlock, Bootstrap, BlockStep, ForwardBlock, ForwardBlockFails
<1>3. CASE BootStep(n)
    <2>1. CASE GetDataMissing(n)
        BY <2>1, FetchesFrom, GossipDies DEF GetDataMissing
    <2>2. CASE GetDataFails(n)
        BY <2>2, GossipDies DEF GetDataFails
    <2>3. CASE UNCHANGED txVars
        BY <2>3, GossipUnchanged
    <2> QED BY <1>3, <2>1, <2>2, <2>3 DEF BootStep, Collected, GetData, Bootstrapped, GetBlocks,
                                          GetBlocksFails, CompareRes, SetLongestRes, SetAddr
<1> QED BY <1>1, <1>2, <1>3 DEF NodeStep

LEMMA NodeStepBoot ==
    ASSUME BootInv, PeeringTypeOK, NEW n \in Nodes, NodeStep(n)
    PROVE  BootInv'
<1> USE DEF blockVars
<1>1. ASSUME UNCHANGED <<Length, boot, owed>> PROVE BootInv'
    BY <1>1, BootUnchanged DEF BootInv, LengthGrows
<1>2. CASE StartMiner(n) \/ WitnessStep(n) \/ WitnessesLate(n)
    BY <1>1, <1>2 DEF StartMiner, WitnessStep, GetWitnesses, WitnessesMissing, WitnessesLate
<1>3. ASSUME NEW t \in Transactions, BroadcastTransaction(n, t) \/ TransactionStep(n, t)
      PROVE  BootInv'
    BY <1>1, <1>3, BootDies DEF BroadcastTransaction, TransactionStep, ForwardTransaction, AskWitnesses,
                                AskUnknown, ForwardTransactionFails
<1>4. CASE HandleMinerBlock(n)
    <2>1. Length' = HandleBlock(n, 1) /\ UNCHANGED <<boot, owed>>
        BY <1>4 DEF HandleMinerBlock
    <2> QED BY <2>1, HandleGrows, BootUnchanged DEF BootInv
<1>5. CASE BlockStep(n)
    <2>1. PICK msg \in forwardBlocks : ForwardBlock(n, msg) \/ ForwardBlockFails(msg)
        BY <1>5 DEF BlockStep
    <2>2. (Length' = Length \/ Length' = HandleBlock(n, msg.block)) /\ UNCHANGED <<boot, owed>>
        BY <2>1 DEF ForwardBlock, ForwardBlockFails
    <2> QED BY <2>2, HandleGrows, BootUnchanged DEF BootInv
<1>6. CASE Bootstrap(n)
    BY <1>6, BootstrapStarts
<1>7. CASE BootStep(n)
    <2>1. GetDataFails(n) => BootInv'
        BY BootDies DEF GetDataFails
    <2>2. GetDataMissing(n) => BootInv'
        BY BootDies, FetchesFrom DEF GetDataMissing
    <2> QED BY <1>7, <2>1, <2>2, GetBlocksInv, AskSteps, CollectedInv, GetDataInv, BootstrappedInv DEF BootStep
<1> QED BY <1>2, <1>3, <1>4, <1>5, <1>6, <1>7 DEF NodeStep

\* The whole invariant.
NetworkInv == PeersInv /\ GossipInv /\ BootInv

LEMMA NetworkStep == NetworkInv /\ [Next]_vars => NetworkInv'
<1> SUFFICES ASSUME PeersInv, GossipInv, BootInv, [Next]_vars
             PROVE  PeersInv' /\ GossipInv' /\ BootInv'
    BY DEF NetworkInv
<1>0. PeeringTypeOK
    BY DEF PeersInv
<1>1. CASE Peers(PeeringNext)
    <2>1. PeersInv' /\ DbGrows
        BY <1>1, PeeringStep DEF Peers
    <2>2. GossipInv'
        BY <1>0, <1>1, <2>1, GossipUnchanged DEF Peers
    <2>3. BootInv'
        BY <1>1, BootUnchanged DEF Peers, blockVars, BootInv, LengthGrows
    <2> QED BY <2>1, <2>2, <2>3
<1>2. ASSUME NEW n \in Nodes, NodeStep(n) PROVE PeersInv' /\ GossipInv' /\ BootInv'
    BY <1>0, <1>2, NodeStepPeers, NodeStepGossip, NodeStepBoot
<1>3. CASE UNCHANGED vars
    <2> USE <1>3 DEF vars, peeringVars, dbVars, callVars, blockVars
    <2>1. PeersInv' /\ DbGrows
        <3>1. paused' \subseteq Nodes
            BY <1>0 DEF PeeringTypeOK
        <3> QED BY <3>1, PeersUnchanged
    <2>2. GossipInv'
        BY <1>0, <2>1, GossipUnchanged
    <2>3. BootInv'
        BY BootUnchanged DEF BootInv, LengthGrows
    <2> QED BY <2>1, <2>2, <2>3
<1> QED BY <1>1, <1>2, <1>3 DEF Next

\* Handshake, gossip and Bootstrap keep the invariant together.
THEOREM NetworkInvariance == Spec => []NetworkInv
<1>1. Init => NetworkInv
    BY InitPeers, InitGossip, InitBoot DEF NetworkInv
<1> QED BY <1>1, NetworkStep, PTL DEF Spec

\* The databases of peers and addresses hold nodes, and calls in flight go from
\* node to node (ephemeraldb.go of address and peer, server.go:19-160).
THEOREM PeeringTypeCorrect == Spec => []PeeringTypeOK
<1>1. NetworkInv => PeeringTypeOK
    BY DEF NetworkInv, PeersInv
<1> QED BY <1>1, NetworkInvariance, PTL

\* The handshake of server.go:19-64 leaves no peering one-sided.
THEOREM PeeringsAreMutual == Spec => []NoOneSided
<1>1. NetworkInv => NoOneSided
    BY DEF NetworkInv, PeersInv
<1> QED BY <1>1, NetworkInvariance, PTL

\* Whoever forwards a transaction can answer GetWitnesses (server.go:260-273).
THEOREM WitnessesAreComplete == Spec => []WitnessesComplete
<1>1. NetworkInv => WitnessesComplete
    BY DEF NetworkInv, GossipInv
<1> QED BY <1>1, NetworkInvariance, PTL

\* Bootstrap gets what all answers have in common, whatever the race at
\* node.go:322 makes of longestRes and addr.
THEOREM BootstrapIsSafe == Spec => []BootstrapGains
<1>1. NetworkInv => BootstrapGains
    BY DEF NetworkInv, BootInv
<1> QED BY <1>1, NetworkInvariance, PTL
=============================================================================
