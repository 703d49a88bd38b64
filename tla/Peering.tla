------------------------------- MODULE Peering -------------------------------
(***************************************************************************)
(* How the nodes of the network get to know each other: the Version        *)
(* handshake, the announcement of addresses (pkg/server.go, pkg/node.go)   *)
(* and the two in-memory databases they fill (pkg/peer, pkg/address).      *)
(*                                                                         *)
(* A handler runs in one step up to the RPCs it makes; those are messages  *)
(* in flight that are handled, or fail, at any later time.  A message that *)
(* is sent again while the first is still in flight counts once: handling  *)
(* it a second time changes nothing but LastSeen.                          *)
(*                                                                         *)
(* The entries of PeerDb point to the Address objects of AddressDB, so one *)
(* LastSeen and one SentVer serve both.  PeerDb.Add compares the LastSeen  *)
(* of the same object and so refuses every peer that is in it already.     *)
(* LastSeen is uint32(UnixNano), which wraps every four seconds: "now" may *)
(* be any stamp.                                                           *)
(***************************************************************************)
EXTENDS Integers, FiniteSets

CONSTANTS
    Nodes,
    Version,            \* Version[n], as in Config
    AddressLimit,       \* 1000 in the code
    PeerLimit,          \* 200 in the code
    Fanout,             \* 2 in the code
    Stamps              \* the values of LastSeen

ASSUME NodesAssumption == IsFiniteSet(Nodes)
ASSUME LimitsAssumption == {AddressLimit, PeerLimit, Fanout} \subseteq Nat
ASSUME StampsAssumption == Stamps \subseteq Nat /\ 0 \in Stamps

VARIABLES
    AddressDB, PeerDb,  \* per node, the addresses in the two databases
    LastSeen,           \* LastSeen[n][m]: of m's address at n
    sentVer,            \* the addresses whose SentVer is younger than VersionTimeout
    waits,              \* stored addresses whose VersionRPC has not returned
    versions,           \* Version calls in flight, <<from, to>>
    addrs,              \* SendAddresses calls in flight
    paused,             \* nodes that do not serve
    todo,               \* what users and environment will do, in any order
    failed              \* history: Version calls that failed, <<from, to>>

dbVars == <<AddressDB, PeerDb, LastSeen, sentVer, waits>>
callVars == <<versions, addrs, failed>>
peeringVars == <<dbVars, callVars, paused, todo>>

\* What a user does at a node; with is the peer or the transaction it is about.
Call(op, n, x) == [op |-> op, at |-> n, with |-> x]
Does(call) == call \in todo /\ todo' = todo \ {call}

-----------------------------------------------------------------------------
(* The databases                                                           *)

AddressRoom(n) == Cardinality(AddressDB[n]) < AddressLimit
PeerRoom(n) == Cardinality(PeerDb[n]) < PeerLimit

\* GetRandom: what may be returned.
GetRandom(n) ==
    IF Fanout >= Cardinality(PeerDb[n]) THEN {PeerDb[n]}
    ELSE {S \in SUBSET (PeerDb[n] \ {n}) : Cardinality(S) = Fanout}

With(f, n, S) == [f EXCEPT ![n] = @ \cup S]
Only(condition, S) == IF condition THEN S ELSE {}

-----------------------------------------------------------------------------
PeeringInit(calls, peers) ==
    /\ AddressDB = peers
    /\ PeerDb = peers
    /\ LastSeen = [n \in Nodes |-> [m \in Nodes |-> 0]]
    /\ sentVer = [n \in Nodes |-> {}]
    /\ waits = [n \in Nodes |-> {}]
    /\ versions = {}
    /\ addrs = {}
    /\ paused = {}
    /\ todo = calls
    /\ failed = {}

\* The Address object is made for the call: its SentVer is lost.
ConnectToPeer(n, m) ==
    /\ Does(Call("connect", n, m))
    /\ versions' = versions \cup {<<n, m>>}
    /\ UNCHANGED <<dbVars, addrs, paused, failed>>

\* Node n rejects other versions, and addresses it has no room for.
Accepts(n, m) == Version[m] = Version[n] /\ (m \in AddressDB[n] \/ AddressRoom(n))

VersionRejected(n, m) ==
    /\ <<m, n>> \in versions /\ n \notin paused
    /\ ~Accepts(n, m)
    /\ versions' = versions \ {<<m, n>>}
    /\ UNCHANGED <<dbVars, addrs, failed, paused, todo>>

\* An own Version is sent to a new peer, unless one was sent shortly before.
AnswersPending(n, m) == m \notin PeerDb[n] /\ PeerRoom(n) /\ m \in sentVer[n]   \* mutant: condition reversed
Answers(n, m) == m \notin PeerDb[n] /\ PeerRoom(n) /\ m \notin sentVer[n]

\* The call that answers goes through the new Address object, which is the
\* stored one only if the address was not known before.
VersionHandler(n, m) ==
    /\ <<m, n>> \in versions /\ n \notin paused
    /\ Accepts(n, m)
    /\ AddressDB' = With(AddressDB, n, {m})
    /\ \E now \in Stamps : LastSeen' = [LastSeen EXCEPT ![n][m] = now]
    /\ PeerDb' = With(PeerDb, n, Only(PeerRoom(n), {m}))
    /\ sentVer' = With(sentVer, n, Only(Answers(n, m), {m}))
    /\ waits' = With(waits, n, Only(Answers(n, m) /\ m \notin AddressDB[n], {m}))
    /\ versions' = (versions \ {<<m, n>>}) \cup Only(Answers(n, m), {<<n, m>>})
    /\ UNCHANGED <<addrs, failed, paused, todo>>

\* The server of n does not answer; the caller only logs it.
VersionFails(n, m) ==
    /\ <<m, n>> \in versions /\ n \in paused
    /\ versions' = versions \ {<<m, n>>}
    /\ failed' = failed \cup {<<m, n>>}
    /\ UNCHANGED <<dbVars, addrs, paused, todo>>

\* VersionRPC returns, with an answer or at its deadline, and sets SentVer.
VersionReturns(n, m) ==
    /\ m \in waits[n]
    /\ waits' = [waits EXCEPT ![n] = @ \ {m}]
    /\ sentVer' = With(sentVer, n, {m})
    /\ UNCHANGED <<AddressDB, PeerDb, LastSeen, callVars, paused, todo>>

VersionTimeout(n, m) ==
    /\ m \in sentVer[n]
    /\ sentVer' = [sentVer EXCEPT ![n] = @ \ {m}]
    /\ UNCHANGED <<AddressDB, PeerDb, LastSeen, waits, callVars, paused, todo>>

-----------------------------------------------------------------------------
(* Announcements                                                           *)

Announcements == [to : Nodes, addr : Nodes, stamp : Stamps]
Announce(S, a, stamp) == [to : S, addr : {a}, stamp : {stamp}]

BroadcastAddress(n) ==
    /\ Does(Call("announce", n, n))
    /\ \E now \in Stamps : addrs' = addrs \cup Announce(PeerDb[n], n, now)
    /\ UNCHANGED <<dbVars, versions, failed, paused>>

\* A handler that finds its own address in the list does nothing.
SendAddressesOwn(n, msg) ==
    /\ msg \in addrs /\ msg.to = n /\ n \notin paused
    /\ msg.addr = n
    /\ addrs' = addrs \ {msg}
    /\ UNCHANGED <<dbVars, versions, failed, paused, todo>>

\* Only news about a peer, or a new address, is passed on.
FoundNew(n, msg) ==
    \/ msg.addr \in PeerDb[n] /\ LastSeen[n][msg.addr] < msg.stamp
    \/ msg.addr \notin AddressDB[n] /\ AddressRoom(n)

\* The node tries to peer with the address in any case.
SendAddresses(n, msg) ==
    LET a == msg.addr
        added == a \notin AddressDB[n] /\ AddressRoom(n)
        newer == a \in AddressDB[n] /\ LastSeen[n][a] < msg.stamp
    IN /\ msg \in addrs /\ msg.to = n /\ n \notin paused
       /\ a # n
       /\ AddressDB' = With(AddressDB, n, Only(added, {a}))
       /\ LastSeen' = [LastSeen EXCEPT ![n][a] = IF added \/ newer THEN msg.stamp ELSE @]
       /\ versions' = versions \cup {<<n, a>>}
       /\ waits' = With(waits, n, Only(added, {a}))
       /\ \E chosen \in GetRandom(n) :
            addrs' = (addrs \ {msg}) \cup Only(FoundNew(n, msg), Announce(chosen, a, msg.stamp))
       /\ UNCHANGED <<PeerDb, sentVer, failed, paused, todo>>

SendAddressesFails(n, msg) ==
    /\ msg \in addrs /\ msg.to = n /\ n \in paused
    /\ addrs' = addrs \ {msg}
    /\ UNCHANGED <<dbVars, versions, failed, paused, todo>>

-----------------------------------------------------------------------------
(* Stopping and starting the server; calls to other nodes go on.           *)

PauseNetwork(n) ==
    /\ Does(Call("pause", n, n))
    /\ paused' = paused \cup {n}
    /\ UNCHANGED <<dbVars, callVars>>

ResumeNetwork(n) ==
    /\ n \in paused
    /\ Does(Call("resume", n, n))
    /\ paused' = paused \ {n}
    /\ UNCHANGED <<dbVars, callVars>>

-----------------------------------------------------------------------------
AnswerVersion(n, m) == VersionRejected(n, m) \/ VersionHandler(n, m) \/ VersionFails(n, m)
AnswerAddresses(n, msg) ==
    SendAddressesOwn(n, msg) \/ SendAddresses(n, msg) \/ SendAddressesFails(n, msg)

PeeringNext ==
    \/ \E n, m \in Nodes :
         ConnectToPeer(n, m) \/ AnswerVersion(n, m) \/ VersionReturns(n, m) \/ VersionTimeout(n, m)
    \/ \E n \in Nodes :
         \/ BroadcastAddress(n) \/ PauseNetwork(n) \/ ResumeNetwork(n)
         \/ \E msg \in addrs : AnswerAddresses(n, msg)

-----------------------------------------------------------------------------
(* Properties                                                              *)

PeeringTypeOK ==
    /\ AddressDB \in [Nodes -> SUBSET Nodes]
    /\ PeerDb \in [Nodes -> SUBSET Nodes]
    /\ LastSeen \in [Nodes -> [Nodes -> Stamps]]
    /\ sentVer \in [Nodes -> SUBSET Nodes]
    /\ waits \in [Nodes -> SUBSET Nodes]
    /\ versions \subseteq Nodes \X Nodes
    /\ addrs \subseteq Announcements
    /\ paused \subseteq Nodes
    /\ failed \subseteq Nodes \X Nodes

Full(n) == ~AddressRoom(n) \/ ~PeerRoom(n)

\* What node n told m about itself: m lists it, will hear of it, or cannot.
Reached(n, m) ==
    \/ n \in PeerDb[m] \/ <<n, m>> \in versions
    \/ <<n, m>> \in failed \/ Full(m)

\* No peering is one-sided: a node that lists a peer is listed by it, or its
\* own Version (server.go:52) is on the way there, unless that call failed or
\* the peer has no room.  An answer left out at server.go:50 must not be missed.
NoOneSided == \A n \in Nodes : \A m \in PeerDb[n] : Reached(n, m)
=============================================================================
