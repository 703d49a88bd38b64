------------------------------ MODULE MCNetwork ------------------------------
(***************************************************************************)
(* Scenarios for model checking Network: who has peered before, how long   *)
(* the chains are, and what users and the environment do, in any order.    *)
(* Node d speaks another version.                                          *)
(***************************************************************************)
EXTENDS Network

MCVersion == [n \in Nodes |-> IF n = "d" THEN 1 ELSE 0]

Strangers == [n \in Nodes |-> {}]
Pair == [Strangers EXCEPT !["a"] = {"b"}, !["b"] = {"a"}]
Line == [Pair EXCEPT !["b"] = {"a", "c"}, !["c"] = {"b"}]
Triangle == [Line EXCEPT !["a"] = {"b", "c"}, !["c"] = {"a", "b"}]

NoBlocks == [n \in Nodes |-> 0]
Behind == [NoBlocks EXCEPT !["b"] = 1, !["c"] = 3]

Scenario(peers, lengths, calls) == [peers |-> peers, Length |-> lengths, calls |-> calls]
At(op, n) == Call(op, n, n)

\* How nodes get to know each other.
JoinScenarios == {
    \* Both connect, while the server of one stops and starts.
    Scenario(Strangers, NoBlocks, {Call("connect", "a", "b"), Call("connect", "b", "a"),
                                   At("pause", "b"), At("resume", "b")}),
    \* Nodes that get full, or have another version.
    Scenario(Pair, NoBlocks, {Call("connect", "b", "b"), Call("connect", "b", "c"),
                              Call("connect", "d", "b")}),
    \* An announcement while the network changes.
    Scenario(Pair, NoBlocks, {At("announce", "a"), Call("connect", "c", "a"), At("pause", "b")}),
    Scenario(Line, NoBlocks, {At("announce", "a"), Call("connect", "c", "a")}),
    Scenario(Line, NoBlocks, {At("announce", "a"), At("pause", "b")})}

\* What they tell each other.
GossipScenarios == {
    \* A payment while somebody joins.
    Scenario(Pair, NoBlocks, {Call("pay", "a", "t"), Call("connect", "c", "a")}),
    \* Two payments cross.
    Scenario(Line, NoBlocks, {Call("pay", "a", "t"), Call("pay", "b", "u")}),
    \* A payment and a block, with a stopped server, or an active miner between.
    Scenario(Line, NoBlocks, {Call("pay", "a", "t"), At("mine", "c"), At("pause", "a")}),
    Scenario(Line, NoBlocks, {Call("pay", "a", "t"), At("mine", "c"), At("start", "b")}),
    Scenario(Triangle, NoBlocks, {At("mine", "a"), At("pause", "b"), At("resume", "b")}),
    \* Two nodes catch up, while the server of the third may stop.
    Scenario(Triangle, Behind, {At("bootstrap", "a"), At("bootstrap", "b"), At("pause", "c")})}

AllScenarios == JoinScenarios \cup GossipScenarios
=============================================================================
