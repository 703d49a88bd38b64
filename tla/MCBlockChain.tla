---------------------------- MODULE MCBlockChain ----------------------------
(***************************************************************************)
(* Block trees for model checking BlockChain.                              *)
(***************************************************************************)
EXTENDS BlockChain

\* A chain G, A, B, C, D with two blocks that must be refused: X spends an
\* output a second time, Y an output of its own block.  One coinbase, cb, is in
\* A and again in C, after it was spent.
LineHashes == {"G", "A", "B", "C", "D", "X", "Y"}
LinePrevious == [G |-> "", A |-> "G", B |-> "A", C |-> "B", D |-> "C", X |-> "B", Y |-> "A"]
LineTransactions ==
    [G |-> <<"gen">>, A |-> <<"cb", "t1">>, B |-> <<"cb2", "t2">>, C |-> <<"cb", "t3">>,
     D |-> <<"cb3", "t4">>, X |-> <<"cb3", "t1">>, Y |-> <<"cb3", "t3", "t5">>]
LineInputs ==
    [gen |-> <<>>, cb |-> <<>>, cb2 |-> <<>>, cb3 |-> <<>>,
     t1 |-> << <<"gen", 0>> >>,
     t2 |-> << <<"t1", 0>>, <<"cb", 0>> >>,
     t3 |-> << <<"t1", 1>> >>,
     t4 |-> << <<"cb", 0>>, <<"t2", 0>> >>,
     t5 |-> << <<"t3", 0>> >>]
LineOutputs ==
    [gen |-> 1, cb |-> 1, cb2 |-> 1, cb3 |-> 1, t1 |-> 2, t2 |-> 1, t3 |-> 1, t4 |-> 2, t5 |-> 1]

\* The same chain, and Z with two transactions that spend the same coin.
TwiceHashes == {"G", "A", "Z"}
TwicePrevious == [G |-> "", A |-> "G", Z |-> "A"]
TwiceTransactions == [G |-> <<"gen">>, A |-> <<"cb", "t1">>, Z |-> <<"cb2", "t3", "t6">>]
TwiceInputs ==
    [gen |-> <<>>, cb |-> <<>>, cb2 |-> <<>>, t1 |-> << <<"gen", 0>> >>,
     t3 |-> << <<"t1", 1>> >>, t6 |-> << <<"t1", 1>>, <<"cb", 0>> >>]
TwiceOutputs == [gen |-> 1, cb |-> 1, cb2 |-> 1, t1 |-> 2, t3 |-> 1, t6 |-> 1]

\* Forks: A, B against A, C, D, E (the fork is above a block that spends) and
\* A, B against X, Y, Z (it is above the genesis block).
ForkHashes == {"G", "A", "B", "C", "D", "E", "X", "Y"}
ForkPrevious ==
    [G |-> "", A |-> "G", B |-> "A", C |-> "A", D |-> "C", E |-> "D", X |-> "G", Y |-> "X"]
ForkTransactions ==
    [G |-> <<"gen">>, A |-> <<"cb", "t1">>, B |-> <<"cb2", "t2">>, C |-> <<"cb3", "t3">>,
     D |-> <<"cb4">>, E |-> <<"cb5", "t4">>, X |-> <<"cb5">>, Y |-> <<"cb4">>]
ForkInputs ==
    [gen |-> <<>>, cb |-> <<>>, cb2 |-> <<>>, cb3 |-> <<>>, cb4 |-> <<>>, cb5 |-> <<>>,
     t1 |-> << <<"gen", 0>> >>, t2 |-> << <<"t1", 0>> >>, t3 |-> << <<"t1", 1>> >>,
     t4 |-> << <<"t1", 0>> >>]
ForkOutputs ==
    [gen |-> 1, cb |-> 1, cb2 |-> 1, cb3 |-> 1, cb4 |-> 1, cb5 |-> 1,
     t1 |-> 2, t2 |-> 1, t3 |-> 1, t4 |-> 1]

\* A line of seven, each block but the first two spending a coin of the one
\* before, and a fork B, X, Y.  MaxHashes is small, so that blocks that came
\* early can be adopted: G, A, B, C with D, E and F above.
LongHashes == {"G", "A", "B", "C", "D", "E", "F", "X", "Y"}
LongPrevious ==
    [G |-> "", A |-> "G", B |-> "A", C |-> "B", D |-> "C", E |-> "D", F |-> "E",
     X |-> "B", Y |-> "X"]
LongTransactions ==
    [G |-> <<"gen">>, A |-> <<"a">>, B |-> <<"b">>, C |-> <<"c">>, D |-> <<"d">>,
     E |-> <<"e">>, F |-> <<"f">>, X |-> <<"x">>, Y |-> <<"y">>]
LongInputs ==
    [gen |-> <<>>, a |-> << <<"gen", 0>> >>, b |-> << <<"a", 0>> >>, c |-> << <<"b", 0>> >>,
     d |-> << <<"c", 0>> >>, e |-> << <<"d", 0>> >>, f |-> << <<"e", 0>> >>,
     x |-> << <<"b", 0>> >>, y |-> << <<"x", 0>> >>]
LongOutputs == [tx \in DOMAIN LongInputs |-> 1]
=============================================================================
