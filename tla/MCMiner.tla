------------------------------- MODULE MCMiner -------------------------------
(***************************************************************************)
(* Calls for model checking Miner: a transaction from the wallet that a    *)
(* peer forwards too, another one, a block with the first and with the top *)
(* of the pool, one call of Mine and one request for a funding.            *)
(***************************************************************************)
EXTENDS Miner

KindOf == [w |-> "request", p |-> "forward", q |-> "forward", b |-> "block", m |-> "mine",
           f |-> "fund"]
TxsOf == [w |-> <<"t1">>, p |-> <<"t1">>, q |-> <<"t2">>, b |-> <<"t1", "t3">>, m |-> <<>>,
          f |-> <<>>]
MCKind == [c \in Calls |-> KindOf[c]]
MCTxs == [c \in Calls |-> TxsOf[c]]
MCInitialPool == <<"t4", "t5", "t3">>

MCTransactions == {"t1", "t2", "t3", "t4", "t5"}
MCInputSum == [t1 |-> 5, t2 |-> 7, t3 |-> 9, t4 |-> 6, t5 |-> 8]
MCOutputSum == [t1 |-> 5, t2 |-> 2, t3 |-> 3, t4 |-> 5, t5 |-> 3]
MCSize == [t \in MCTransactions |-> 100]
=============================================================================
