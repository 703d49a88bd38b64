------------------------------- MODULE Blocks -------------------------------
(***************************************************************************)
(* Blocks and transactions (pkg/block) as the chain sees them.             *)
(*                                                                         *)
(* A block is named by its hash, a transaction by its hash, and a coin by  *)
(* its locator <<transaction hash, output index>>.  Amounts and locking    *)
(* scripts are fixed by the locator, so they are left out.  A block hash   *)
(* covers the header only and a transaction hash leaves the witnesses out; *)
(* two coinbase transactions with the same reward for the same miner have  *)
(* the same hash, so two blocks may contain one and the same transaction.  *)
(***************************************************************************)
EXTENDS Integers, Sequences, SequencesExt

CONSTANTS
    Hashes,         \* the blocks that exist in the network
    Genesis,        \* the block every node starts from
    PreviousHash,   \* the header's field: block -> its parent's hash, "" for Genesis
    Transactions,   \* block -> sequence of transactions
    Inputs,         \* transaction -> sequence of the coins it spends
    Outputs         \* transaction -> number of its outputs

NoHash == ""

ASSUME BlocksAssumption ==
    /\ Genesis \in Hashes /\ NoHash \notin Hashes
    /\ PreviousHash \in [Hashes -> Hashes \cup {NoHash}]
    /\ \A h \in Hashes : PreviousHash[h] = NoHash <=> h = Genesis
    /\ Transactions \in [Hashes -> Seq(DOMAIN Inputs)]
    /\ Outputs \in [DOMAIN Inputs -> Nat]
    /\ \A tx \in DOMAIN Inputs : Inputs[tx] \in Seq((DOMAIN Inputs) \X Nat)
    /\ \A k \in DOMAIN Transactions[Genesis] : Inputs[Transactions[Genesis][k]] = <<>>

\* A hash covers the hash of the parent, so that no block is its own ancestor:
\* in every set of blocks one has its parent elsewhere.
ASSUME HashesAssumption ==
    \A S \in SUBSET Hashes : S # {} => \E h \in S : PreviousHash[h] \notin S

\* The outputs of tx and of a list of transactions, in order.
TransactionOutputs(tx) == [i \in 1..Outputs[tx] |-> <<tx, i - 1>>]
AppendOutputs(cls, tx) == cls \o TransactionOutputs(tx)
OutputsOf(txs) == FoldLeft(AppendOutputs, <<>>, txs)

\* The coins a list of transactions spends, in order.
AppendInputs(cls, tx) == cls \o Inputs[tx]
InputsOf(txs) == FoldLeft(AppendInputs, <<>>, txs)

\* The chain that ends in block h, from the genesis block on.
ChainOf[h \in Hashes] ==
    IF h = Genesis THEN <<h>> ELSE Append(ChainOf[PreviousHash[h]], h)

\* The unspent outputs after a list of blocks: the reference definition.
Spend(utxo, h) == (utxo \ ToSet(InputsOf(Transactions[h]))) \cup ToSet(OutputsOf(Transactions[h]))
Utxo(chain) == FoldLeft(Spend, {}, chain)
=============================================================================
