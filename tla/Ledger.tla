------------------------------- MODULE Ledger -------------------------------
(***************************************************************************)
(* What a block chain promises its node, as long as no fork is adopted: a  *)
(* list of blocks that only grows by blocks that spend unspent outputs,    *)
(* each of them once, and the set of the outputs that are unspent.         *)
(***************************************************************************)
EXTENDS Blocks

VARIABLES chain, utxo

Init ==
    /\ chain = <<Genesis>>
    /\ utxo = Spend({}, Genesis)

Extend(h) ==
    LET spent == InputsOf(Transactions[h])
    IN /\ PreviousHash[h] = Last(chain)
       /\ ToSet(spent) \subseteq utxo
       /\ IsInjective(spent)
       /\ chain' = Append(chain, h)
       /\ utxo' = Spend(utxo, h)

Next == \E h \in Hashes : Extend(h)

Spec == Init /\ [][Next]_<<chain, utxo>>
=============================================================================
