------------------------------ MODULE MCWallet ------------------------------
(***************************************************************************)
(* Requests for model checking Wallet.                                     *)
(***************************************************************************)
EXTENDS Wallet

\* <<amount, fee, receiver>>: one coin is enough, with or without change, or two
\* are needed; or nobody is paid.
SmallSpends == {<<1, 1, TRUE>>, <<4, 2, TRUE>>, <<2, 1, FALSE>>}

OneSpend == {<<2, 1, TRUE>>}

\* amount + fee is 3 after the overflow of an 8-bit word.
HugeSpends == {<<250, 9, TRUE>>}

OneFunding == {<<2, 1>>}
=============================================================================
