---------------------------- MODULE MCBlockIntake ----------------------------
(***************************************************************************)
(* The trees of MCBlockChain for BlockIntake.                              *)
(***************************************************************************)
EXTENDS MCBlockChain, BlockIntake
=============================================================================
