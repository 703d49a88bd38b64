---------------------------- MODULE MCChainWriter ----------------------------
(* Blocks of two, three and six bytes with undo blocks of none to five bytes: *)
(* with a limit of five every way to fill, roll over and exceed a file occurs. *)
EXTENDS ChainWriter

MCPayloads ==
    {[block |-> <<"a1", "a2">>, undo |-> <<>>],
     [block |-> <<"b1", "b2", "b3">>, undo |-> <<"u1", "u2">>],
     [block |-> <<"c1", "c2", "c3", "c4", "c5", "c6">>, undo |-> <<"v1", "v2", "v3", "v4", "v5">>]}
MCByte == UNION {{p.block[i] : i \in DOMAIN p.block} \cup {p.undo[i] : i \in DOMAIN p.undo} : p \in MCPayloads}
MCMaxFileSize == [block |-> 5, undo |-> 5]
=============================================================================
