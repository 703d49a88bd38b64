----------------------------- MODULE BlockIntake -----------------------------
(***************************************************************************)
(* BlockChain.HandleBlock with several callers.  Only ForwardBlock holds   *)
(* the node's mutex; Bootstrap and the event loop (HandleMinerBlock) call  *)
(* without it, so that up to three calls are under way.  A call is cut     *)
(* where what it has read or written can meet another one: it reads        *)
(* LastHash and validates, makes and stores the record, and then appends,  *)
(* forks or leaves the chain alone, going by what it read at first.  Each  *)
(* of these is one step.                                                   *)
(***************************************************************************)
EXTENDS BlockChain

CONSTANT Callers        \* "forward", which holds the mutex, and others that do not

VARIABLE intake         \* the HandleBlock of each caller: hash, appends and height
intakeVars == <<vars, intake>>

Away == [pc |-> "away"]

IntakeInit == Init /\ intake = [c \in Callers |-> Away]

\* HandleBlock begins: appends is read once and for all.
Begin(c, h) ==
    /\ intake[c] = Away
    /\ Deliver
    /\ intake' = [intake EXCEPT ![c] =
         IF appendsToActiveChain(h) /\ ~ValidateBlock(CoinDB, Transactions[h]) THEN Away
         ELSE [pc |-> "begun", hash |-> h, appends |-> appendsToActiveChain(h), height |-> 0]]
    /\ UNCHANGED <<chainVars, early, loose>>

ForwardBegins(h) ==
    /\ "forward" \in Callers /\ h \in Forwarded
    /\ SeenBlocks[h] < 2 /\ CheckBlock(h)
    /\ SeenBlocks' = [SeenBlocks EXCEPT ![h] = @ + 1]
    /\ Begin("forward", h)

ForwardIgnores(h) ==
    /\ "forward" \in Callers /\ intake["forward"] = Away
    /\ IgnoreBlock(h)
    /\ UNCHANGED intake

UncheckedBegins(c, h) ==
    /\ c # "forward" /\ h \in Unchecked
    /\ SeenBlocks' = [SeenBlocks EXCEPT ![h] = 1]
    /\ Begin(c, h)

\* The undo block and the height are made from coins and records of now.
StoreBlockRecord(c) ==
    /\ intake[c].pc = "begun" /\ ~crashed
    /\ BlockInfoDB' = StoreRecord(intake[c].hash)
    /\ intake' = [intake EXCEPT ![c].pc = "stored", ![c].height = HeightOf(intake[c].hash)]
    /\ NoteEarly(intake[c].hash)
    /\ UNCHANGED <<Length, LastHash, UnsafeHashes, CoinDB, crashed, SeenBlocks, loose, deliveries>>

StoredOrNot(c) == intake[c].pc \in {"begun", "stored"} /\ ~crashed  \* mutant: the record comes last
Stored(c) == intake[c].pc = "stored" /\ ~crashed

Return(c) ==
    /\ intake' = [intake EXCEPT ![c] = Away]
    /\ UNCHANGED <<SeenBlocks, early, loose, deliveries>>

\* Whatever became of LastHash meanwhile.
AppendStored(c) ==
    LET h == intake[c].hash
    IN /\ Stored(c) /\ intake[c].appends
       /\ CoinDB' = StoreBlock(CoinDB, Transactions[h])
       /\ Length' = Length + 1
       /\ LastHash' = h
       /\ UnsafeHashes' = AppendUnsafe(h)
       /\ Return(c)
       /\ UNCHANGED <<BlockInfoDB, crashed>>

\* Not higher, or too far from the active chain.
LeaveChain(c) ==
    /\ Stored(c) /\ ~intake[c].appends
    /\ intake[c].height <= Length \/ getForkLength(BlockInfoDB, intake[c].hash) < 0
    /\ Return(c)
    /\ UNCHANGED chainVars

\* handleFork of module BlockChain, which finds the record there.
ForkStored(c) ==
    LET h == intake[c].hash
        n == getForkLength(BlockInfoDB, h)
        blocks == getBlocks(BlockInfoDB, n)
        undoBlocks == [i \in 1..n |-> GetBlockRecord(BlockInfoDB, blocks[i]).Undo]
        read == \A i \in 1..n : undoBlocks[i] # <<>>
    IN /\ Stored(c) /\ ~intake[c].appends
       /\ intake[c].height > Length /\ n >= 0
       /\ \/ /\ read
             /\ UnsafeHashes' = TrimmedUnsafe(n, Back(BlockInfoDB, h, n)) \o Reverse(blocks)
             /\ CoinDB' = FoldLeft(StoreAgain, UndoCoins(CoinDB, blocks, undoBlocks), blocks)
             /\ LastHash' = h
             /\ Length' = intake[c].height
             /\ UNCHANGED <<BlockInfoDB, crashed>>
          \/ /\ ~read
             /\ crashed' = TRUE
             /\ UNCHANGED <<Length, LastHash, UnsafeHashes, BlockInfoDB, CoinDB>>
       /\ Return(c)

IntakeNext ==
    \/ \E h \in Hashes :
         ForwardBegins(h) \/ ForwardIgnores(h) \/ \E c \in Callers : UncheckedBegins(c, h)
    \/ \E c \in Callers : StoreBlockRecord(c) \/ AppendStored(c) \/ LeaveChain(c) \/ ForkStored(c)

IntakeSpec == IntakeInit /\ [][IntakeNext]_intakeVars

-----------------------------------------------------------------------------
(* Properties                                                              *)

\* Every block of the active chain has its record at every moment, however the
\* calls overlap: GetBlocks and GetData, which take no lock, can walk back from
\* LastHash to the genesis block (the order of steps 6 to 8 in HandleBlock).
AncestorsRecorded == ToSet(ActiveChain) \subseteq DOMAIN BlockInfoDB

\* "Length is the length of the active chain" (fails when two calls append at
\* the same place).
LengthOfActiveChain ==
    (\A c \in Callers : intake[c] = Away) /\ Rooted(LastHash) => Length = Len(ActiveChain)
=============================================================================
