----------------------------- MODULE ChainWriter -----------------------------
(***************************************************************************)
(* Storing blocks and undo blocks in files (pkg/blockchain/chainwriter).   *)
(*                                                                         *)
(* A file is appended to until the next piece of data would reach the      *)
(* maximum size; then the next file number is used.  What StoreBlock       *)
(* returns says where the bytes are and is kept in the block info          *)
(* database.                                                               *)
(*                                                                         *)
(* Nothing in ChainWriter is locked.  ForwardBlock holds the node's mutex, *)
(* but the node's loop (HandleMinerBlock) and Bootstrap store blocks       *)
(* without it, so each of them is a writer of its own.  WriteBlock and     *)
(* WriteUndoBlock are the same code on different fields, indexed by kind   *)
(* here, cut where the code looks at or changes the shared fields or the   *)
(* file.  Lengths stay far below 2^32 and are not reduced.                 *)
(*                                                                         *)
(* overlapped and alone are history variables: no action looks at them.    *)
(***************************************************************************)
EXTENDS Integers, Sequences

CONSTANTS
    Writers,        \* goroutines that call StoreBlock
    Byte,           \* contents of a file
    Payloads,       \* what is stored: [block, undo], serialized; undo may be <<>>
    MaxFileSize,    \* kind -> MaxBlockFileSize, MaxUndoFileSize
    MaxStores       \* bound: calls of StoreBlock

Kinds == {"block", "undo"}

ASSUME PayloadsAssumption == Payloads \subseteq [block : Seq(Byte), undo : Seq(Byte)]
ASSUME SizesAssumption == MaxFileSize \in [Kinds -> Nat] /\ MaxStores \in Nat

VARIABLES
    files,                  \* file name -> what was written to it
    CurrentFileNumber,      \* kind -> the fields of the ChainWriter
    CurrentOffset,
    job,                    \* writer -> where it is in StoreBlock
    stored,                 \* what was stored, with its BlockRecord
    stores,                 \* for the bound
    overlapped,             \* history: two calls of StoreBlock were under way at once
    alone                   \* history: what was stored before that

vars == <<files, CurrentFileNumber, CurrentOffset, job, stored, stores, overlapped, alone>>

\* A file is named by its kind and number.
FileName == Kinds \X Nat
NoName == <<"none", 0>>

FileInfo == [FileName : FileName \cup {NoName}, StartOffset : Nat, EndOffset : Nat]
NoInfo == [FileName |-> NoName, StartOffset |-> 0, EndOffset |-> 0]

Content(name) == IF name \in DOMAIN files THEN files[name] ELSE <<>>

\* Opening the file for appending creates it.
writeToDisk(name, data) ==
    files' = [f \in DOMAIN files \cup {name} |-> IF f = name THEN Content(f) \o data ELSE files[f]]

\* readFromDisk(info) yields data: the file has that many bytes there.
readsFromDisk(info, data) ==
    /\ info.FileName \in DOMAIN files
    /\ info.EndOffset <= Len(files[info.FileName])
    /\ SubSeq(files[info.FileName], info.StartOffset + 1, info.EndOffset) = data

Data(w) == IF job[w].kind = "block" THEN job[w].payload.block ELSE job[w].payload.undo

-----------------------------------------------------------------------------
Idle == [pc |-> "idle"]
Jobs ==
    [pc : {"roll"}, kind : Kinds, payload : Payloads, name : FileName \cup {NoName},
     blockInfo : FileInfo]
    \cup [pc : {"write", "info"}, kind : Kinds, payload : Payloads, name : FileName,
          blockInfo : FileInfo]

Init ==
    /\ files = <<>>
    /\ CurrentFileNumber = [k \in Kinds |-> 0]
    /\ CurrentOffset = [k \in Kinds |-> 0]
    /\ job = [w \in Writers |-> Idle]
    /\ stored = {}
    /\ stores = 0
    /\ overlapped = FALSE
    /\ alone = {}

\* StoreBlock is called: the block comes first.
StoreBlock(w) ==
    /\ job[w] = Idle
    /\ stores < MaxStores
    /\ stores' = stores + 1
    /\ \E p \in Payloads :
         job' = [job EXCEPT ![w] = [pc |-> "roll", kind |-> "block", payload |-> p,
                                    name |-> NoName, blockInfo |-> NoInfo]]
    /\ overlapped' = (overlapped \/ \E v \in Writers : v # w /\ job[v] # Idle)
    /\ UNCHANGED <<files, CurrentFileNumber, CurrentOffset, stored, alone>>

\* There is no room left in the current file.
NoRoomLate(k, length) == CurrentOffset[k] >= MaxFileSize[k]     \* mutant: length is forgotten
NoRoom(k, length) == CurrentOffset[k] + length >= MaxFileSize[k]

\* WriteBlock up to the file's name.
RollOverKeepOffset(w) ==             \* mutant: the offset is not reset
    LET k == job[w].kind
        number == CurrentFileNumber[k] + (IF NoRoom(k, Len(Data(w))) THEN 1 ELSE 0)
    IN /\ job[w].pc = "roll"
       /\ CurrentFileNumber' = [CurrentFileNumber EXCEPT ![k] = number]
       /\ job' = [job EXCEPT ![w].pc = "write", ![w].name = <<k, number>>]
       /\ UNCHANGED <<files, CurrentOffset, stored, stores, overlapped, alone>>
RollOver(w) ==
    LET k == job[w].kind
        roll == NoRoom(k, Len(Data(w)))
        number == IF roll THEN CurrentFileNumber[k] + 1 ELSE CurrentFileNumber[k]
    IN /\ job[w].pc = "roll"
       /\ CurrentFileNumber' = [CurrentFileNumber EXCEPT ![k] = number]
       /\ CurrentOffset' = [CurrentOffset EXCEPT ![k] = IF roll THEN 0 ELSE @]
       /\ job' = [job EXCEPT ![w].pc = "write", ![w].name = <<k, number>>]
       /\ UNCHANGED <<files, stored, stores, overlapped, alone>>

Write(w) ==
    /\ job[w].pc = "write"
    /\ writeToDisk(job[w].name, Data(w))
    /\ job' = [job EXCEPT ![w].pc = "info"]
    /\ UNCHANGED <<CurrentFileNumber, CurrentOffset, stored, stores, overlapped, alone>>

\* The FileInfo that the write ends with.
NewInfoBackwards(w) ==               \* mutant: as if the offset were advanced already
    LET end == CurrentOffset[job[w].kind]
    IN [FileName |-> job[w].name, StartOffset |-> end - Len(Data(w)), EndOffset |-> end]
NewInfoCurrent(w) ==                 \* mutant: the file is looked up again after the write
    LET k == job[w].kind
        start == CurrentOffset[k]
    IN [FileName |-> <<k, CurrentFileNumber[k]>>, StartOffset |-> start,
        EndOffset |-> start + Len(Data(w))]
NewInfo(w) ==
    LET start == CurrentOffset[job[w].kind]
    IN [FileName |-> job[w].name, StartOffset |-> start, EndOffset |-> start + Len(Data(w))]

\* WriteBlock after the write, and StoreBlock after WriteBlock: an undo block
\* that is not empty is written next, otherwise the record is complete.
WriteUndoNext(w) ==
    /\ job[w].pc = "info" /\ job[w].kind = "block" /\ job[w].payload.undo # <<>>
    /\ CurrentOffset' = [CurrentOffset EXCEPT ![job[w].kind] = @ + Len(Data(w))]
    /\ job' = [job EXCEPT ![w].pc = "roll", ![w].kind = "undo", ![w].blockInfo = NewInfo(w)]
    /\ UNCHANGED <<files, CurrentFileNumber, stored, stores, overlapped, alone>>

Stored ==
    [payload : Payloads, blockInfo : FileInfo, undoInfo : FileInfo]

\* The record that StoreBlock returns.
Record(w) ==
    IF job[w].kind = "undo"
    THEN [payload |-> job[w].payload, blockInfo |-> job[w].blockInfo, undoInfo |-> NewInfo(w)]
    ELSE [payload |-> job[w].payload, blockInfo |-> NewInfo(w), undoInfo |-> NoInfo]

StoreRecord(w) ==
    /\ job[w].pc = "info" /\ (job[w].kind = "undo" \/ job[w].payload.undo = <<>>)
    /\ CurrentOffset' = [CurrentOffset EXCEPT ![job[w].kind] = @ + Len(Data(w))]
    /\ stored' = stored \cup {Record(w)}
    /\ alone' = IF overlapped THEN alone ELSE alone \cup {Record(w)}
    /\ job' = [job EXCEPT ![w] = Idle]
    /\ UNCHANGED <<files, CurrentFileNumber, stores, overlapped>>

Next ==
    \E w \in Writers :
        StoreBlock(w) \/ RollOver(w) \/ Write(w) \/ WriteUndoNext(w) \/ StoreRecord(w)

Spec == Init /\ [][Next]_vars

-----------------------------------------------------------------------------
(* Properties                                                              *)

TypeOK ==
    /\ DOMAIN files \subseteq FileName
    /\ files \in [DOMAIN files -> Seq(Byte)]
    /\ CurrentFileNumber \in [Kinds -> Nat]
    /\ CurrentOffset \in [Kinds -> Nat]
    /\ job \in [Writers -> {Idle} \cup Jobs]
    /\ stored \subseteq Stored
    /\ stores \in Nat
    /\ overlapped \in BOOLEAN
    /\ alone \subseteq stored

\* ReadBlock and ReadUndoBlock return what StoreBlock was given for r.
ReadableAt(r) ==
    /\ readsFromDisk(r.blockInfo, r.payload.block)
    /\ r.payload.undo # <<>> => readsFromDisk(r.undoInfo, r.payload.undo)

\* What StoreBlock was given can be read back where its record says, however
\* many blocks were stored since, wherever the files rolled over and however
\* later calls overlap, if its own call and those before it came one at a time.
ReadsBack == \A r \in alone : ReadableAt(r)

\* StoreBlock stores a block and returns the record "for later retrieval",
\* whoever else is storing a block (fails: nothing locks the offsets between
\* the write and the record).
Readable == \A r \in stored : ReadableAt(r)

\* The file holds data in one piece, somewhere.
Holds(name, data) ==
    /\ name \in DOMAIN files
    /\ \E i \in 0..Len(files[name]) :
         /\ i + Len(data) <= Len(files[name])
         /\ SubSeq(files[name], i + 1, i + Len(data)) = data

\* Overlapping calls may get the offsets wrong, never the bytes: every block
\* and undo block is whole in the file that its record names.
DataKept ==
    \A r \in stored :
        /\ Holds(r.blockInfo.FileName, r.payload.block)
        /\ r.payload.undo # <<>> => Holds(r.undoInfo.FileName, r.payload.undo)

\* While calls come one at a time, a file stays below the maximum size unless
\* one write alone reaches it: the file then holds nothing else.
FilesWithinLimit ==
    ~overlapped =>
        \A name \in DOMAIN files :
            \/ Len(files[name]) < MaxFileSize[name[1]]
            \/ \E p \in Payloads : files[name] \in {p.block, p.undo}
=============================================================================
