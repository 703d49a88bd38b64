-------------------------- MODULE ChainWriterProofs --------------------------
(***************************************************************************)
(* What StoreBlock wrote can be read back, for any writers, payloads,      *)
(* limits and number of stores.  The inductive invariant has a part for    *)
(* all times (files only grow, so what was readable or whole stays so) and *)
(* a part for the time before two calls overlapped: at most one writer has *)
(* a job, the current offset is the current file's length (except between  *)
(* a write and the update of the offset), no file beyond the current one   *)
(* exists, and a writer in the middle of its job has the bytes it just     *)
(* wrote at the end of the current file.                                   *)
(***************************************************************************)
EXTENDS ChainWriter, TLAPS

CurrentName(k) == <<k, CurrentFileNumber[k]>>

\* Files beyond the current one were never opened.
NumberInv ==
    \A k \in Kinds : \A n \in Nat : n > CurrentFileNumber[k] => <<k, n>> \notin DOMAIN files

\* w has written to a file of kind k and not yet moved the offset.
Wrote(w, k) == job[w].pc = "info" /\ job[w].kind = k

OffsetInv ==
    \A k \in Kinds :
        (\A w \in Writers : ~Wrote(w, k)) => Len(Content(CurrentName(k))) = CurrentOffset[k]

JobInv ==
    \A w \in Writers :
        /\ job[w].pc \in {"write", "info"} => job[w].name = CurrentName(job[w].kind)
        /\ job[w].pc = "write" => \/ ~NoRoom(job[w].kind, Len(Data(w)))
                                  \/ CurrentOffset[job[w].kind] = 0
        /\ job[w].pc = "info" =>
              /\ Len(Content(job[w].name)) = CurrentOffset[job[w].kind] + Len(Data(w))
              /\ readsFromDisk(NewInfo(w), Data(w))
        /\ (job[w].pc # "idle" /\ job[w].kind = "undo") =>
              readsFromDisk(job[w].blockInfo, job[w].payload.block)

\* No two writers have a job.
OneAtATime == \A v, w \in Writers : v # w => job[v].pc = "idle" \/ job[w].pc = "idle"

\* Before two calls overlapped.
QuietInv == ~overlapped => OneAtATime /\ NumberInv /\ OffsetInv /\ JobInv

\* At all times: what a writer has written so far is whole in its file.
WrittenInv ==
    \A w \in Writers :
        /\ job[w].pc = "info" => Holds(job[w].name, Data(w))
        /\ (job[w].pc # "idle" /\ job[w].kind = "undo") =>
              Holds(job[w].blockInfo.FileName, job[w].payload.block)

IInv == TypeOK /\ QuietInv /\ WrittenInv /\ ReadsBack /\ DataKept /\ FilesWithinLimit

-----------------------------------------------------------------------------
(* Sequences *)

\* Appending to a sequence leaves its parts alone.
LEMMA SubSeqOfFirst ==
    ASSUME NEW S, NEW s \in Seq(S), NEW t \in Seq(S),
           NEW a \in Nat, NEW b \in Nat, b <= Len(s)
    PROVE  SubSeq(s \o t, a + 1, b) = SubSeq(s, a + 1, b)
OBVIOUS

\* What was appended is the last part.
LEMMA SubSeqOfSecond ==
    ASSUME NEW S, NEW s \in Seq(S), NEW t \in Seq(S)
    PROVE  SubSeq(s \o t, Len(s) + 1, Len(s) + Len(t)) = t
OBVIOUS

LEMMA LenOfConcat ==
    ASSUME NEW S, NEW s \in Seq(S), NEW t \in Seq(S)
    PROVE  Len(s \o t) = Len(s) + Len(t)
OBVIOUS

-----------------------------------------------------------------------------
(* Types *)

\* A writer that is not idle has a job, and its data are bytes.
LEMMA JobType ==
    ASSUME TypeOK, NEW w \in Writers, job[w].pc # "idle"
    PROVE  job[w] \in Jobs /\ Data(w) \in Seq(Byte) /\ Len(Data(w)) \in Nat
<1>1. job[w] \in Jobs
  BY DEF TypeOK, Idle
<1>2. job[w].payload \in [block : Seq(Byte), undo : Seq(Byte)]
  BY <1>1, PayloadsAssumption DEF Jobs
<1> QED
  BY <1>1, <1>2 DEF Data

LEMMA ContentType ==
    ASSUME TypeOK, NEW name
    PROVE  Content(name) \in Seq(Byte) /\ Len(Content(name)) \in Nat
BY DEF TypeOK, Content

\* The initial state has the types.
LEMMA InitTypes == Init => TypeOK
<1> SUFFICES ASSUME Init PROVE TypeOK
  OBVIOUS
<1>1. /\ DOMAIN files = {} /\ files \in [{} -> Seq(Byte)] /\ stores \in Nat
      /\ CurrentFileNumber \in [Kinds -> Nat] /\ CurrentOffset \in [Kinds -> Nat]
  BY DEF Init
<1>2. overlapped \in BOOLEAN /\ stored = {} /\ alone = {}
  BY DEF Init
<1>3. job \in [Writers -> {Idle} \cup Jobs]
  BY DEF Init
<1> QED
  BY <1>1, <1>2, <1>3 DEF TypeOK

\* Each step keeps the types.
LEMMA NextTypes == TypeOK /\ [Next]_vars => TypeOK'
<1> SUFFICES ASSUME TypeOK, [Next]_vars PROVE TypeOK'
  OBVIOUS
<1>1. CASE UNCHANGED vars
  BY <1>1 DEF TypeOK, vars
<1>2. ASSUME NEW w \in Writers, StoreBlock(w) PROVE TypeOK'
  <2>1. PICK p \in Payloads :
          job' = [job EXCEPT ![w] = [pc |-> "roll", kind |-> "block", payload |-> p,
                                     name |-> NoName, blockInfo |-> NoInfo]]
    BY <1>2 DEF StoreBlock
  <2>2. [pc |-> "roll", kind |-> "block", payload |-> p, name |-> NoName,
         blockInfo |-> NoInfo] \in Jobs
    BY DEF Jobs, Kinds, NoInfo, FileInfo
  <2> QED
    BY <1>2, <2>1, <2>2 DEF StoreBlock, TypeOK
<1>3. ASSUME NEW w \in Writers, RollOver(w) PROVE TypeOK'
  <2>1. job[w] \in Jobs /\ Len(Data(w)) \in Nat
    BY <1>3, JobType DEF RollOver
  <2> DEFINE k == job[w].kind
             number == IF NoRoom(k, Len(Data(w))) THEN CurrentFileNumber[k] + 1 ELSE CurrentFileNumber[k]
  <2>2. k \in Kinds /\ number \in Nat
    BY <2>1 DEF Jobs, TypeOK
  <2>3. CurrentFileNumber' \in [Kinds -> Nat] /\ CurrentOffset' \in [Kinds -> Nat]
    BY <1>3, <2>2 DEF RollOver, TypeOK
  <2>4. job' = [job EXCEPT ![w].pc = "write", ![w].name = <<k, number>>]
    BY <1>3 DEF RollOver
  <2>5. job'[w] \in Jobs
    BY <2>1, <2>2, <2>4 DEF Jobs, FileName, TypeOK
  <2>6. job' \in [Writers -> {Idle} \cup Jobs]
    BY <2>4, <2>5 DEF TypeOK
  <2> QED
    BY <1>3, <2>3, <2>6 DEF RollOver, TypeOK
<1>4. ASSUME NEW w \in Writers, Write(w) PROVE TypeOK'
  <2>1. job[w] \in Jobs /\ Data(w) \in Seq(Byte) /\ Content(job[w].name) \in Seq(Byte)
    BY <1>4, JobType, ContentType DEF Write
  <2>2. job[w].name \in FileName
    BY <1>4, <2>1 DEF Write, Jobs
  <2>3. Content(job[w].name) \o Data(w) \in Seq(Byte)
    BY <2>1
  <2>4. DOMAIN files' \subseteq FileName /\ files' \in [DOMAIN files' -> Seq(Byte)]
    BY <1>4, <2>2, <2>3 DEF Write, writeToDisk, TypeOK
  <2>5. job'[w] \in Jobs
    BY <1>4, <2>1, <2>2 DEF Write, Jobs, TypeOK
  <2>6. job' \in [Writers -> {Idle} \cup Jobs]
    BY <1>4, <2>5 DEF Write, TypeOK
  <2> QED
    BY <1>4, <2>4, <2>6 DEF Write, TypeOK
<1>5. ASSUME NEW w \in Writers, job[w].pc = "info"
      PROVE  /\ job[w] \in Jobs
             /\ NewInfo(w) \in FileInfo
             /\ [CurrentOffset EXCEPT ![job[w].kind] = @ + Len(Data(w))] \in [Kinds -> Nat]
  <2>1. job[w] \in Jobs /\ Len(Data(w)) \in Nat
    BY <1>5, JobType
  <2>2. job[w].name \in FileName /\ job[w].kind \in Kinds
    BY <1>5, <2>1 DEF Jobs
  <2> QED
    BY <2>1, <2>2 DEF NewInfo, FileInfo, TypeOK
<1>6. ASSUME NEW w \in Writers, WriteUndoNext(w) PROVE TypeOK'
  <2>1. job[w].pc = "info"
    BY <1>6 DEF WriteUndoNext
  <2>2. job' = [job EXCEPT ![w].pc = "roll", ![w].kind = "undo", ![w].blockInfo = NewInfo(w)]
    BY <1>6 DEF WriteUndoNext
  <2>3. job'[w] \in Jobs
    BY <1>5, <2>1, <2>2 DEF Jobs, Kinds, TypeOK
  <2>4. job' \in [Writers -> {Idle} \cup Jobs]
    BY <2>2, <2>3 DEF TypeOK
  <2> QED
    BY <1>5, <1>6, <2>1, <2>4 DEF WriteUndoNext, TypeOK
<1>7. ASSUME NEW w \in Writers, StoreRecord(w) PROVE TypeOK'
  <2>1. job[w].pc = "info"
    BY <1>7 DEF StoreRecord
  <2>2. job[w].payload \in Payloads /\ job[w].blockInfo \in FileInfo /\ NoInfo \in FileInfo
    BY <1>5, <2>1 DEF Jobs, NoInfo, FileInfo
  <2>3. stored' \subseteq Stored /\ alone' \subseteq stored'
    BY <1>5, <1>7, <2>1, <2>2 DEF StoreRecord, Record, Stored, TypeOK
  <2> QED
    BY <1>5, <1>7, <2>1, <2>3 DEF StoreRecord, TypeOK
<1> QED
  BY <1>1, <1>2, <1>3, <1>4, <1>6, <1>7 DEF Next

-----------------------------------------------------------------------------
(* Reading *)

\* What could be read can still be read after another write.
LEMMA ReadsKept ==
    ASSUME TypeOK, NEW w \in Writers, Write(w),
           NEW info \in FileInfo, NEW data, readsFromDisk(info, data)
    PROVE  readsFromDisk(info, data)'
<1> DEFINE f == info.FileName
<1>1. Data(w) \in Seq(Byte)
  BY JobType DEF Write
<1>2. /\ f \in DOMAIN files /\ files[f] \in Seq(Byte)
      /\ info.StartOffset \in Nat /\ info.EndOffset \in Nat
      /\ info.EndOffset <= Len(files[f])
      /\ SubSeq(files[f], info.StartOffset + 1, info.EndOffset) = data
  BY DEF readsFromDisk, FileInfo, TypeOK
<1>3. f \in DOMAIN files'
  BY <1>2 DEF Write, writeToDisk
<1>4. CASE f = job[w].name
  <2>1. files'[f] = files[f] \o Data(w)
    BY <1>2, <1>4 DEF Write, writeToDisk, Content
  <2>2. SubSeq(files[f] \o Data(w), info.StartOffset + 1, info.EndOffset) = data
    BY <1>1, <1>2, SubSeqOfFirst
  <2>3. info.EndOffset <= Len(files[f] \o Data(w))
    BY <1>1, <1>2
  <2> QED
    BY <1>3, <2>1, <2>2, <2>3 DEF readsFromDisk
<1>5. CASE f # job[w].name
  BY <1>2, <1>3, <1>5 DEF Write, writeToDisk, readsFromDisk
<1> QED
  BY <1>4, <1>5

-----------------------------------------------------------------------------
(* The steps of the only writer with a job *)

\* Before two calls overlapped, the writer of a step is the only one with a
\* job, in the state before it and in the state after it.
LEMMA OthersIdle ==
    ASSUME IInv, ~overlapped, NEW w \in Writers, job[w].pc # "idle",
           \A v \in Writers : v # w => job'[v] = job[v]
    PROVE  /\ \A v \in Writers : v # w => job[v].pc = "idle" /\ job'[v].pc = "idle"
           /\ OneAtATime'
           /\ TypeOK /\ NumberInv /\ OffsetInv /\ JobInv /\ FilesWithinLimit
<1>1. OneAtATime /\ TypeOK /\ NumberInv /\ OffsetInv /\ JobInv /\ FilesWithinLimit
  BY DEF IInv, QuietInv
<1>2. \A v \in Writers : v # w => job[v].pc = "idle" /\ job'[v].pc = "idle"
  BY <1>1 DEF OneAtATime
<1>3. OneAtATime'
  BY <1>2 DEF OneAtATime
<1> QED
  BY <1>1, <1>2, <1>3

LEMMA InitInv == Init => IInv
<1> SUFFICES ASSUME Init PROVE IInv
  OBVIOUS
<1>1. TypeOK
  BY InitTypes
<1>2. \A w \in Writers : job[w].pc = "idle"
  BY DEF Init, Idle
<1>3. DOMAIN files = {} /\ stored = {} /\ alone = {}
  BY DEF Init
<1>4. \A name : Len(Content(name)) = 0
  BY <1>3 DEF Content
<1>5. NumberInv /\ OffsetInv
  BY <1>3, <1>4 DEF Init, NumberInv, OffsetInv
<1>6. JobInv /\ OneAtATime /\ WrittenInv
  BY <1>2 DEF JobInv, OneAtATime, WrittenInv
<1>7. ReadsBack /\ DataKept /\ FilesWithinLimit
  BY <1>3 DEF ReadsBack, DataKept, FilesWithinLimit
<1> QED
  BY <1>1, <1>5, <1>6, <1>7 DEF IInv, QuietInv

LEMMA StoreBlockInv ==
    ASSUME IInv, ~overlapped', NEW w \in Writers, StoreBlock(w)
    PROVE  OneAtATime' /\ NumberInv' /\ OffsetInv' /\ JobInv' /\ FilesWithinLimit'
<1>1. /\ ~overlapped
      /\ \A v \in Writers : v # w => job[v].pc = "idle" /\ job'[v].pc = "idle"
  <2>1. ~overlapped /\ \A v \in Writers : v # w => job[v] = Idle
    BY DEF StoreBlock
  <2>2. \A v \in Writers : v # w => job'[v] = job[v]
    BY DEF StoreBlock, IInv, TypeOK
  <2> QED
    BY <2>1, <2>2 DEF Idle
<1>2. /\ job[w].pc = "idle" /\ job'[w].pc = "roll" /\ job'[w].kind = "block"
      /\ UNCHANGED <<files, CurrentFileNumber, CurrentOffset, stored>>
  BY DEF StoreBlock, Idle, IInv, TypeOK
<1>3. NumberInv /\ OffsetInv /\ FilesWithinLimit
  BY <1>1 DEF IInv, QuietInv
<1>4. NumberInv'
  BY <1>2, <1>3 DEF NumberInv
<1>5. OffsetInv'
  BY <1>1, <1>2, <1>3 DEF OffsetInv, Wrote, Content, CurrentName
<1>6. JobInv' /\ OneAtATime'
  BY <1>1, <1>2 DEF JobInv, OneAtATime
<1>7. FilesWithinLimit'
  BY <1>1, <1>2, <1>3 DEF FilesWithinLimit
<1> QED
  BY <1>4, <1>5, <1>6, <1>7

LEMMA RollOverInv ==
    ASSUME IInv, ~overlapped', NEW w \in Writers, RollOver(w)
    PROVE  OneAtATime' /\ NumberInv' /\ OffsetInv' /\ JobInv' /\ FilesWithinLimit'
<1> DEFINE k == job[w].kind
           roll == NoRoom(k, Len(Data(w)))
           number == IF roll THEN CurrentFileNumber[k] + 1 ELSE CurrentFileNumber[k]
<1>1. /\ \A v \in Writers : v # w => job[v].pc = "idle" /\ job'[v].pc = "idle"
      /\ OneAtATime' /\ ~overlapped
      /\ TypeOK /\ NumberInv /\ OffsetInv /\ JobInv /\ FilesWithinLimit
  <2>1. job[w].pc # "idle" /\ ~overlapped
    BY DEF RollOver
  <2>2. \A v \in Writers : v # w => job'[v] = job[v]
    BY DEF RollOver, IInv, TypeOK
  <2> QED
    BY <2>1, <2>2, OthersIdle
<1>2. /\ job[w].pc = "roll" /\ job[w] \in Jobs /\ k \in Kinds
      /\ CurrentFileNumber \in [Kinds -> Nat] /\ CurrentOffset \in [Kinds -> Nat]
  BY <1>1, JobType DEF RollOver, TypeOK, Jobs
<1>3. /\ CurrentFileNumber' = [CurrentFileNumber EXCEPT ![k] = number]
      /\ CurrentOffset' = [CurrentOffset EXCEPT ![k] = IF roll THEN 0 ELSE @]
      /\ UNCHANGED <<files, stored>>
  BY DEF RollOver
<1>4. /\ job'[w].pc = "write" /\ job'[w].kind = k /\ job'[w].name = <<k, number>>
      /\ job'[w].payload = job[w].payload /\ job'[w].blockInfo = job[w].blockInfo
  BY <1>1, <1>2 DEF RollOver, TypeOK, Jobs
<1>5. NumberInv'
  BY <1>1, <1>2, <1>3 DEF NumberInv
<1>6. \A j \in Kinds : Len(Content(CurrentName(j))) = CurrentOffset[j]
  BY <1>1, <1>2 DEF OffsetInv, Wrote
<1>7. OffsetInv'
  <2> SUFFICES ASSUME NEW j \in Kinds
               PROVE  Len(Content(CurrentName(j)))' = CurrentOffset'[j]
    BY DEF OffsetInv
  <2>1. CASE j = k /\ roll
    <3>1. <<k, CurrentFileNumber[k] + 1>> \notin DOMAIN files
      BY <1>1, <1>2 DEF NumberInv
    <3> QED
      BY <1>2, <1>3, <2>1, <3>1 DEF Content, CurrentName
  <2>2. CASE ~(j = k /\ roll)
    BY <1>2, <1>3, <1>6, <2>2 DEF Content, CurrentName
  <2> QED
    BY <2>1, <2>2
<1>8. JobInv'
  <2>1. Data(w)' = Data(w)
    BY <1>4 DEF Data
  <2>2. job'[w].name = CurrentName(job[w].kind)'
    BY <1>2, <1>3, <1>4 DEF CurrentName
  <2>3. ~NoRoom(k, Len(Data(w)))' \/ CurrentOffset'[k] = 0
    BY <1>2, <1>3, <1>4, <2>1 DEF NoRoom
  <2>4. k = "undo" => readsFromDisk(job[w].blockInfo, job[w].payload.block)'
    BY <1>1, <1>2, <1>3, <1>4 DEF JobInv, readsFromDisk
  <2> QED
    BY <1>1, <1>4, <2>1, <2>2, <2>3, <2>4 DEF JobInv, NoRoom, readsFromDisk
<1>9. FilesWithinLimit'
  BY <1>1, <1>3 DEF FilesWithinLimit
<1> QED
  BY <1>1, <1>5, <1>7, <1>8, <1>9

LEMMA WriteInv ==
    ASSUME IInv, ~overlapped', NEW w \in Writers, Write(w)
    PROVE  OneAtATime' /\ NumberInv' /\ OffsetInv' /\ JobInv' /\ FilesWithinLimit'
<1> DEFINE k == job[w].kind
           old == Content(job[w].name)
           data == Data(w)
<1>1. /\ \A v \in Writers : v # w => job[v].pc = "idle" /\ job'[v].pc = "idle"
      /\ OneAtATime' /\ ~overlapped
      /\ TypeOK /\ NumberInv /\ OffsetInv /\ JobInv /\ FilesWithinLimit
  <2>1. job[w].pc # "idle" /\ ~overlapped
    BY DEF Write
  <2>2. \A v \in Writers : v # w => job'[v] = job[v]
    BY DEF Write, IInv, TypeOK
  <2> QED
    BY <2>1, <2>2, OthersIdle
<1>2. /\ job[w].pc = "write" /\ job[w] \in Jobs /\ k \in Kinds
      /\ data \in Seq(Byte) /\ Len(data) \in Nat /\ old \in Seq(Byte)
      /\ CurrentFileNumber \in [Kinds -> Nat] /\ CurrentOffset \in [Kinds -> Nat]
  BY <1>1, JobType, ContentType DEF Write, TypeOK, Jobs
<1>3. job[w].name = CurrentName(k) /\ job[w].name = <<k, CurrentFileNumber[k]>>
  BY <1>1, <1>2 DEF JobInv, CurrentName
<1>4. Len(old) = CurrentOffset[k]
  BY <1>1, <1>2, <1>3 DEF OffsetInv, Wrote
<1>5. /\ DOMAIN files' = DOMAIN files \cup {job[w].name}
      /\ files'[job[w].name] = old \o data
      /\ \A f \in DOMAIN files : f # job[w].name => files'[f] = files[f]
      /\ UNCHANGED <<CurrentFileNumber, CurrentOffset, stored>>
  BY DEF Write, writeToDisk
<1>6. /\ job'[w].pc = "info" /\ job'[w].kind = k /\ job'[w].name = job[w].name
      /\ job'[w].payload = job[w].payload /\ job'[w].blockInfo = job[w].blockInfo
  BY <1>1, <1>2 DEF Write, TypeOK, Jobs
<1>7. NumberInv'
  BY <1>1, <1>2, <1>3, <1>5 DEF NumberInv
<1>8. OffsetInv'
  <2> SUFFICES ASSUME NEW j \in Kinds, j # k
               PROVE  Len(Content(CurrentName(j)))' = CurrentOffset'[j]
    BY <1>6 DEF OffsetInv, Wrote
  <2>1. Len(Content(CurrentName(j))) = CurrentOffset[j]
    BY <1>1, <1>2 DEF OffsetInv, Wrote
  <2>2. CurrentName(j)' = CurrentName(j) /\ CurrentName(j) # job[w].name
    BY <1>3, <1>5 DEF CurrentName
  <2>3. Content(CurrentName(j))' = Content(CurrentName(j))
    BY <1>5, <2>2 DEF Content
  <2> QED
    BY <1>5, <2>1, <2>3
<1>9. JobInv'
  <2>1. Data(w)' = data
    BY <1>6 DEF Data
  <2>2. job'[w].name = CurrentName(k)'
    BY <1>3, <1>5, <1>6 DEF CurrentName
  <2>3. Len(old \o data) = CurrentOffset[k] + Len(data)
    BY <1>2, <1>4, LenOfConcat
  <2>4. Content(job[w].name)' = old \o data
    BY <1>5, <1>6 DEF Content
  <2>5. NewInfo(w)' = [FileName |-> job[w].name, StartOffset |-> CurrentOffset[k],
                       EndOffset |-> CurrentOffset[k] + Len(data)]
    BY <1>5, <1>6, <2>1 DEF NewInfo
  <2>6. SubSeq(old \o data, CurrentOffset[k] + 1, CurrentOffset[k] + Len(data)) = data
    BY <1>2, <1>4, SubSeqOfSecond
  <2>7. readsFromDisk(NewInfo(w), Data(w))'
    <3> DEFINE info == [FileName |-> job[w].name, StartOffset |-> CurrentOffset[k],
                        EndOffset |-> CurrentOffset[k] + Len(data)]
    <3>1. /\ info.FileName \in DOMAIN files'
          /\ info.EndOffset <= Len(files'[info.FileName])
      BY <1>2, <1>5, <2>3
    <3>2. SubSeq(files'[info.FileName], info.StartOffset + 1, info.EndOffset) = data
      BY <1>5, <2>6
    <3> QED
      BY <2>1, <2>5, <3>1, <3>2 DEF readsFromDisk
  <2>8. k = "undo" => readsFromDisk(job[w].blockInfo, job[w].payload.block)'
    <3> SUFFICES ASSUME k = "undo"
                 PROVE  readsFromDisk(job[w].blockInfo, job[w].payload.block)'
      BY <1>6
    <3>1. readsFromDisk(job[w].blockInfo, job[w].payload.block) /\ job[w].blockInfo \in FileInfo
      BY <1>1, <1>2 DEF JobInv, Jobs
    <3> HIDE DEF k
    <3>2. ASSUME NEW info \in FileInfo, NEW d, readsFromDisk(info, d)
          PROVE  readsFromDisk(info, d)'
      BY <3>2, ReadsKept DEF IInv
    <3> QED
      BY <1>6, <3>1, <3>2 DEF readsFromDisk
  <2> QED
    BY <1>1, <1>5, <1>6, <2>1, <2>2, <2>3, <2>4, <2>7, <2>8 DEF JobInv
<1>10. FilesWithinLimit'
  <2> SUFFICES ASSUME NEW name \in DOMAIN files'
               PROVE  \/ Len(files'[name]) < MaxFileSize[name[1]]
                      \/ \E p \in Payloads : files'[name] \in {p.block, p.undo}
    BY DEF FilesWithinLimit
  <2>1. CASE name # job[w].name
    BY <1>1, <1>5, <2>1 DEF FilesWithinLimit
  <2>2. CASE name = job[w].name /\ ~NoRoom(k, Len(data))
    <3>1. Len(old \o data) < MaxFileSize[k]
      BY <1>2, <1>4, <2>2, SizesAssumption DEF NoRoom
    <3>2. name[1] = k
      BY <1>3, <2>2
    <3> QED
      BY <1>5, <2>2, <3>1, <3>2
  <2>3. CASE name = job[w].name /\ NoRoom(k, Len(data))
    <3>1. CurrentOffset[k] = 0
      BY <1>1, <1>2, <2>3 DEF JobInv
    <3>2. old \o data = data
      BY <1>2, <1>4, <3>1
    <3>3. job[w].payload \in Payloads /\ data \in {job[w].payload.block, job[w].payload.undo}
      BY <1>2 DEF Jobs, Data
    <3> QED
      BY <1>5, <2>3, <3>2, <3>3
  <2> QED
    BY <2>1, <2>2, <2>3
<1> QED
  BY <1>1, <1>7, <1>8, <1>9, <1>10

\* The offset moves to the end of the file, and the bytes just written can be
\* read where NewInfo says.
LEMMA InfoStep ==
    ASSUME IInv, ~overlapped, NEW w \in Writers, job[w].pc = "info",
           \A v \in Writers : v # w => job'[v] = job[v],
           CurrentOffset' = [CurrentOffset EXCEPT ![job[w].kind] = @ + Len(Data(w))],
           UNCHANGED <<files, CurrentFileNumber>>,
           job'[w].pc # "info"
    PROVE  /\ OneAtATime' /\ NumberInv' /\ OffsetInv' /\ FilesWithinLimit'
           /\ readsFromDisk(NewInfo(w), Data(w))
<1> DEFINE k == job[w].kind
<1>1. /\ \A v \in Writers : v # w => job[v].pc = "idle" /\ job'[v].pc = "idle"
      /\ OneAtATime'
      /\ TypeOK /\ NumberInv /\ OffsetInv /\ JobInv /\ FilesWithinLimit
  BY OthersIdle
<1>2. job[w] \in Jobs /\ k \in Kinds /\ CurrentOffset \in [Kinds -> Nat]
  BY <1>1, JobType DEF TypeOK, Jobs
<1>3. /\ job[w].name = CurrentName(k)
      /\ Len(Content(job[w].name)) = CurrentOffset[k] + Len(Data(w))
      /\ readsFromDisk(NewInfo(w), Data(w))
  BY <1>1 DEF JobInv
<1>4. \A j \in Kinds : j # k => Len(Content(CurrentName(j))) = CurrentOffset[j]
  BY <1>1 DEF OffsetInv, Wrote
<1>5. \A j \in Kinds : Content(CurrentName(j))' = Content(CurrentName(j))
  BY DEF Content, CurrentName
<1>6. OffsetInv'
  BY <1>2, <1>3, <1>4, <1>5 DEF OffsetInv
<1>7. NumberInv' /\ FilesWithinLimit'
  BY <1>1 DEF NumberInv, FilesWithinLimit
<1> QED
  BY <1>1, <1>3, <1>6, <1>7

LEMMA WriteUndoNextInv ==
    ASSUME IInv, ~overlapped', NEW w \in Writers, WriteUndoNext(w)
    PROVE  OneAtATime' /\ NumberInv' /\ OffsetInv' /\ JobInv' /\ FilesWithinLimit'
<1>1. /\ job[w].pc = "info" /\ job[w].kind = "block" /\ job[w] \in Jobs
      /\ ~overlapped /\ TypeOK
  BY JobType DEF WriteUndoNext, IInv
<1>2. /\ job'[w].pc = "roll" /\ job'[w].kind = "undo" /\ job'[w].blockInfo = NewInfo(w)
      /\ job'[w].payload = job[w].payload
      /\ \A v \in Writers : v # w => job'[v] = job[v]
      /\ UNCHANGED <<files, CurrentFileNumber, stored>>
  BY <1>1 DEF WriteUndoNext, TypeOK, Jobs
<1>3. /\ OneAtATime' /\ NumberInv' /\ OffsetInv' /\ FilesWithinLimit'
      /\ readsFromDisk(NewInfo(w), Data(w))
  BY <1>1, <1>2, InfoStep DEF WriteUndoNext
<1>4. JobInv'
  <2>1. readsFromDisk(job'[w].blockInfo, job'[w].payload.block)
    BY <1>1, <1>2, <1>3 DEF Data
  <2>2. \A v \in Writers : v # w => job'[v].pc = "idle"
    BY <1>2, <1>3 DEF OneAtATime
  <2> QED
    BY <1>2, <2>1, <2>2 DEF JobInv, readsFromDisk
<1> QED
  BY <1>3, <1>4

LEMMA StoreRecordInv ==
    ASSUME IInv, ~overlapped', NEW w \in Writers, StoreRecord(w)
    PROVE  /\ OneAtATime' /\ NumberInv' /\ OffsetInv' /\ JobInv' /\ FilesWithinLimit'
           /\ ReadableAt(Record(w))
<1> DEFINE p == job[w].payload
<1>1. job[w].pc = "info" /\ job[w] \in Jobs /\ ~overlapped /\ TypeOK
  BY JobType DEF StoreRecord, IInv
<1>2. /\ job'[w].pc = "idle" /\ UNCHANGED <<files, CurrentFileNumber>>
      /\ \A v \in Writers : v # w => job'[v] = job[v]
  BY <1>1 DEF StoreRecord, Idle, TypeOK
<1>3. /\ OneAtATime' /\ NumberInv' /\ OffsetInv' /\ FilesWithinLimit'
      /\ readsFromDisk(NewInfo(w), Data(w))
  BY <1>1, <1>2, InfoStep DEF StoreRecord
<1>4. JobInv'
  <2>1. \A v \in Writers : v # w => job[v].pc = "idle"
    BY <1>1 DEF IInv, QuietInv, OneAtATime
  <2> QED
    BY <1>2, <2>1 DEF JobInv
<1>5. ReadableAt(Record(w))
  <2>1. CASE job[w].kind = "undo"
    <3>1. readsFromDisk(job[w].blockInfo, p.block) /\ readsFromDisk(NewInfo(w), p.undo)
      BY <1>1, <1>3, <2>1 DEF IInv, QuietInv, JobInv, Data
    <3>2. Record(w) = [payload |-> p, blockInfo |-> job[w].blockInfo, undoInfo |-> NewInfo(w)]
      BY <2>1 DEF Record
    <3> QED
      BY <3>1, <3>2 DEF ReadableAt
  <2>2. CASE job[w].kind # "undo"
    <3>1. job[w].kind = "block" /\ p.undo = <<>>
      BY <1>1, <2>2 DEF StoreRecord, Jobs, Kinds
    <3>2. readsFromDisk(NewInfo(w), p.block)
      BY <1>3, <3>1 DEF Data
    <3>3. Record(w) = [payload |-> p, blockInfo |-> NewInfo(w), undoInfo |-> NoInfo]
      BY <2>2 DEF Record
    <3> QED
      BY <3>1, <3>2, <3>3 DEF ReadableAt
  <2> QED
    BY <2>1, <2>2
<1> QED
  BY <1>3, <1>4, <1>5

-----------------------------------------------------------------------------
(* Any writers: what is in a file stays there *)

\* Holds, after the step.
HoldsAfter(name, data) ==
    /\ name \in DOMAIN files'
    /\ \E i \in 0..Len(files'[name]) :
         /\ i + Len(data) <= Len(files'[name])
         /\ SubSeq(files'[name], i + 1, i + Len(data)) = data

\* A file that holds data holds it after another write.
LEMMA HoldsKept ==
    ASSUME TypeOK, NEW w \in Writers, Write(w), NEW name, NEW data, Len(data) \in Nat,
           Holds(name, data)
    PROVE  HoldsAfter(name, data)
<1>1. Data(w) \in Seq(Byte)
  BY JobType DEF Write
<1>2. PICK i \in 0..Len(files[name]) :
        /\ name \in DOMAIN files /\ files[name] \in Seq(Byte)
        /\ i + Len(data) <= Len(files[name])
        /\ SubSeq(files[name], i + 1, i + Len(data)) = data
  BY DEF Holds, TypeOK
<1>3. name \in DOMAIN files'
  BY <1>2 DEF Write, writeToDisk
<1>4. CASE name = job[w].name
  <2>1. files'[name] = files[name] \o Data(w)
    BY <1>2, <1>4 DEF Write, writeToDisk, Content
  <2>2. i \in Nat /\ Len(files[name]) \in Nat /\ Len(Data(w)) \in Nat
    BY <1>1, <1>2
  <2>3. Len(files[name] \o Data(w)) = Len(files[name]) + Len(Data(w))
    BY <1>1, <1>2, LenOfConcat
  <2>4. SubSeq(files[name] \o Data(w), i + 1, i + Len(data)) = data
    BY <1>1, <1>2, <2>2, SubSeqOfFirst
  <2>5. i \in 0..Len(files'[name]) /\ i + Len(data) <= Len(files'[name])
    BY <1>2, <2>1, <2>2, <2>3
  <2> QED
    BY <1>3, <2>1, <2>4, <2>5 DEF HoldsAfter
<1>5. CASE name # job[w].name
  BY <1>2, <1>3, <1>5 DEF Write, writeToDisk, HoldsAfter
<1> QED
  BY <1>4, <1>5

\* The writer's file holds what it just wrote.
LEMMA HoldsWritten ==
    ASSUME TypeOK, NEW w \in Writers, Write(w)
    PROVE  HoldsAfter(job[w].name, Data(w))
<1> DEFINE old == Content(job[w].name)
<1>1. /\ Data(w) \in Seq(Byte) /\ old \in Seq(Byte) /\ job[w] \in Jobs
      /\ Len(old) \in Nat /\ Len(Data(w)) \in Nat
  BY JobType, ContentType DEF Write
<1>2. job[w].name \in DOMAIN files' /\ files'[job[w].name] = old \o Data(w)
  BY DEF Write, writeToDisk
<1>4. /\ SubSeq(old \o Data(w), Len(old) + 1, Len(old) + Len(Data(w))) = Data(w)
      /\ Len(old \o Data(w)) = Len(old) + Len(Data(w))
  BY <1>1, SubSeqOfSecond, LenOfConcat
<1>5. Len(old) \in 0..Len(old \o Data(w))
  BY <1>1, <1>4
<1>6. /\ Len(old) \in 0..Len(files'[job[w].name])
      /\ Len(old) + Len(Data(w)) <= Len(files'[job[w].name])
      /\ SubSeq(files'[job[w].name], Len(old) + 1, Len(old) + Len(Data(w))) = Data(w)
  BY <1>1, <1>2, <1>4, <1>5
<1> HIDE DEF old
<1> QED
  BY <1>2, <1>6 DEF HoldsAfter

\* Types of what a record or a job is about.
LEMMA PayloadType ==
    ASSUME NEW p \in Payloads
    PROVE  /\ p.block \in Seq(Byte) /\ p.undo \in Seq(Byte)
           /\ Len(p.block) \in Nat /\ Len(p.undo) \in Nat
BY PayloadsAssumption

\* A write keeps what is said about all times.
LEMMA WriteKeeps ==
    ASSUME IInv, NEW w \in Writers, Write(w)
    PROVE  WrittenInv' /\ ReadsBack' /\ DataKept'
<1>1. TypeOK /\ WrittenInv /\ ReadsBack /\ DataKept
  BY DEF IInv
<1>2. /\ job[w] \in Jobs /\ job'[w] = [job[w] EXCEPT !.pc = "info"]
      /\ \A v \in Writers : v # w => job'[v] = job[v]
      /\ stored' = stored /\ alone' = alone
  BY <1>1, JobType DEF Write, TypeOK
<1>3. ASSUME NEW r \in stored
      PROVE  r.blockInfo \in FileInfo /\ r.undoInfo \in FileInfo /\ r.payload \in Payloads
  BY <1>1 DEF TypeOK, Stored
<1>4. ReadsBack'
  <2> SUFFICES ASSUME NEW r \in alone PROVE ReadableAt(r)'
    BY <1>2 DEF ReadsBack
  <2>1. r \in stored /\ ReadableAt(r)
    BY <1>1 DEF TypeOK, ReadsBack
  <2> QED
    BY <1>1, <1>3, <2>1, ReadsKept DEF ReadableAt
<1>5. DataKept'
  <2> SUFFICES ASSUME NEW r \in stored
               PROVE  /\ HoldsAfter(r.blockInfo.FileName, r.payload.block)
                      /\ r.payload.undo # <<>> => HoldsAfter(r.undoInfo.FileName, r.payload.undo)
    BY <1>2 DEF DataKept, Holds, HoldsAfter
  <2>1. Len(r.payload.block) \in Nat /\ Len(r.payload.undo) \in Nat
    BY <1>3, PayloadType
  <2> QED
    BY <1>1, <2>1, HoldsKept DEF DataKept
<1>6. WrittenInv'
  <2> SUFFICES ASSUME NEW v \in Writers
               PROVE  /\ job'[v].pc = "info" => HoldsAfter(job'[v].name, Data(v)')
                      /\ (job'[v].pc # "idle" /\ job'[v].kind = "undo") =>
                            HoldsAfter(job'[v].blockInfo.FileName, job'[v].payload.block)
    BY DEF WrittenInv, Holds, HoldsAfter
  <2>1. job[v].pc # "idle" => Len(job[v].payload.block) \in Nat /\ Len(Data(v)) \in Nat
    BY <1>1, JobType, PayloadType DEF Jobs
  <2>2. ASSUME job[v].pc # "idle", job[v].kind = "undo"
        PROVE  HoldsAfter(job[v].blockInfo.FileName, job[v].payload.block)
    BY <1>1, <2>1, <2>2, HoldsKept DEF WrittenInv
  <2>3. CASE v = w
    <3>1. HoldsAfter(job[w].name, Data(w))
      BY <1>1, HoldsWritten
    <3>2. /\ job[w].pc # "idle" /\ job'[w].kind = job[w].kind /\ job'[w].name = job[w].name
          /\ job'[w].blockInfo = job[w].blockInfo /\ job'[w].payload = job[w].payload
      BY <1>2 DEF Jobs, Write
    <3>3. Data(w)' = Data(w)
      BY <3>2 DEF Data
    <3> QED
      BY <2>2, <2>3, <3>1, <3>2, <3>3
  <2>4. CASE v # w
    <3>1. job'[v] = job[v] /\ Data(v)' = Data(v)
      BY <1>2, <2>4 DEF Data
    <3>2. ASSUME job[v].pc = "info" PROVE HoldsAfter(job[v].name, Data(v))
      BY <1>1, <2>1, <3>2, HoldsKept DEF WrittenInv
    <3> QED
      BY <2>2, <3>1, <3>2
  <2> QED
    BY <2>3, <2>4
<1> QED
  BY <1>4, <1>5, <1>6

\* So does a step that writes nothing and stores no record.
LEMMA FilesUnchanged ==
    ASSUME IInv, UNCHANGED <<files, stored, alone>>
    PROVE  ReadsBack' /\ DataKept'
BY DEF IInv, ReadsBack, DataKept, ReadableAt, readsFromDisk, Holds

LEMMA StepKeeps ==
    ASSUME IInv, NEW w \in Writers, StoreBlock(w) \/ RollOver(w) \/ WriteUndoNext(w)
    PROVE  WrittenInv' /\ ReadsBack' /\ DataKept'
<1>1. TypeOK /\ WrittenInv
  BY DEF IInv
<1>2. /\ UNCHANGED <<files, stored, alone>>
      /\ \A v \in Writers : v # w => job'[v] = job[v]
  BY <1>1 DEF StoreBlock, RollOver, WriteUndoNext, TypeOK
<1>3. job'[w].pc # "info"
  BY <1>1, JobType DEF StoreBlock, RollOver, WriteUndoNext, TypeOK, Jobs
<1>4. job'[w].kind = "undo" => Holds(job'[w].blockInfo.FileName, job'[w].payload.block)
  <2>1. CASE StoreBlock(w)
    BY <1>1, <2>1 DEF StoreBlock, TypeOK
  <2>2. CASE RollOver(w)
    <3>1. /\ job[w].pc # "idle" /\ job'[w].kind = job[w].kind
          /\ job'[w].blockInfo = job[w].blockInfo /\ job'[w].payload = job[w].payload
      BY <1>1, <2>2, JobType DEF RollOver, TypeOK, Jobs
    <3> QED
      BY <1>1, <3>1 DEF WrittenInv
  <2>3. CASE WriteUndoNext(w)
    <3>1. /\ job[w].pc = "info" /\ job[w].kind = "block"
          /\ job'[w].blockInfo = NewInfo(w) /\ job'[w].payload = job[w].payload
      BY <1>1, <2>3, JobType DEF WriteUndoNext, TypeOK, Jobs
    <3>2. Holds(job[w].name, job[w].payload.block)
      BY <1>1, <3>1 DEF WrittenInv, Data
    <3> QED
      BY <3>1, <3>2 DEF NewInfo
  <2> QED
    BY <2>1, <2>2, <2>3
<1>5. WrittenInv'
  <2> SUFFICES ASSUME NEW v \in Writers
               PROVE  /\ job'[v].pc = "info" => Holds(job[v].name, Data(v))'
                      /\ (job'[v].pc # "idle" /\ job'[v].kind = "undo") =>
                            Holds(job[v].blockInfo.FileName, job[v].payload.block)'
    BY DEF WrittenInv
  <2>1. CASE v = w
    BY <1>2, <1>3, <1>4, <2>1 DEF Holds
  <2>2. CASE v # w
    BY <1>1, <1>2, <2>2 DEF WrittenInv, Holds, Data
  <2> QED
    BY <2>1, <2>2
<1> QED
  BY <1>2, <1>5, FilesUnchanged

LEMMA StoreRecordKeeps ==
    ASSUME IInv, NEW w \in Writers, StoreRecord(w)
    PROVE  WrittenInv' /\ ReadsBack' /\ DataKept'
<1> DEFINE p == job[w].payload
<1>1. /\ TypeOK /\ WrittenInv /\ ReadsBack /\ DataKept
      /\ job[w].pc = "info" /\ job[w] \in Jobs
  BY JobType DEF IInv, StoreRecord
<1>2. /\ UNCHANGED <<files, overlapped>> /\ job'[w].pc = "idle"
      /\ stored' = stored \cup {Record(w)}
      /\ alone' = IF overlapped THEN alone ELSE alone \cup {Record(w)}
      /\ \A v \in Writers : v # w => job'[v] = job[v]
  BY <1>1 DEF StoreRecord, TypeOK, Idle
<1>3. WrittenInv'
  <2> SUFFICES ASSUME NEW v \in Writers
               PROVE  /\ job'[v].pc = "info" => Holds(job[v].name, Data(v))'
                      /\ (job'[v].pc # "idle" /\ job'[v].kind = "undo") =>
                            Holds(job[v].blockInfo.FileName, job[v].payload.block)'
    BY DEF WrittenInv
  <2>1. CASE v = w
    BY <1>2, <2>1
  <2>2. CASE v # w
    BY <1>1, <1>2, <2>2 DEF WrittenInv, Holds, Data
  <2> QED
    BY <2>1, <2>2
<1>4. ReadsBack'
  <2>1. ~overlapped => ReadableAt(Record(w))
    BY <1>2, StoreRecordInv
  <2>2. \A r \in alone' : ReadableAt(r)
    BY <1>1, <1>2, <2>1 DEF ReadsBack
  <2> QED
    BY <1>2, <2>2 DEF ReadsBack, ReadableAt, readsFromDisk
<1>5. DataKept'
  <2> DEFINE Kept(r) == /\ Holds(r.blockInfo.FileName, r.payload.block)
                        /\ r.payload.undo # <<>> => Holds(r.undoInfo.FileName, r.payload.undo)
  <2>1. Holds(job[w].name, Data(w)) /\ NewInfo(w).FileName = job[w].name
    BY <1>1 DEF WrittenInv, NewInfo
  <2>2. Kept(Record(w))
    <3>1. CASE job[w].kind = "undo"
      <4>1. Holds(job[w].blockInfo.FileName, p.block) /\ Holds(NewInfo(w).FileName, p.undo)
        BY <1>1, <2>1, <3>1 DEF WrittenInv, Data
      <4>2. Record(w) = [payload |-> p, blockInfo |-> job[w].blockInfo, undoInfo |-> NewInfo(w)]
        BY <3>1 DEF Record
      <4> QED
        BY <4>1, <4>2
    <3>2. CASE job[w].kind # "undo"
      <4>1. job[w].kind = "block" /\ p.undo = <<>>
        BY <1>1, <3>2 DEF StoreRecord, Jobs, Kinds
      <4>2. Holds(NewInfo(w).FileName, p.block)
        BY <2>1, <4>1 DEF Data
      <4>3. Record(w) = [payload |-> p, blockInfo |-> NewInfo(w), undoInfo |-> NoInfo]
        BY <3>2 DEF Record
      <4> QED
        BY <4>1, <4>2, <4>3
    <3> QED
      BY <3>1, <3>2
  <2>3. \A r \in stored' : Kept(r)
    BY <1>1, <1>2, <2>2 DEF DataKept
  <2> QED
    BY <1>2, <2>3 DEF DataKept, Holds
<1> QED
  BY <1>3, <1>4, <1>5

-----------------------------------------------------------------------------
(* Theorems *)

\* Every variable keeps its type, whatever writers overlap.
THEOREM TypeCorrect == Spec => []TypeOK
<1> QED
  BY InitTypes, NextTypes, PTL DEF Spec

\* Every step keeps the inductive invariant.
LEMMA NextInv == IInv /\ [Next]_vars => IInv'
<1> SUFFICES ASSUME IInv, [Next]_vars PROVE IInv'
  OBVIOUS
<1>1. TypeOK'
  BY NextTypes DEF IInv
<1>2. CASE UNCHANGED vars
  <2>1. UNCHANGED <<files, CurrentFileNumber, CurrentOffset, job, stored, overlapped, alone>>
    BY <1>2 DEF vars
  <2>2. ReadsBack' /\ DataKept'
    BY <2>1, FilesUnchanged
  <2>3. FilesWithinLimit'
    BY <2>1 DEF IInv, FilesWithinLimit
  <2>4. WrittenInv'
    BY <2>1 DEF IInv, WrittenInv, Holds, Data
  <2>5. QuietInv'
    BY <2>1 DEF IInv, QuietInv, OneAtATime, NumberInv, OffsetInv, JobInv, Wrote, Content,
               CurrentName, NoRoom, Data, NewInfo, readsFromDisk
  <2> QED
    BY <1>1, <2>2, <2>3, <2>4, <2>5 DEF IInv
<1>3. ASSUME Next PROVE WrittenInv' /\ ReadsBack' /\ DataKept'
  BY <1>3, StepKeeps, WriteKeeps, StoreRecordKeeps DEF Next
<1>4. ASSUME Next, ~overlapped'
      PROVE  OneAtATime' /\ NumberInv' /\ OffsetInv' /\ JobInv' /\ FilesWithinLimit'
  BY <1>4, StoreBlockInv, RollOverInv, WriteInv, WriteUndoNextInv, StoreRecordInv DEF Next
<1>5. ASSUME Next PROVE FilesWithinLimit' /\ QuietInv'
  BY <1>4, <1>5 DEF FilesWithinLimit, QuietInv
<1> QED
  BY <1>1, <1>2, <1>3, <1>5 DEF IInv

\* What a call of StoreBlock stored before any two calls overlapped can be read
\* back at the place its record names (WriteBlock, WriteUndoBlock, ReadBlock,
\* ReadUndoBlock) for ever, however many calls overlap later: for all writers,
\* payloads, file sizes and numbers of calls.
THEOREM StoredIsReadable == Spec => []ReadsBack
<1>1. IInv => ReadsBack
  BY DEF IInv
<1> QED
  BY InitInv, NextInv, <1>1, PTL DEF Spec

\* However calls of StoreBlock overlap, each block and undo block stays whole in
\* the file that its record names: writeToDisk appends, and the record keeps
\* the file name that the write used.
THEOREM BytesAreKept == Spec => []DataKept
<1>1. IInv => DataKept
  BY DEF IInv
<1> QED
  BY InitInv, NextInv, <1>1, PTL DEF Spec

\* Until two calls overlap, a file exceeds its maximum size only by a single
\* piece of data that is too large for any file.
THEOREM FilesStayWithinLimit == Spec => []FilesWithinLimit
<1>1. IInv => FilesWithinLimit
  BY DEF IInv
<1> QED
  BY InitInv, NextInv, <1>1, PTL DEF Spec
=============================================================================
