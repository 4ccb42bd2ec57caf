---------------------------- MODULE EdgeFSInit ----------------------------
(***************************************************************************)
(* The start of EdgeFS, initFS(): from the sizes in SystemInfo to a mapped *)
(* index file and a data file, and the roll-back when a step fails.  Each  *)
(* start is a process of its own; it may die between any two system calls  *)
(* or stores into the header, and a later one finds what it left.          *)
(***************************************************************************)
EXTENDS Integers, Sequences, FiniteSets

CONSTANTS Infos,       \* the SystemInfo values callers pass: memory and disk
          HeadSize,    \* sizeof(EdgeFSHead)
          MetaSize,    \* sizeof(MetaInfo)
          AlignSize,   \* kDiskRWAlignSize
          MinChunk,    \* kMinChunkSize
          MaxChunk,    \* kMaxChunkSize
          Word,        \* 2^32, the range of uint32_t
          MaxFails,    \* system calls that fail (bound)
          MaxCrashes   \* process deaths (bound)

ASSUME InfosAssumption == Infos \subseteq [memory : Nat, disk : Nat]
ASSUME UnitsAssumption ==
  /\ HeadSize \in Nat \ {0} /\ MetaSize \in Nat \ {0} /\ AlignSize \in Nat \ {0}
  /\ MinChunk \in Nat \ {0} /\ MaxChunk \in Nat \ {0} /\ MinChunk <= MaxChunk
  /\ MaxChunk < Word /\ Word \in Nat
ASSUME FaultBounds == MaxFails \in Nat /\ MaxCrashes \in Nat

VARIABLES
  data,    \* edgefs.data: is it there, its size, the bytes of users in it
  idx,     \* edgefs.idx: is it there, its size, its header, the users'
           \* bytes its metadata stands for
  pc,      \* where initFS is
  info,    \* the SystemInfo of this start
  field,   \* the next field of the header to be stored
  hist     \* history: calls that failed on either file, deaths, the
           \* configurations started with, the most users had stored

vars == <<data, idx, pc, info, field, hist>>
---------------------------------------------------------------------------
(* initFSCheckParam and initFSCalcVariable                                 *)
MinMemory == HeadSize + 1 + MetaSize

Clamp(n) == IF n < MinChunk THEN MinChunk ELSE IF n > MaxChunk THEN MaxChunk ELSE n

FirstChunkNum(i) == ((i.memory - HeadSize) \div MetaSize) % Word

(* chunkNum is 0 only when the quotient is a multiple of Word: the next    *)
(* division kills the process                                              *)
DividesByZero(i) == i.memory > MinMemory /\ FirstChunkNum(i) = 0

ChunkSizeOf(i) ==
  LET c == (i.disk \div FirstChunkNum(i)) % Word
  IN Clamp(c - (c % AlignSize))

ChunkNumFirst(i) == FirstChunkNum(i)    \* mutant: not computed again for the clamped size

ChunkNum(i) == (i.disk \div ChunkSizeOf(i)) % Word

Sizes(i) ==
  LET n == ChunkNum(i)
      b == ((n + 7) % Word) \div 8
  IN [chunkNum |-> n, chunkSize |-> ChunkSizeOf(i), bitmapSize |-> b,
      diskSize |-> n * ChunkSizeOf(i),
      mmapSize |-> HeadSize + b + n * MetaSize]

Accepted(i) ==
  /\ i.memory > MinMemory
  /\ FirstChunkNum(i) # 0
  /\ LET s == Sizes(i)
     IN /\ s.chunkNum # 0 /\ s.bitmapSize # 0
        /\ s.diskSize <= i.disk /\ s.mmapSize <= i.memory
---------------------------------------------------------------------------
(* The header, in the order in which its fields are stored.                *)
Fields == <<"magic", "usableMemory", "coverableDiskSize", "chunkNum", "chunkSize", "bitmapSize">>
FieldNames == {"magic", "usableMemory", "coverableDiskSize", "chunkNum", "chunkSize", "bitmapSize"}

HeadOf(i) == [magic |-> 1, usableMemory |-> Sizes(i).mmapSize,
              coverableDiskSize |-> Sizes(i).diskSize, chunkNum |-> Sizes(i).chunkNum,
              chunkSize |-> Sizes(i).chunkSize, bitmapSize |-> Sizes(i).bitmapSize]

NoHead == [x \in FieldNames |-> 0]

NoData == [exists |-> FALSE, size |-> 0, bytes |-> 0]
NoIdx == [exists |-> FALSE, size |-> 0, head |-> NoHead, bytes |-> 0]

Init == /\ data = NoData /\ idx = NoIdx
        /\ pc = "off"
        /\ info \in Infos
        /\ field = 1
        /\ hist = [dataFails |-> 0, idxFails |-> 0, crashes |-> 0,
                   infos |-> {}, stored |-> 0]
---------------------------------------------------------------------------
(* A refused start leaves before either file has a path: its roll-back     *)
(* unlinks nothing.  A division by zero ends the process the same way.     *)
StartRefused(i) ==
  /\ pc \in {"off", "refused"}
  /\ ~Accepted(i)
  /\ info' = i
  /\ pc' = "refused"
  /\ UNCHANGED <<data, idx, field, hist>>

Start(i) ==
  /\ pc \in {"off", "refused"}
  /\ Accepted(i)
  /\ info' = i
  /\ pc' = "openData"
  /\ hist' = [hist EXCEPT !.infos = @ \cup {i}]
  /\ UNCHANGED <<data, idx, field>>

(* DataMgr::initDataMgr                                                    *)
OpenData ==
  /\ pc = "openData"
  /\ data' = [data EXCEPT !.exists = TRUE]
  /\ pc' = "truncData"
  /\ UNCHANGED <<idx, info, field, hist>>

SmallerOf(a, b) == IF a <= b THEN a ELSE b

TruncData ==
  /\ pc = "truncData"
  /\ data' = [data EXCEPT !.size = Sizes(info).diskSize,
                          !.bytes = SmallerOf(@, Sizes(info).diskSize)]
  /\ pc' = "openIdx"
  /\ UNCHANGED <<idx, info, field, hist>>

(* The roll-back knows the path of the data file only.                     *)
DataCallFails ==
  /\ pc \in {"openData", "truncData"}
  /\ hist.dataFails + hist.idxFails < MaxFails
  /\ hist' = [hist EXCEPT !.dataFails = @ + 1]
  /\ pc' = "unlinkDataOnly"
  /\ UNCHANGED <<data, idx, info, field>>

(* IndexMgr::initIndexMgr: an index file that is there, of whatever size,  *)
(* is one to reload                                                        *)
OpenIdxAnew ==                       \* mutant: always takes the file for a new one
  /\ pc = "openIdx"
  /\ pc' = "truncIdx"
  /\ idx' = [idx EXCEPT !.exists = TRUE]
  /\ UNCHANGED <<data, info, field, hist>>

OpenIdx ==
  /\ pc = "openIdx"
  /\ pc' = IF idx.exists THEN "mapOld" ELSE "truncIdx"
  /\ idx' = [idx EXCEPT !.exists = TRUE]
  /\ UNCHANGED <<data, info, field, hist>>

TruncIdx ==
  /\ pc = "truncIdx"
  /\ idx' = [idx EXCEPT !.size = Sizes(info).mmapSize]
  /\ pc' = "mapNew"
  /\ UNCHANGED <<data, info, field, hist>>

IdxCallFails ==
  /\ pc \in {"openIdx", "truncIdx", "mapNew", "mapOld"}
  /\ hist.dataFails + hist.idxFails < MaxFails
  /\ hist' = [hist EXCEPT !.idxFails = @ + 1]
  /\ pc' = "unlinkData"
  /\ UNCHANGED <<data, idx, info, field>>

(* initFSCalcPointerAddrForCreateIdxFile: mmap, memset, then the header    *)
MapNew ==
  /\ pc = "mapNew"
  /\ idx' = [idx EXCEPT !.head = NoHead, !.bytes = 0]
  /\ field' = 1
  /\ pc' = "storeHead"
  /\ UNCHANGED <<data, info, hist>>

StoreHeadRunsOn ==                   \* mutant: stores beyond the last field
  /\ pc = "storeHead"
  /\ idx' = [idx EXCEPT !.head[Fields[field]] = HeadOf(info)[Fields[field]]]
  /\ field' = field + 1
  /\ pc' = IF field = Len(Fields) THEN "mounted" ELSE "storeHead"
  /\ UNCHANGED <<data, info, hist>>

StoreHead ==
  /\ pc = "storeHead"
  /\ idx' = [idx EXCEPT !.head[Fields[field]] = HeadOf(info)[Fields[field]]]
  /\ field' = IF field = Len(Fields) THEN 1 ELSE field + 1
  /\ pc' = IF field = Len(Fields) THEN "mounted" ELSE "storeHead"
  /\ UNCHANGED <<data, info, hist>>
---------------------------------------------------------------------------
(* initFSCalcPointerAddrForReloadIdxFile                                   *)
HeadMatchesMagicOnly == idx.head.magic = 1           \* mutant

HeadMatches == idx.head = HeadOf(info)

MapOld ==
  /\ pc = "mapOld"
  /\ pc' = "checkHead"
  /\ UNCHANGED <<data, idx, info, field, hist>>

CheckHeadNoRollBack ==               \* mutant: a bad header is left as it is
  /\ pc = "checkHead" /\ idx.size # 0
  /\ pc' = IF HeadMatches THEN "mounted" ELSE "off"
  /\ UNCHANGED <<data, idx, info, field, hist>>

CheckHead ==
  /\ pc = "checkHead" /\ idx.size # 0
  /\ pc' = IF HeadMatches THEN "mounted" ELSE "unlinkData"
  /\ UNCHANGED <<data, idx, info, field, hist>>

(* The mapping of an empty file has no page behind it: reading the header  *)
(* kills the process, without a roll-back.                                 *)
CheckHeadDies ==
  /\ pc = "checkHead" /\ idx.size = 0
  /\ pc' = "off"
  /\ UNCHANGED <<data, idx, info, field, hist>>
---------------------------------------------------------------------------
(* initFSFailRollBack                                                      *)
UnlinkData ==
  /\ pc \in {"unlinkDataOnly", "unlinkData"}
  /\ data' = NoData
  /\ pc' = IF pc = "unlinkData" THEN "unlinkIdx" ELSE "off"
  /\ UNCHANGED <<idx, info, field, hist>>

UnlinkIdxSkipped ==                  \* mutant: the index file is left behind
  /\ pc = "unlinkIdx"
  /\ pc' = "off"
  /\ UNCHANGED <<data, idx, info, field, hist>>

UnlinkIdx ==
  /\ pc = "unlinkIdx"
  /\ idx' = NoIdx
  /\ pc' = "off"
  /\ UNCHANGED <<data, info, field, hist>>

(* A write() of module EdgeFS, up to the end of the first or last chunk.   *)
UserWrites ==
  /\ pc = "mounted"
  /\ \E n \in {Sizes(info).chunkSize, Sizes(info).diskSize} :
       /\ n > idx.bytes
       /\ data' = [data EXCEPT !.bytes = IF @ < idx.bytes THEN @ ELSE n]
       /\ idx' = [idx EXCEPT !.bytes = n]
       /\ hist' = [hist EXCEPT !.stored = n]
  /\ UNCHANGED <<pc, info, field>>

(* unitFS and the end of the process; the mapping is never undone          *)
Stop ==
  /\ pc = "mounted"
  /\ pc' = "off"
  /\ UNCHANGED <<data, idx, info, field, hist>>

Crash ==
  /\ pc \notin {"off", "refused", "mounted"}
  /\ hist.crashes < MaxCrashes
  /\ hist' = [hist EXCEPT !.crashes = @ + 1]
  /\ pc' = "off"
  /\ UNCHANGED <<data, idx, info, field>>
---------------------------------------------------------------------------
InitFSStep == \/ OpenData \/ TruncData \/ OpenIdx \/ TruncIdx \/ MapNew \/ StoreHead
              \/ MapOld \/ CheckHead \/ CheckHeadDies \/ UnlinkData \/ UnlinkIdx

Next == \/ \E i \in Infos : StartRefused(i) \/ Start(i)
        \/ InitFSStep
        \/ DataCallFails \/ IdxCallFails
        \/ UserWrites \/ Stop \/ Crash

(* A running initFS goes on.  Nobody is obliged to start, write or stop.   *)
Spec == Init /\ [][Next]_vars /\ WF_vars(InitFSStep)
---------------------------------------------------------------------------
(* Types of the variables.                                                 *)
Heads == [FieldNames -> Nat]

TypeOK ==
  /\ data \in [exists : BOOLEAN, size : Nat, bytes : Nat]
  /\ idx \in [exists : BOOLEAN, size : Nat, head : Heads, bytes : Nat]
  /\ pc \in {"off", "refused", "openData", "truncData", "openIdx", "truncIdx", "mapNew", "storeHead",
             "mapOld", "checkHead", "unlinkDataOnly", "unlinkData", "unlinkIdx", "mounted"}
  /\ info \in Infos
  /\ field \in 1..Len(Fields)
  /\ hist \in [dataFails : 0..MaxFails, idxFails : 0..MaxFails, crashes : 0..MaxCrashes,
               infos : SUBSET Infos, stored : Nat]

(* A start that succeeds has files of this configuration, however earlier  *)
(* starts ended: the header, the size of the index file behind it, the     *)
(* size of the data file, and no metadata for bytes beyond it.             *)
MountedMatches ==
  pc = "mounted" =>
    /\ data.exists /\ idx.exists
    /\ idx.head = HeadOf(info)
    /\ idx.size = Sizes(info).mmapSize
    /\ data.size = Sizes(info).diskSize
    /\ idx.bytes <= data.size

OneConfiguration == \A i, j \in hist.infos : HeadOf(i) = HeadOf(j)

(* Deaths during initFS alone, at whatever point, never cost data: with    *)
(* one configuration and no failing call, a start finds all that was       *)
(* stored, in the index and in the data file.                              *)
RestartKeepsData ==
  pc = "mounted" /\ OneConfiguration /\ hist.dataFails = 0 /\ hist.idxFails = 0 =>
    idx.bytes = hist.stored /\ data.bytes = hist.stored

(* An index file that still stands for bytes the data file has lost is     *)
(* accepted in two cases only: opening or truncating the data file failed, *)
(* whose roll-back unlinks that file alone (EdgeFS.cpp:66, the index file  *)
(* has no path yet), or a death cut off a start that had truncated or      *)
(* unlinked the data file and not yet the index file.                      *)
NoSilentLoss ==
  pc = "mounted" /\ data.bytes < idx.bytes =>
    \/ hist.dataFails > 0
    \/ hist.crashes > 0 /\ (hist.idxFails > 0 \/ ~OneConfiguration)

(* The chunks cover the disk up to less than one chunk, as long as their   *)
(* number fits 32 bits.                                                    *)
WholeDiskCovered ==
  pc \notin {"off", "refused"} /\ info.disk \div MinChunk < Word =>
    info.disk - Sizes(info).diskSize < Sizes(info).chunkSize

(* Starting over and over succeeds over and over, whatever deaths and      *)
(* roll-backs left behind, with one exception: an index file that a death  *)
(* between open and ftruncate left empty kills every later start.          *)
RestartMounts ==
  []<>(pc = "openData") => \/ []<>(pc = "mounted")
                           \/ <>[](idx.exists /\ idx.size = 0)

(* With more memory than the check names as the minimum (the head, a byte  *)
(* of bitmap and one MetaInfo, EdgeFS.cpp:112-116), a disk no larger than  *)
(* the chunks this memory has metadata for is not refused.                 *)
MemoryCoversDisk ==
  pc = "refused" /\ info.disk \in MinChunk * FirstChunkNum(info) .. MaxChunk * FirstChunkNum(info)
  => info.memory <= MinMemory
===========================================================================
