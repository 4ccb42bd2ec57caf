------------------------------ MODULE EdgeFS ------------------------------
(***************************************************************************)
(* The write path of EdgeFS: one process appends to files kept in          *)
(* fixed-size chunks of one data file.  The metadata (bitmap and one       *)
(* MetaInfo per chunk) lives in a memory-mapped index file, so a store     *)
(* into it survives the death of the process; m_writeChunkNum does not.    *)
(* All chunks of all files that share a hash slot hang in one list that    *)
(* starts at the chunk whose id is the hash slot.                          *)
(***************************************************************************)
EXTENDS Integers, Sequences, FiniteSets

CONSTANTS Files,       \* file names (their sha1 identifies them)
          NoFile,      \* the all-zero sha1 of a chunk nobody has written
          NumChunks,   \* m_chunkNum
          ChunkSize,   \* m_chunkSize, in bytes
          HashKey,     \* generateHashKey: file -> slot
          WriteLens,   \* the lengths callers pass to write()
          IoFails,     \* may a write to the data file fail or be short?
          MaxCrashes   \* bound on the number of process deaths

Chunks == 0 .. NumChunks - 1
kInvalidChunkid == -1
Offsets == 0 .. ChunkSize - 1

ASSUME FilesAssumption == NoFile \notin Files /\ Files # {}
ASSUME SizeAssumption == NumChunks \in Nat \ {0} /\ ChunkSize \in Nat \ {0}
ASSUME HashKeyAssumption == HashKey \in [Files -> Chunks]
ASSUME WriteLensAssumption == WriteLens \subseteq Nat
ASSUME FaultAssumption == IoFails \in BOOLEAN /\ MaxCrashes \in Nat

VARIABLES
  bitmap,         \* the chunks whose bit is set (index file)
  isUsed,         \* MetaInfo.m_isUsed of each chunk (index file)
  sha1,           \* MetaInfo.m_metaData.m_sha1 (index file)
  idleLen,        \* MetaInfo.m_idleLen (index file)
  nextChunkid,    \* MetaInfo.m_nextChunkid (index file)
  disk,           \* the bytes of each chunk (data file)
  writeChunkNum,  \* Bitmap::m_writeChunkNum (memory only)
  pc,             \* where the process is
  op,             \* the locals of the write() in progress
  acked,          \* bytes of each file write() has reported as written
  crashes         \* process deaths so far

index == <<bitmap, isUsed, sha1, idleLen, nextChunkid>>
vars == <<index, disk, writeChunkNum, pc, op, acked, crashes>>

(* A byte is named by the file it belongs to and the number of bytes the   *)
(* caller had been told were written before it.                            *)
Bytes == (Files \cup {NoFile}) \X Nat

NoOp == [file |-> NoFile, tail |-> kInvalidChunkid, chunkTail |-> kInvalidChunkid,
         firstWriteLen |-> 0, lastChunkWriteLen |-> 0, ids |-> <<>>, i |-> 1,
         remain |-> 0, real |-> 0]

Init == /\ bitmap = {}
        /\ isUsed = [c \in Chunks |-> FALSE]
        /\ sha1 = [c \in Chunks |-> NoFile]
        /\ idleLen = [c \in Chunks |-> 0]
        /\ nextChunkid = [c \in Chunks |-> 0]   \* memset, not the constructor
        /\ disk = [c \in Chunks |-> [k \in Offsets |-> <<NoFile, 0>>]]
        /\ writeChunkNum = 0
        /\ pc = "ready"
        /\ op = NoOp
        /\ acked = [f \in Files |-> 0]
        /\ crashes = 0

---------------------------------------------------------------------------
(* Following the list.  Walk(h)[i] is the i-th chunk met from h, and       *)
(* kInvalidChunkid once the list has ended.  A list that has not ended     *)
(* after NumChunks steps has a cycle.                                      *)
Walk(h) == LET w[i \in 0..NumChunks] ==
                 IF i = 0 THEN h
                 ELSE IF w[i-1] = kInvalidChunkid THEN kInvalidChunkid
                 ELSE nextChunkid[w[i-1]]
           IN w

WalkEnds(h) == ~isUsed[h] \/ Walk(h)[NumChunks] = kInvalidChunkid

(* findFileTailMetaInfo: the head if nobody uses it, else the last chunk   *)
(* of f on the list, else NULL.                                            *)
FileTailIs(f, t) ==
  LET h == HashKey[f]  w == Walk(h)
      Mine(i) == w[i] \in Chunks /\ sha1[w[i]] = f
  IN IF ~isUsed[h] THEN t = h
     ELSE \/ \E i \in 0..NumChunks : /\ t = w[i] /\ Mine(i)
                                     /\ \A j \in i+1 .. NumChunks : ~Mine(j)
          \/ t = kInvalidChunkid /\ \A i \in 0..NumChunks : ~Mine(i)

(* findChunkTailMetaInfo: the head if nobody uses it, else the last chunk  *)
(* of the list, whoever owns it.                                           *)
ChunkTailIs(h, t) ==
  IF ~isUsed[h] THEN t = h
  ELSE \E i \in 0..NumChunks : t = Walk(h)[i] /\ nextChunkid[t] = kInvalidChunkid

(* calcWriteVariable                                                       *)
Min2(a, b) == IF a <= b THEN a ELSE b

FirstWriteLenUncapped(t, len) ==      \* mutant: the room is not looked at
  IF t # kInvalidChunkid /\ isUsed[t] THEN len ELSE 0

FirstWriteLenNone(t, len) == 0        \* mutant: the last chunk is never filled up

FirstWriteLen(t, len) ==
  IF t # kInvalidChunkid /\ isUsed[t] THEN Min2(len, idleLen[t]) ELSE 0

NeedChunkNum(rest) == (rest + ChunkSize - 1) \div ChunkSize

LastChunkWriteLenZero(rest) == rest % ChunkSize   \* mutant: an exact fit gives 0

LastChunkWriteLen(rest) ==
  IF rest % ChunkSize = 0 THEN ChunkSize ELSE rest % ChunkSize

---------------------------------------------------------------------------
(* Bitmap::generateIdleChunkids                                            *)
IdleChunks(exclude) == {c \in Chunks : c \notin bitmap /\ c # exclude}

(* the k lowest members of S in ascending order (none if S is too small)   *)
LowestFirst(S, k) ==
  {s \in [1..k -> S] : \A j \in 1..k : Cardinality({c \in S : c < s[j]}) = j - 1}

Concatenations(A, B) == {a \o b : a \in A, b \in B}

(* generateIdleChunkidsForSteady: the ascending search                     *)
SteadyChoices(S, m) == LowestFirst(S, m)

(* generateIdleChunkidsForFast: some k random hits, which may repeat,      *)
(* then the ascending search, which does not skip the random ones.  When   *)
(* every chunk qualifies no draw misses and only random hits are returned. *)
FastChoices(S, m) ==
  UNION {Concatenations([1..k -> S], LowestFirst(S, m - k)) :
           k \in IF S = Chunks THEN {m} ELSE 0..m}

(* The ascending search runs out of chunks.                                *)
SearchFailsAfterDraws(S, m) ==        \* mutant: Fast without its second loop
  m > Cardinality(S) \/ (2 * writeChunkNum < NumChunks /\ S # Chunks)

SearchFails(S, m) ==
  m > Cardinality(S) /\ (2 * writeChunkNum >= NumChunks \/ S # Chunks)

(* The lists generateIdleChunkids may return; when it may also fail it     *)
(* clears its answer, which is the empty list.                             *)
IdleChunkidChoices(t, need) ==
  LET prefix == IF t # kInvalidChunkid /\ ~isUsed[t] THEN <<t>> ELSE <<>>
      m == need - Len(prefix)
      S == IdleChunks(t)
      found == IF 2 * writeChunkNum >= NumChunks
               THEN SteadyChoices(S, m) ELSE FastChoices(S, m)
  IN IF m <= 0 THEN {prefix}
     ELSE Concatenations({prefix}, found) \cup (IF SearchFails(S, m) THEN {<<>>} ELSE {})
---------------------------------------------------------------------------
(* write(): the lookups and the reservation.  A full disk is answered with *)
(* -1.  op.i indexes idleChunkids from 1.                                  *)
BeginWrite(f, len) ==
  /\ pc = "ready"
  /\ WalkEnds(HashKey[f])
  /\ \E t \in Chunks \cup {kInvalidChunkid}, ct \in Chunks :
       /\ FileTailIs(f, t)
       /\ ChunkTailIs(HashKey[f], ct)
       /\ LET first == FirstWriteLen(t, len)
              rest == len - first
              need == NeedChunkNum(rest)
              Started(ids) ==
                [file |-> f, tail |-> t, chunkTail |-> ct, firstWriteLen |-> first,
                 lastChunkWriteLen |-> LastChunkWriteLen(rest),
                 ids |-> ids, i |-> 1, remain |-> len, real |-> 0]
          IN \E ids \in IF need = 0 THEN {<<>>} ELSE IdleChunkidChoices(t, need) :
               IF ids = <<>> /\ need # 0
               THEN /\ pc' = "return"
                    /\ op' = [NoOp EXCEPT !.file = f, !.remain = len, !.real = -1]
               ELSE /\ pc' = "first"
                    /\ op' = Started(ids)
  /\ UNCHANGED <<index, disk, writeChunkNum, acked, crashes>>

(* write() on a list with a cycle never leaves findFileTailMetaInfo.       *)
WriteHangs(f) ==
  /\ pc = "ready"
  /\ ~WalkEnds(HashKey[f])
  /\ pc' = "hung"
  /\ UNCHANGED <<index, disk, writeChunkNum, op, acked, crashes>>

(* The first n bytes of the caller's remaining buffer reach chunk c from   *)
(* byte offset on.                                                         *)
BytesLandAtStart(c, offset, n) ==     \* mutant: the room used so far is ignored
  disk' = [disk EXCEPT ![c] = [k \in Offsets |->
             IF k < n THEN <<op.file, acked[op.file] + op.real + k>> ELSE @[k]]]

BytesLand(c, offset, n) ==
  disk' = [disk EXCEPT ![c] = [k \in Offsets |->
             IF k \in offset .. offset + n - 1
             THEN <<op.file, acked[op.file] + op.real + (k - offset)>> ELSE @[k]]]

Filled == ChunkSize - idleLen[op.tail]

(* write()'s "idleChunkids.empty() ? kInvalidChunkid : idleChunkids[0]"    *)
FirstIdle == IF op.ids = <<>> THEN kInvalidChunkid ELSE op.ids[1]

AfterFirst == IF op.ids = <<>> THEN "return" ELSE "chunks"

(* The file's last chunk has room: fill it, and when it is full link the   *)
(* list's last chunk to the first new one.                                 *)
FillTail ==
  /\ pc = "first" /\ op.firstWriteLen # 0
  /\ BytesLand(op.tail, Filled, op.firstWriteLen)
  /\ idleLen' = [idleLen EXCEPT ![op.tail] = @ - op.firstWriteLen]
  /\ nextChunkid' = IF idleLen'[op.tail] = 0
                    THEN [nextChunkid EXCEPT ![op.chunkTail] = FirstIdle]
                    ELSE nextChunkid
  /\ op' = [op EXCEPT !.real = @ + op.firstWriteLen, !.remain = @ - op.firstWriteLen]
  /\ pc' = AfterFirst
  /\ UNCHANGED <<bitmap, isUsed, sha1, writeChunkNum, acked, crashes>>

(* The data write failed or was short: write() reports what it had.        *)
FillTailFails ==
  /\ IoFails
  /\ pc = "first" /\ op.firstWriteLen # 0
  /\ \E k \in 0 .. op.firstWriteLen - 1 : BytesLand(op.tail, Filled, k)
  /\ pc' = "return"
  /\ UNCHANGED <<index, writeChunkNum, op, acked, crashes>>

(* No room in the last chunk: the list is linked to the first new chunk    *)
(* before anything is written there.                                       *)
LinkFirstToFileTail ==                \* mutant: links the file's last chunk, not the list's
  /\ pc = "first" /\ op.firstWriteLen = 0
  /\ nextChunkid' = IF op.ids = <<>> \/ op.tail = kInvalidChunkid THEN nextChunkid
                    ELSE [nextChunkid EXCEPT ![op.tail] = FirstIdle]
  /\ pc' = AfterFirst
  /\ UNCHANGED <<bitmap, isUsed, sha1, idleLen, disk, writeChunkNum, op, acked, crashes>>

LinkFirst ==
  /\ pc = "first" /\ op.firstWriteLen = 0
  /\ nextChunkid' = IF op.ids = <<>> THEN nextChunkid
                    ELSE [nextChunkid EXCEPT ![op.chunkTail] = FirstIdle]
  /\ pc' = AfterFirst
  /\ UNCHANGED <<bitmap, isUsed, sha1, idleLen, disk, writeChunkNum, op, acked, crashes>>
---------------------------------------------------------------------------
(* One turn of the loop over idleChunkids.                                 *)
Chunk == op.ids[op.i]
ChunkWriteLen == Min2(op.remain, ChunkSize)
IsLast == op.i = Len(op.ids)

(* The stores into the index file that follow a successful data write, in  *)
(* program order: the bit, m_isUsed, the sha1, a first m_idleLen, the      *)
(* link, the final m_idleLen.  StoresUpTo(n) has done the first n.         *)
FinalIdleLen == IF IsLast THEN ChunkSize - op.lastChunkWriteLen ELSE 0

StoresUpToKeepingLink(n) ==           \* mutant: trusts a fresh link to be kInvalidChunkid
  /\ bitmap' = IF n >= 1 THEN bitmap \cup {Chunk} ELSE bitmap
  /\ isUsed' = IF n >= 2 THEN [isUsed EXCEPT ![Chunk] = TRUE] ELSE isUsed
  /\ sha1' = IF n >= 3 THEN [sha1 EXCEPT ![Chunk] = op.file] ELSE sha1
  /\ idleLen' = IF n >= 6 THEN [idleLen EXCEPT ![Chunk] = FinalIdleLen] ELSE idleLen
  /\ nextChunkid' = IF n >= 5 /\ ~IsLast
                    THEN [nextChunkid EXCEPT ![Chunk] = op.ids[op.i + 1]]
                    ELSE nextChunkid

StoresUpToOwnerFirst(n) ==            \* mutant: the sha1 is stored before m_isUsed
  /\ bitmap' = IF n >= 1 THEN bitmap \cup {Chunk} ELSE bitmap
  /\ sha1' = IF n >= 2 THEN [sha1 EXCEPT ![Chunk] = op.file] ELSE sha1
  /\ isUsed' = IF n >= 3 THEN [isUsed EXCEPT ![Chunk] = TRUE] ELSE isUsed
  /\ idleLen' = IF n >= 4 THEN [idleLen EXCEPT ![Chunk] = FinalIdleLen] ELSE idleLen
  /\ UNCHANGED nextChunkid

StoresUpToBitLast(n) ==               \* mutant: the bit is set after the metadata
  /\ bitmap' = IF n >= 6 THEN bitmap \cup {Chunk} ELSE bitmap
  /\ isUsed' = IF n >= 1 THEN [isUsed EXCEPT ![Chunk] = TRUE] ELSE isUsed
  /\ sha1' = IF n >= 2 THEN [sha1 EXCEPT ![Chunk] = op.file] ELSE sha1
  /\ idleLen' = IF n >= 3 THEN [idleLen EXCEPT ![Chunk] = FinalIdleLen] ELSE idleLen
  /\ UNCHANGED nextChunkid

StoresUpTo(n) ==
  /\ bitmap' = IF n >= 1 THEN bitmap \cup {Chunk} ELSE bitmap
  /\ isUsed' = IF n >= 2 THEN [isUsed EXCEPT ![Chunk] = TRUE] ELSE isUsed
  /\ sha1' = IF n >= 3 THEN [sha1 EXCEPT ![Chunk] = op.file] ELSE sha1
  /\ idleLen' = IF n >= 6
                THEN [idleLen EXCEPT ![Chunk] = FinalIdleLen]
                ELSE IF n >= 4
                THEN [idleLen EXCEPT ![Chunk] = ChunkSize - op.firstWriteLen]
                ELSE idleLen
  /\ nextChunkid' = IF n >= 5
                    THEN [nextChunkid EXCEPT ![Chunk] =
                            IF IsLast THEN kInvalidChunkid ELSE op.ids[op.i + 1]]
                    ELSE nextChunkid

WriteChunk ==
  /\ pc = "chunks"
  /\ BytesLand(Chunk, 0, ChunkWriteLen)
  /\ StoresUpTo(6)
  /\ writeChunkNum' = writeChunkNum + 1
  /\ op' = [op EXCEPT !.real = @ + ChunkWriteLen, !.remain = @ - ChunkWriteLen, !.i = @ + 1]
  /\ pc' = IF IsLast THEN "return" ELSE "chunks"
  /\ UNCHANGED <<acked, crashes>>

WriteChunkFailsReserved ==            \* mutant: the bit is set before the data write
  /\ IoFails
  /\ pc = "chunks"
  /\ \E k \in 0 .. ChunkWriteLen - 1 : BytesLand(Chunk, 0, k)
  /\ bitmap' = bitmap \cup {Chunk}
  /\ pc' = "return"
  /\ UNCHANGED <<isUsed, sha1, idleLen, nextChunkid, writeChunkNum, op, acked, crashes>>

WriteChunkFails ==
  /\ IoFails
  /\ pc = "chunks"
  /\ \E k \in 0 .. ChunkWriteLen - 1 : BytesLand(Chunk, 0, k)
  /\ pc' = "return"
  /\ UNCHANGED <<index, writeChunkNum, op, acked, crashes>>

(* write() returns its count (or -1) to the caller.                        *)
Return ==
  /\ pc = "return"
  /\ acked' = IF op.real > 0 THEN [acked EXCEPT ![op.file] = @ + op.real] ELSE acked
  /\ op' = NoOp
  /\ pc' = "ready"
  /\ UNCHANGED <<index, disk, writeChunkNum, crashes>>
---------------------------------------------------------------------------
(* The process dies: its stores into the mapped index file and the bytes   *)
(* handed to the kernel stay, its memory goes.                             *)
Die == /\ crashes < MaxCrashes
       /\ crashes' = crashes + 1
       /\ pc' = "down"
       /\ op' = NoOp
       /\ writeChunkNum' = 0
       /\ UNCHANGED acked

(* between two steps of write(), or while it hangs                         *)
Crash == /\ pc # "down"
         /\ Die
         /\ UNCHANGED <<index, disk>>

(* inside the fill of the last chunk: some bytes are out, and if all are,  *)
(* m_idleLen may be decremented already, the link not yet                  *)
CrashInFill ==
  /\ pc = "first" /\ op.firstWriteLen # 0
  /\ \E k \in 1 .. op.firstWriteLen :
       /\ BytesLand(op.tail, Filled, k)
       /\ \/ UNCHANGED idleLen
          \/ /\ k = op.firstWriteLen
             /\ idleLen' = [idleLen EXCEPT ![op.tail] = @ - op.firstWriteLen]
  /\ Die
  /\ UNCHANGED <<bitmap, isUsed, sha1, nextChunkid>>

(* inside a turn of the loop, before its last store                        *)
CrashInChunk ==
  /\ pc = "chunks"
  /\ \/ \E k \in 1 .. ChunkWriteLen : BytesLand(Chunk, 0, k) /\ StoresUpTo(0)
     \/ \E n \in 1..5 : BytesLand(Chunk, 0, ChunkWriteLen) /\ StoresUpTo(n)
  /\ Die

(* initFS on the existing index file (initFSCalcPointerAddrForReload-      *)
(* IdxFile): the mapped state is taken as found.                           *)
ReloadCleared ==                      \* mutant: the bitmap is wiped as on creation
          /\ pc = "down"
          /\ pc' = "ready"
          /\ bitmap' = {}
          /\ UNCHANGED <<isUsed, sha1, idleLen, nextChunkid, disk, writeChunkNum, op, acked, crashes>>

Reload == /\ pc = "down"
          /\ pc' = "ready"
          /\ writeChunkNum' = 0
          /\ UNCHANGED <<index, disk, op, acked, crashes>>
---------------------------------------------------------------------------
WriteStep == \/ FillTail \/ LinkFirst \/ WriteChunk \/ Return
FaultStep == \/ FillTailFails \/ WriteChunkFails
             \/ Crash \/ CrashInFill \/ CrashInChunk \/ Reload

Next == \/ \E f \in Files, len \in WriteLens : BeginWrite(f, len)
        \/ \E f \in Files : WriteHangs(f)
        \/ WriteStep
        \/ FaultStep

Spec == Init /\ [][Next]_vars
---------------------------------------------------------------------------
(* One type invariant for the write path; op holds write()'s locals.       *)
Ops == [file : Files \cup {NoFile},
        tail : Chunks \cup {kInvalidChunkid}, chunkTail : Chunks \cup {kInvalidChunkid},
        firstWriteLen : 0..ChunkSize, lastChunkWriteLen : 0..ChunkSize,
        ids : Seq(Chunks), i : Nat \ {0}, remain : Nat, real : Nat \cup {-1}]

TypeOK ==
  /\ bitmap \subseteq Chunks
  /\ isUsed \in [Chunks -> BOOLEAN]
  /\ sha1 \in [Chunks -> Files \cup {NoFile}]
  /\ idleLen \in [Chunks -> 0..ChunkSize]
  /\ nextChunkid \in [Chunks -> Chunks \cup {kInvalidChunkid}]
  /\ disk \in [Chunks -> [Offsets -> Bytes]]
  /\ writeChunkNum \in Nat
  /\ pc \in {"ready", "first", "chunks", "return", "hung", "down"}
  /\ op \in Ops
  /\ acked \in [Files -> Nat]
  /\ crashes \in 0..MaxCrashes

(* The allocator never hands out a chunk in use: a used chunk has its bit. *)
UsedChunkMarked == \A c \in Chunks : isUsed[c] => c \in bitmap

(* What write() looked up it may still act on when it acts: the chunks it   *)
(* is going to fill are free or the file's own, its tail is the file's and *)
(* has the room that was computed.                                         *)
WriterOwnsTargets ==
  /\ pc \in {"first", "chunks"} =>
       /\ op.file \in Files /\ op.real \in Nat
       /\ \A j \in op.i .. Len(op.ids) :
            isUsed[op.ids[j]] => sha1[op.ids[j]] = op.file
  /\ pc = "first" =>
       /\ op.chunkTail \in Chunks
       /\ op.i = 1
       /\ op.firstWriteLen # 0 =>
            /\ op.tail \in Chunks
            /\ isUsed[op.tail] /\ sha1[op.tail] = op.file
            /\ op.firstWriteLen <= idleLen[op.tail]
            /\ op.firstWriteLen <= op.remain
  /\ pc = "chunks" => op.i <= Len(op.ids)

(* The sha1 of a chunk is stored after its m_isUsed, so a chunk with an    *)
(* owner is in use, however write() was interrupted.                       *)
OwnedChunkUsed == \A c \in Chunks : sha1[c] \in Files => isUsed[c]

(* Each crash costs at most one chunk: marked in the bitmap but belonging  *)
(* to no file.                                                             *)
LeakBoundedByCrashes ==
  Cardinality({c \in bitmap : ~isUsed[c] \/ sha1[c] = NoFile}) <= crashes

OthersKept ==
  \A c \in Chunks : sha1[c] \in Files \ {op.file} =>
    /\ disk'[c] = disk[c]
    /\ idleLen'[c] = idleLen[c]
    /\ sha1'[c] = sha1[c]
    /\ isUsed'[c] = isUsed[c]

(* A write to one file, whatever fails in it and wherever the process      *)
(* dies, changes neither the bytes nor the length nor the owner of a chunk *)
(* of another file, though it may relink it.                               *)
OthersUntouched == [][OthersKept]_vars
===========================================================================
