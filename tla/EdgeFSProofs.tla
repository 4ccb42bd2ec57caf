--------------------------- MODULE EdgeFSProofs ---------------------------
(***************************************************************************)
(* Proofs about the write path of EdgeFS, for every number and size of     *)
(* chunks, every set of files and hash function, with failing data writes  *)
(* and any number of process deaths.                                       *)
(***************************************************************************)
EXTENDS EdgeFS, TLAPS, SequenceTheorems, FiniteSetTheorems

(* The inductive invariant: the types, and what keeps one write off the    *)
(* chunks of other files.                                                  *)
IInv == /\ TypeOK
        /\ UsedChunkMarked
        /\ OwnedChunkUsed
        /\ WriterOwnsTargets

(* The chunks nobody uses.                                                 *)
FreeChunks == {c \in Chunks : ~isUsed[c]}
---------------------------------------------------------------------------
(* Arithmetic of calcWriteVariable.                                        *)

(* lastChunkWriteLen is never 0 and never exceeds a chunk.                 *)
LEMMA LastChunkWriteLenRange ==
  ASSUME NEW rest \in Nat
  PROVE  LastChunkWriteLen(rest) \in 1..ChunkSize
BY SizeAssumption, SMT DEF LastChunkWriteLen

(* The shorter of two lengths is a length and exceeds neither.             *)
LEMMA Min2Range ==
  ASSUME NEW a \in Nat, NEW b \in Nat
  PROVE  Min2(a, b) \in Nat /\ Min2(a, b) <= a /\ Min2(a, b) <= b
BY DEF Min2

(* needChunkNum is a count.                                                *)
LEMMA NeedChunkNumType ==
  ASSUME NEW rest \in Nat
  PROVE  NeedChunkNum(rest) \in Nat
<1>1. rest + ChunkSize - 1 \in Nat
  BY SizeAssumption
<1> QED BY <1>1, SizeAssumption, SMT DEF NeedChunkNum
---------------------------------------------------------------------------
(* The allocator.                                                          *)

(* The ascending search yields only members of the set searched.           *)
LEMMA LowestFirstType ==
  ASSUME NEW S, NEW k \in Nat, NEW s \in LowestFirst(S, k)
  PROVE  s \in Seq(S)
<1>1. s \in [1..k -> S]
  BY DEF LowestFirst
<1> QED BY <1>1, IsASeq

(* Concatenating sequences over S gives sequences over S.                  *)
LEMMA ConcatenationsType ==
  ASSUME NEW S, NEW A, A \subseteq Seq(S), NEW B, B \subseteq Seq(S)
  PROVE  Concatenations(A, B) \subseteq Seq(S)
<1> SUFFICES ASSUME NEW x \in {a \o b : a \in A, b \in B}
             PROVE  x \in Seq(S)
  BY DEF Concatenations
<1>1. PICK a \in A, b \in B : x = a \o b
  BY SMT
<1> QED BY <1>1, ConcatProperties

(* So does the random search with its ascending fallback.                  *)
LEMMA FastChoicesType ==
  ASSUME NEW S, NEW m \in Nat, NEW s \in FastChoices(S, m)
  PROVE  s \in Seq(S)
<1>1. PICK k \in 0..m : s \in Concatenations([1..k -> S], LowestFirst(S, m - k))
  <2> DEFINE K == IF S = Chunks THEN {m} ELSE 0..m
  <2>1. K \subseteq 0..m
    OBVIOUS
  <2>2. \E k \in K : s \in Concatenations([1..k -> S], LowestFirst(S, m - k))
    BY Zenon DEF FastChoices
  <2> HIDE DEF K
  <2> QED BY <2>1, <2>2
<1>2. [1..k -> S] \subseteq Seq(S)
  BY IsASeq
<1>3. LowestFirst(S, m - k) \subseteq Seq(S)
  BY LowestFirstType
<1> QED BY <1>1, <1>2, <1>3, ConcatenationsType

(* Whatever generateIdleChunkids answers are chunks nobody uses, because   *)
(* a used chunk has its bit set.                                           *)
LEMMA IdleChunkidsFree ==
  ASSUME TypeOK, UsedChunkMarked,
         NEW t \in Chunks \cup {kInvalidChunkid}, NEW need \in Nat,
         NEW ids \in IdleChunkidChoices(t, need)
  PROVE  ids \in Seq(FreeChunks)
<1> DEFINE prefix == IF t # kInvalidChunkid /\ ~isUsed[t] THEN <<t>> ELSE <<>>
           m == need - Len(prefix)
           S == IdleChunks(t)
           found == IF 2 * writeChunkNum >= NumChunks
                    THEN SteadyChoices(S, m) ELSE FastChoices(S, m)
<1>1. prefix \in Seq(FreeChunks) /\ Len(prefix) \in Nat
  <2>1. CASE t # kInvalidChunkid /\ ~isUsed[t]
    <3>1. t \in FreeChunks
      BY <2>1 DEF FreeChunks
    <3> HIDE DEF FreeChunks
    <3> QED BY <2>1, <3>1
  <2>2. CASE ~(t # kInvalidChunkid /\ ~isUsed[t])
    BY <2>2
  <2> QED BY <2>1, <2>2
<1>2. S \subseteq FreeChunks
  BY DEF IdleChunks, FreeChunks, UsedChunkMarked
<1>3. ASSUME m > 0, NEW s \in found
      PROVE  s \in Seq(FreeChunks)
  <2>1. m \in Nat
    BY <1>1, <1>3
  <2>2. s \in Seq(S)
    BY <1>3, <2>1, LowestFirstType, FastChoicesType DEF SteadyChoices
  <2> QED BY <2>2, <1>2, SeqMonotonic
<1>4. CASE m <= 0
  <2>1. ids = prefix
    BY <1>4 DEF IdleChunkidChoices
  <2> QED BY <2>1, <1>1
<1>5. CASE ~(m <= 0)
  <2>1. ids = <<>> \/ ids \in Concatenations({prefix}, found)
    BY <1>5 DEF IdleChunkidChoices
  <2>2. <<>> \in Seq(FreeChunks)
    BY EmptySeq
  <2>3. found \subseteq Seq(FreeChunks)
    BY <1>5, <1>1, <1>3
  <2>4. {prefix} \subseteq Seq(FreeChunks)
    BY <1>1
  <2> QED BY <2>1, <2>2, <2>3, <2>4, ConcatenationsType
<1> QED BY <1>4, <1>5
---------------------------------------------------------------------------
(* Effects shared by the actions.                                          *)

(* A data write touches one chunk and leaves bytes of the file in it.      *)
LEMMA BytesLandEffect ==
  ASSUME TypeOK, op.file \in Files, op.real \in Nat,
         NEW c \in Chunks, NEW offset \in Int, NEW n \in Int,
         BytesLand(c, offset, n)
  PROVE  /\ disk' \in [Chunks -> [Offsets -> Bytes]]
         /\ \A d \in Chunks \ {c} : disk'[d] = disk[d]
<1> DEFINE contents == [k \in Offsets |->
             IF k \in offset .. offset + n - 1
             THEN <<op.file, acked[op.file] + op.real + (k - offset)>> ELSE disk[c][k]]
<1>1. disk' = [disk EXCEPT ![c] = contents]
  BY DEF BytesLand, TypeOK
<1>2. contents \in [Offsets -> Bytes]
  <2> SUFFICES ASSUME NEW k \in Offsets
               PROVE  (IF k \in offset .. offset + n - 1
                       THEN <<op.file, acked[op.file] + op.real + (k - offset)>>
                       ELSE disk[c][k]) \in Bytes
    OBVIOUS
  <2>1. CASE k \in offset .. offset + n - 1
    <3>1. acked[op.file] \in Nat
      BY DEF TypeOK
    <3>2. k - offset \in Nat
      BY <2>1 DEF Offsets
    <3>3. acked[op.file] + op.real + (k - offset) \in Nat
      BY <3>1, <3>2
    <3> QED BY <2>1, <3>3 DEF Bytes
  <2>2. CASE k \notin offset .. offset + n - 1
    BY <2>2 DEF TypeOK
  <2> QED BY <2>1, <2>2
<1> HIDE DEF contents
<1> QED BY <1>1, <1>2 DEF TypeOK

(* The locals of write() in their types, one by one.                       *)
LEMMA OpFields ==
  ASSUME TypeOK
  PROVE  /\ op.file \in Files \cup {NoFile}
         /\ op.tail \in Chunks \cup {kInvalidChunkid}
         /\ op.chunkTail \in Chunks \cup {kInvalidChunkid}
         /\ op.firstWriteLen \in 0..ChunkSize
         /\ op.lastChunkWriteLen \in 0..ChunkSize
         /\ op.ids \in Seq(Chunks)
         /\ op.i \in Nat \ {0}
         /\ op.remain \in Nat
         /\ op.real \in Nat \cup {-1}
BY DEF TypeOK, Ops

(* The chunk the loop is at is one the writer may fill.                    *)
LEMMA ChunkIsTarget ==
  ASSUME IInv, pc = "chunks"
  PROVE  /\ Chunk \in Chunks
         /\ isUsed[Chunk] => sha1[Chunk] = op.file
         /\ sha1[Chunk] \notin Files \ {op.file}
         /\ op.file \in Files
         /\ op.real \in Nat
         /\ op.i \in 1..Len(op.ids)
<1>1. op.i \in 1..Len(op.ids)
  BY OpFields DEF IInv, WriterOwnsTargets
<1>2. Chunk \in Chunks
  BY <1>1, OpFields DEF Chunk, IInv
<1>3. isUsed[Chunk] => sha1[Chunk] = op.file
  BY <1>1 DEF Chunk, IInv, WriterOwnsTargets
<1> QED BY <1>1, <1>2, <1>3 DEF IInv, OwnedChunkUsed, WriterOwnsTargets

(* So is the file's last chunk when it is to be filled up.                 *)
LEMMA TailIsTarget ==
  ASSUME IInv, pc = "first", op.firstWriteLen # 0
  PROVE  /\ op.tail \in Chunks
         /\ sha1[op.tail] = op.file
         /\ op.file \in Files
         /\ op.real \in Nat
         /\ Filled \in Int
         /\ idleLen[op.tail] - op.firstWriteLen \in 0..ChunkSize
<1>1. /\ op.tail \in Chunks /\ sha1[op.tail] = op.file
      /\ op.file \in Files /\ op.real \in Nat
      /\ op.firstWriteLen <= idleLen[op.tail]
  BY DEF IInv, WriterOwnsTargets
<1>2. idleLen[op.tail] \in 0..ChunkSize
  BY <1>1 DEF IInv, TypeOK
<1>3. op.firstWriteLen \in 0..ChunkSize
  BY OpFields DEF IInv
<1> QED BY <1>1, <1>2, <1>3, SizeAssumption DEF Filled

(* A loop turn writes a count of bytes, no more than are left to write.    *)
LEMMA ChunkWriteLenRange ==
  ASSUME TypeOK
  PROVE  ChunkWriteLen \in Nat /\ ChunkWriteLen \in Int /\ ChunkWriteLen <= op.remain
<1>1. op.remain \in Nat /\ ChunkSize \in Nat
  BY OpFields, SizeAssumption
<1>2. Min2(op.remain, ChunkSize) \in Nat /\ Min2(op.remain, ChunkSize) <= op.remain
  BY <1>1, Min2Range
<1> QED BY <1>2 DEF ChunkWriteLen

(* The stores of a loop turn, cut off anywhere: they stay in type, touch   *)
(* only the chunk being filled and set its bit before it is used and used  *)
(* before it is owned.                                                     *)
LEMMA StoresEffect ==
  ASSUME IInv, pc = "chunks", NEW n \in 0..6, StoresUpTo(n)
  PROVE  /\ bitmap' \subseteq Chunks
         /\ isUsed' \in [Chunks -> BOOLEAN]
         /\ sha1' \in [Chunks -> Files \cup {NoFile}]
         /\ idleLen' \in [Chunks -> 0..ChunkSize]
         /\ nextChunkid' \in [Chunks -> Chunks \cup {kInvalidChunkid}]
         /\ UsedChunkMarked'
         /\ OwnedChunkUsed'
         /\ \A d \in Chunks \ {Chunk} :
              isUsed'[d] = isUsed[d] /\ sha1'[d] = sha1[d] /\ idleLen'[d] = idleLen[d]
         /\ n = 6 => sha1'[Chunk] = op.file
<1> USE ChunkIsTarget
<1> DEFINE c == Chunk
<1>c. c \in Chunks
  OBVIOUS
<1>1. bitmap' = (IF n >= 1 THEN bitmap \cup {c} ELSE bitmap)
  BY DEF StoresUpTo
<1>2. isUsed' = (IF n >= 2 THEN [isUsed EXCEPT ![c] = TRUE] ELSE isUsed)
  BY DEF StoresUpTo
<1>3. sha1' = (IF n >= 3 THEN [sha1 EXCEPT ![c] = op.file] ELSE sha1)
  BY DEF StoresUpTo
<1>4. /\ idleLen' \in [Chunks -> 0..ChunkSize]
      /\ \A d \in Chunks \ {c} : idleLen'[d] = idleLen[d]
  <2>1. FinalIdleLen \in 0..ChunkSize /\ ChunkSize - op.firstWriteLen \in 0..ChunkSize
    BY OpFields, SizeAssumption DEF FinalIdleLen, IInv
  <2>2. PICK v \in 0..ChunkSize :
          idleLen' = idleLen \/ idleLen' = [idleLen EXCEPT ![c] = v]
    BY <2>1 DEF StoresUpTo
  <2> HIDE DEF c
  <2> QED BY <2>2 DEF IInv, TypeOK
<1>5. nextChunkid' \in [Chunks -> Chunks \cup {kInvalidChunkid}]
  <2>1. ~IsLast => op.ids[op.i + 1] \in Chunks
    BY OpFields DEF IsLast, IInv
  <2>2. PICK v \in Chunks \cup {kInvalidChunkid} :
          nextChunkid' = nextChunkid \/ nextChunkid' = [nextChunkid EXCEPT ![c] = v]
    BY <2>1 DEF StoresUpTo
  <2> HIDE DEF c
  <2> QED BY <2>2 DEF IInv, TypeOK
<1>6. op.file \in Files
  OBVIOUS
<1> HIDE DEF c
<1>7. bitmap' \subseteq Chunks
  BY <1>1, <1>c DEF IInv, TypeOK
<1>8. isUsed' \in [Chunks -> BOOLEAN] /\ \A d \in Chunks \ {c} : isUsed'[d] = isUsed[d]
  BY <1>2, <1>c DEF IInv, TypeOK
<1>9. /\ sha1' \in [Chunks -> Files \cup {NoFile}]
      /\ \A d \in Chunks \ {c} : sha1'[d] = sha1[d]
      /\ n = 6 => sha1'[c] = op.file
  BY <1>3, <1>6, <1>c DEF IInv, TypeOK
<1>10. UsedChunkMarked'
  <2> SUFFICES ASSUME NEW d \in Chunks, isUsed'[d] PROVE d \in bitmap'
    BY DEF UsedChunkMarked
  <2>1. CASE d = c
    BY <2>1, <1>1, <1>2, <1>c DEF IInv, UsedChunkMarked
  <2>2. CASE d # c
    BY <2>2, <1>1, <1>8 DEF IInv, UsedChunkMarked
  <2> QED BY <2>1, <2>2
<1>11. OwnedChunkUsed'
  <2> SUFFICES ASSUME NEW d \in Chunks, sha1'[d] \in Files PROVE isUsed'[d]
    BY DEF OwnedChunkUsed
  <2>1. CASE d = c /\ n >= 2
    BY <2>1, <1>2, <1>c DEF IInv, TypeOK
  <2>2. CASE d = c /\ ~(n >= 2)
    <3>1. sha1' = sha1 /\ isUsed' = isUsed
      BY <2>2, <1>2, <1>3
    <3> QED BY <3>1 DEF IInv, OwnedChunkUsed
  <2>3. CASE d # c
    BY <2>3, <1>8, <1>9 DEF IInv, OwnedChunkUsed
  <2> QED BY <2>1, <2>2, <2>3
<1> QED BY <1>4, <1>5, <1>7, <1>8, <1>9, <1>10, <1>11 DEF c
---------------------------------------------------------------------------
(* The locals are in their types when no write runs.                       *)
LEMMA NoOpType == NoOp \in Ops
<1>1. <<>> \in Seq(Chunks)
  BY EmptySeq
<1>2. 0 \in 0..ChunkSize
  BY SizeAssumption
<1> QED BY <1>1, <1>2 DEF NoOp, Ops

(* One lemma per action: it keeps the invariant and the chunks of the      *)
(* other files.                                                            *)

(* The lookups and the reservation of write().                             *)
LEMMA BeginWriteStep ==
  ASSUME IInv, NEW f \in Files, NEW len \in WriteLens, BeginWrite(f, len)
  PROVE  IInv' /\ OthersKept
<1> USE DEF IInv
<1>1. PICK t \in Chunks \cup {kInvalidChunkid}, ct \in Chunks :
        /\ FileTailIs(f, t)
        /\ LET first == FirstWriteLen(t, len)
               rest == len - first
               need == NeedChunkNum(rest)
               Started(ids) ==
                 [file |-> f, tail |-> t, chunkTail |-> ct, firstWriteLen |-> first,
                  lastChunkWriteLen |-> LastChunkWriteLen(rest),
                  ids |-> ids, i |-> 1, remain |-> len, real |-> 0]
           IN \E ids \in IF need = 0 THEN {<<>>} ELSE IdleChunkidChoices(t, need) :
                IF ids = <<>> /\ need # 0
                THEN /\ pc' = "return"
                     /\ op' = [NoOp EXCEPT !.file = f, !.remain = len, !.real = -1]
                ELSE /\ pc' = "first"
                     /\ op' = Started(ids)
  BY DEF BeginWrite
<1> DEFINE first == FirstWriteLen(t, len)
           rest == len - first
           need == NeedChunkNum(rest)
<1>2. len \in Nat
  BY WriteLensAssumption
<1>3. /\ first \in 0..ChunkSize /\ first <= len
      /\ first # 0 => /\ t \in Chunks /\ isUsed[t] /\ first <= idleLen[t]
  <2>1. CASE t # kInvalidChunkid /\ isUsed[t]
    <3>1. idleLen[t] \in 0..ChunkSize
      BY <2>1 DEF TypeOK
    <3>2. first = Min2(len, idleLen[t])
      BY <2>1 DEF FirstWriteLen
    <3> QED BY <2>1, <3>1, <3>2, <1>2, SizeAssumption DEF Min2
  <2>2. CASE ~(t # kInvalidChunkid /\ isUsed[t])
    BY <2>2, <1>2, SizeAssumption DEF FirstWriteLen
  <2> QED BY <2>1, <2>2
<1>4. first # 0 => sha1[t] = f
  <2> SUFFICES ASSUME first # 0 PROVE sha1[t] = f
    OBVIOUS
  <2>1. isUsed[t] /\ t # kInvalidChunkid
    BY <1>3 DEF Chunks, kInvalidChunkid
  <2>2. FileTailIs(f, t)
    BY <1>1
  <2>3. \E i \in 0..NumChunks : t = Walk(HashKey[f])[i] /\ sha1[Walk(HashKey[f])[i]] = f
    BY <2>1, <2>2, Zenon DEF FileTailIs
  <2> QED BY <2>3
<1>5. rest \in Nat /\ need \in Nat /\ LastChunkWriteLen(rest) \in 0..ChunkSize
  BY <1>2, <1>3, NeedChunkNumType, LastChunkWriteLenRange
<1> HIDE DEF first, rest, need
<1>6. PICK ids \in IF need = 0 THEN {<<>>} ELSE IdleChunkidChoices(t, need) :
        IF ids = <<>> /\ need # 0
        THEN /\ pc' = "return"
             /\ op' = [NoOp EXCEPT !.file = f, !.remain = len, !.real = -1]
        ELSE /\ pc' = "first"
             /\ op' = [file |-> f, tail |-> t, chunkTail |-> ct, firstWriteLen |-> first,
                       lastChunkWriteLen |-> LastChunkWriteLen(rest),
                       ids |-> ids, i |-> 1, remain |-> len, real |-> 0]
  BY <1>1 DEF first, rest, need
<1>7. ids \in Seq(FreeChunks)
  BY <1>5, <1>6, IdleChunkidsFree, EmptySeq
<1>8. ids \in Seq(Chunks) /\ \A j \in 1..Len(ids) : ids[j] \in Chunks /\ ~isUsed[ids[j]]
  <2>1. FreeChunks \subseteq Chunks
    BY DEF FreeChunks
  <2>2. \A j \in 1..Len(ids) : ids[j] \in FreeChunks
    BY <1>7, ElementOfSeq
  <2> QED BY <1>7, <2>1, <2>2, SeqMonotonic DEF FreeChunks
<1>9. UNCHANGED <<index, disk, writeChunkNum, acked, crashes>>
  BY DEF BeginWrite
<1>10. OthersKept /\ UsedChunkMarked' /\ OwnedChunkUsed'
  BY <1>9 DEF OthersKept, UsedChunkMarked, OwnedChunkUsed, index
<1>11. CASE ids = <<>> /\ need # 0
  <2>1. pc' = "return"
    BY <1>6, <1>11
  <2>2. op' \in Ops
    <3>1. op' = [NoOp EXCEPT !.file = f, !.remain = len, !.real = -1]
      BY <1>6, <1>11
    <3>2. NoOp \in Ops
      BY NoOpType
    <3> QED BY <3>1, <3>2, <1>2 DEF Ops
  <2>3. TypeOK'
    BY <1>9, <2>1, <2>2 DEF TypeOK, index
  <2>4. WriterOwnsTargets'
    BY <2>1 DEF WriterOwnsTargets
  <2> QED BY <1>10, <2>3, <2>4
<1>12. CASE ~(ids = <<>> /\ need # 0)
  <2>1. pc' = "first"
    BY <1>6, <1>12
  <2>2. op' = [file |-> f, tail |-> t, chunkTail |-> ct, firstWriteLen |-> first,
               lastChunkWriteLen |-> LastChunkWriteLen(rest),
               ids |-> ids, i |-> 1, remain |-> len, real |-> 0]
    BY <1>6, <1>12
  <2>3. op' \in Ops
    BY <2>2, <1>2, <1>3, <1>5, <1>8 DEF Ops
  <2>4. TypeOK'
    BY <1>9, <2>1, <2>3 DEF TypeOK, index
  <2>5. WriterOwnsTargets'
    <3>1. /\ op'.file = f /\ op'.real = 0 /\ op'.i = 1 /\ op'.ids = ids
          /\ op'.chunkTail = ct /\ op'.tail = t /\ op'.firstWriteLen = first
          /\ op'.remain = len
      BY <2>2
    <3>2. isUsed' = isUsed /\ sha1' = sha1 /\ idleLen' = idleLen
      BY <1>9 DEF index
    <3> QED BY <3>1, <3>2, <2>1, <1>3, <1>4, <1>8 DEF WriterOwnsTargets
  <2> QED BY <1>10, <2>4, <2>5
<1> QED BY <1>11, <1>12

(* A hanging lookup changes nothing that is stored.                        *)
LEMMA WriteHangsStep ==
  ASSUME IInv, NEW f \in Files, WriteHangs(f)
  PROVE  IInv' /\ OthersKept
BY DEF IInv, WriteHangs, index, OthersKept, TypeOK, UsedChunkMarked, OwnedChunkUsed,
       WriterOwnsTargets

(* Filling the file's last chunk.                                          *)
LEMMA FillTailStep ==
  ASSUME IInv, FillTail
  PROVE  IInv' /\ OthersKept
<1> USE DEF IInv
<1>1. /\ pc = "first" /\ op.firstWriteLen # 0
      /\ BytesLand(op.tail, Filled, op.firstWriteLen)
      /\ idleLen' = [idleLen EXCEPT ![op.tail] = @ - op.firstWriteLen]
      /\ nextChunkid' = IF idleLen'[op.tail] = 0
                        THEN [nextChunkid EXCEPT ![op.chunkTail] = FirstIdle]
                        ELSE nextChunkid
      /\ op' = [op EXCEPT !.real = @ + op.firstWriteLen, !.remain = @ - op.firstWriteLen]
      /\ pc' = AfterFirst
      /\ UNCHANGED <<bitmap, isUsed, sha1, writeChunkNum, acked, crashes>>
  BY DEF FillTail
<1>2. /\ op.tail \in Chunks /\ sha1[op.tail] = op.file /\ op.file \in Files
      /\ op.real \in Nat /\ Filled \in Int
      /\ idleLen[op.tail] - op.firstWriteLen \in 0..ChunkSize
  BY <1>1, TailIsTarget
<1>3. op.firstWriteLen \in 0..ChunkSize /\ op.firstWriteLen \in Int /\ op.ids \in Seq(Chunks)
  BY OpFields, SizeAssumption
<1>4. /\ disk' \in [Chunks -> [Offsets -> Bytes]]
      /\ \A d \in Chunks \ {op.tail} : disk'[d] = disk[d]
  BY <1>1, <1>2, <1>3, BytesLandEffect
<1>5. /\ idleLen' \in [Chunks -> 0..ChunkSize]
      /\ \A d \in Chunks \ {op.tail} : idleLen'[d] = idleLen[d]
  BY <1>1, <1>2 DEF TypeOK
<1>6. nextChunkid' \in [Chunks -> Chunks \cup {kInvalidChunkid}]
  <2>1. FirstIdle \in Chunks \cup {kInvalidChunkid}
    BY <1>3 DEF FirstIdle
  <2> QED BY <2>1, <1>1 DEF TypeOK
<1>7. op' \in Ops /\ op'.file = op.file /\ op'.ids = op.ids /\ op'.i = op.i /\ op'.real \in Nat
  <2>1. op.remain - op.firstWriteLen \in Nat
    BY <1>1, <1>3, OpFields DEF WriterOwnsTargets
  <2>2. op.real + op.firstWriteLen \in Nat
    BY <1>2, <1>3
  <2> QED BY <1>1, <2>1, <2>2 DEF TypeOK, Ops
<1>8. pc' \in {"return", "chunks"} /\ (pc' = "chunks" => op.i = 1 /\ 1 <= Len(op.ids))
  <2>1. op.i = 1
    BY <1>1 DEF WriterOwnsTargets
  <2> QED BY <2>1, <1>1, <1>3, EmptySeq, LenProperties DEF AfterFirst
<1>9. TypeOK'
  BY <1>1, <1>4, <1>5, <1>6, <1>7, <1>8 DEF TypeOK
<1>10. UsedChunkMarked' /\ OwnedChunkUsed'
  BY <1>1 DEF UsedChunkMarked, OwnedChunkUsed
<1>11. WriterOwnsTargets'
  BY <1>1, <1>2, <1>7, <1>8 DEF WriterOwnsTargets
<1>12. OthersKept
  <2> SUFFICES ASSUME NEW d \in Chunks, sha1[d] \in Files \ {op.file}
               PROVE  disk'[d] = disk[d] /\ idleLen'[d] = idleLen[d]
                      /\ sha1'[d] = sha1[d] /\ isUsed'[d] = isUsed[d]
    BY DEF OthersKept
  <2>1. d # op.tail
    BY <1>2
  <2> QED BY <2>1, <1>1, <1>4, <1>5
<1> QED BY <1>9, <1>10, <1>11, <1>12

(* A failed or short write into the file's last chunk.                     *)
LEMMA FillTailFailsStep ==
  ASSUME IInv, FillTailFails
  PROVE  IInv' /\ OthersKept
<1> USE DEF IInv
<1>1. PICK k \in 0 .. op.firstWriteLen - 1 :
        /\ pc = "first" /\ op.firstWriteLen # 0
        /\ BytesLand(op.tail, Filled, k)
        /\ pc' = "return"
        /\ UNCHANGED <<index, writeChunkNum, op, acked, crashes>>
  BY DEF FillTailFails
<1>2. /\ op.tail \in Chunks /\ sha1[op.tail] = op.file /\ op.file \in Files
      /\ op.real \in Nat /\ Filled \in Int
  BY <1>1, TailIsTarget
<1>3. /\ disk' \in [Chunks -> [Offsets -> Bytes]]
      /\ \A d \in Chunks \ {op.tail} : disk'[d] = disk[d]
  BY <1>1, <1>2, BytesLandEffect
<1>4. TypeOK' /\ UsedChunkMarked' /\ OwnedChunkUsed' /\ WriterOwnsTargets'
  BY <1>1, <1>3 DEF TypeOK, UsedChunkMarked, OwnedChunkUsed, WriterOwnsTargets, index
<1>5. OthersKept
  BY <1>1, <1>2, <1>3 DEF OthersKept, index
<1> QED BY <1>4, <1>5

(* Linking the list to the first new chunk.                                *)
LEMMA LinkFirstStep ==
  ASSUME IInv, LinkFirst
  PROVE  IInv' /\ OthersKept
<1> USE DEF IInv
<1>1. /\ pc = "first"
      /\ nextChunkid' = IF op.ids = <<>> THEN nextChunkid
                        ELSE [nextChunkid EXCEPT ![op.chunkTail] = FirstIdle]
      /\ pc' = AfterFirst
      /\ UNCHANGED <<bitmap, isUsed, sha1, idleLen, disk, writeChunkNum, op, acked, crashes>>
  BY DEF LinkFirst
<1>2. op.ids \in Seq(Chunks) /\ op.i = 1
  BY <1>1, OpFields DEF WriterOwnsTargets
<1>3. nextChunkid' \in [Chunks -> Chunks \cup {kInvalidChunkid}]
  <2>1. FirstIdle \in Chunks \cup {kInvalidChunkid}
    BY <1>2 DEF FirstIdle
  <2> QED BY <2>1, <1>1 DEF TypeOK
<1>4. pc' \in {"return", "chunks"} /\ (pc' = "chunks" => 1 <= Len(op.ids))
  BY <1>1, <1>2, EmptySeq, LenProperties DEF AfterFirst
<1>5. TypeOK'
  BY <1>1, <1>3, <1>4 DEF TypeOK
<1>6. UsedChunkMarked' /\ OwnedChunkUsed' /\ OthersKept
  BY <1>1 DEF UsedChunkMarked, OwnedChunkUsed, OthersKept
<1>7. WriterOwnsTargets'
  BY <1>1, <1>2, <1>4 DEF WriterOwnsTargets
<1> QED BY <1>5, <1>6, <1>7

(* One turn of the loop.                                                   *)
LEMMA WriteChunkStep ==
  ASSUME IInv, WriteChunk
  PROVE  IInv' /\ OthersKept
<1> USE DEF IInv
<1>1. /\ pc = "chunks"
      /\ BytesLand(Chunk, 0, ChunkWriteLen)
      /\ StoresUpTo(6)
      /\ writeChunkNum' = writeChunkNum + 1
      /\ op' = [op EXCEPT !.real = @ + ChunkWriteLen, !.remain = @ - ChunkWriteLen, !.i = @ + 1]
      /\ pc' = IF IsLast THEN "return" ELSE "chunks"
      /\ UNCHANGED <<acked, crashes>>
  BY DEF WriteChunk
<1>2. /\ Chunk \in Chunks /\ sha1[Chunk] \notin Files \ {op.file} /\ op.file \in Files
      /\ op.real \in Nat /\ op.i \in 1..Len(op.ids)
  BY <1>1, ChunkIsTarget
<1>3. ChunkWriteLen \in Nat /\ ChunkWriteLen \in Int /\ ChunkWriteLen <= op.remain
  BY ChunkWriteLenRange
<1>4. /\ disk' \in [Chunks -> [Offsets -> Bytes]]
      /\ \A d \in Chunks \ {Chunk} : disk'[d] = disk[d]
  <2>1. PICK n \in Int : BytesLand(Chunk, 0, n)
    BY <1>1, <1>3
  <2> QED BY <2>1, <1>2, BytesLandEffect
<1>5. /\ bitmap' \subseteq Chunks
      /\ isUsed' \in [Chunks -> BOOLEAN]
      /\ sha1' \in [Chunks -> Files \cup {NoFile}]
      /\ idleLen' \in [Chunks -> 0..ChunkSize]
      /\ nextChunkid' \in [Chunks -> Chunks \cup {kInvalidChunkid}]
      /\ UsedChunkMarked' /\ OwnedChunkUsed'
      /\ \A d \in Chunks \ {Chunk} :
           isUsed'[d] = isUsed[d] /\ sha1'[d] = sha1[d] /\ idleLen'[d] = idleLen[d]
      /\ sha1'[Chunk] = op.file
  BY <1>1, StoresEffect
<1>6. /\ op' \in Ops /\ op'.file = op.file /\ op'.ids = op.ids
      /\ op'.i = op.i + 1 /\ op'.real \in Nat
  <2>1. op.remain - ChunkWriteLen \in Nat /\ op.real + ChunkWriteLen \in Nat
    BY <1>2, <1>3, OpFields
  <2>2. op.i + 1 \in Nat \ {0}
    BY OpFields
  <2> QED BY <2>1, <2>2, <1>1 DEF TypeOK, Ops
<1>7. pc' \in {"return", "chunks"} /\ (pc' = "chunks" => op.i + 1 <= Len(op.ids))
  <2>1. Len(op.ids) \in Nat
    BY OpFields, LenProperties
  <2> QED BY <2>1, <1>1, <1>2 DEF IsLast
<1>8. TypeOK'
  BY <1>1, <1>4, <1>5, <1>6, <1>7 DEF TypeOK
<1>9. WriterOwnsTargets'
  <2>1. ASSUME NEW j \in op'.i .. Len(op'.ids), isUsed'[op'.ids[j]]
        PROVE  sha1'[op'.ids[j]] = op'.file
    <3>1. j \in op.i .. Len(op.ids) /\ j \in 1..Len(op.ids)
      BY <2>1, <1>2, <1>6
    <3>2. op.ids[j] \in Chunks
      BY <3>1, OpFields
    <3>3. isUsed[op.ids[j]] => sha1[op.ids[j]] = op.file
      BY <1>1, <3>1 DEF WriterOwnsTargets
    <3>4. CASE op.ids[j] = Chunk
      BY <3>4, <1>5, <1>6
    <3>5. CASE op.ids[j] # Chunk
      BY <3>5, <3>2, <3>3, <2>1, <1>5, <1>6
    <3> QED BY <3>4, <3>5
  <2> QED BY <2>1, <1>2, <1>6, <1>7 DEF WriterOwnsTargets
<1>10. OthersKept
  BY <1>2, <1>4, <1>5 DEF OthersKept
<1> QED BY <1>5, <1>8, <1>9, <1>10

(* A failed or short data write in the loop.                               *)
LEMMA WriteChunkFailsStep ==
  ASSUME IInv, WriteChunkFails
  PROVE  IInv' /\ OthersKept
<1> USE DEF IInv
<1>1. PICK k \in 0 .. ChunkWriteLen - 1 :
        /\ pc = "chunks"
        /\ BytesLand(Chunk, 0, k)
        /\ pc' = "return"
        /\ UNCHANGED <<index, writeChunkNum, op, acked, crashes>>
  BY DEF WriteChunkFails
<1>2. /\ Chunk \in Chunks /\ sha1[Chunk] \notin Files \ {op.file} /\ op.file \in Files
      /\ op.real \in Nat
  BY <1>1, ChunkIsTarget
<1>3. /\ disk' \in [Chunks -> [Offsets -> Bytes]]
      /\ \A d \in Chunks \ {Chunk} : disk'[d] = disk[d]
  BY <1>1, <1>2, BytesLandEffect
<1>4. TypeOK' /\ UsedChunkMarked' /\ OwnedChunkUsed' /\ WriterOwnsTargets'
  BY <1>1, <1>3 DEF TypeOK, UsedChunkMarked, OwnedChunkUsed, WriterOwnsTargets, index
<1>5. OthersKept
  BY <1>1, <1>2, <1>3 DEF OthersKept, index
<1> QED BY <1>4, <1>5

(* The answer to the caller.                                               *)
LEMMA ReturnStep ==
  ASSUME IInv, Return
  PROVE  IInv' /\ OthersKept
<1> USE DEF IInv
<1>1. /\ acked' = IF op.real > 0 THEN [acked EXCEPT ![op.file] = @ + op.real] ELSE acked
      /\ op' = NoOp /\ pc' = "ready"
      /\ UNCHANGED <<index, disk, writeChunkNum, crashes>>
  BY DEF Return
<1>2. acked' \in [Files -> Nat]
  <2>1. CASE op.file \in Files /\ op.real > 0
    <3>1. acked[op.file] + op.real \in Nat
      BY <2>1, OpFields DEF TypeOK
    <3> QED BY <2>1, <3>1, <1>1 DEF TypeOK
  <2>2. CASE op.file \notin Files \/ ~(op.real > 0)
    <3>1. acked' = acked
      BY <2>2, <1>1 DEF TypeOK
    <3> QED BY <3>1 DEF TypeOK
  <2> QED BY <2>1, <2>2
<1>3. TypeOK'
  BY <1>1, <1>2, NoOpType DEF TypeOK, index
<1> QED BY <1>1, <1>3 DEF UsedChunkMarked, OwnedChunkUsed, WriterOwnsTargets, OthersKept, index

(* The process dies; what remains of Die is common to all its forms.       *)
LEMMA DieEffect ==
  ASSUME IInv, Die
  PROVE  /\ pc' = "down" /\ op' \in Ops /\ writeChunkNum' \in Nat
         /\ acked' \in [Files -> Nat] /\ crashes' \in 0..MaxCrashes
         /\ WriterOwnsTargets'
<1>1. crashes + 1 \in 0..MaxCrashes
  BY FaultAssumption DEF IInv, TypeOK, Die
<1> QED BY <1>1, NoOpType DEF Die, IInv, TypeOK, WriterOwnsTargets

(* It dies between two steps.                                              *)
LEMMA CrashStep ==
  ASSUME IInv, Crash
  PROVE  IInv' /\ OthersKept
<1>1. Die /\ UNCHANGED <<index, disk>>
  BY DEF Crash
<1> QED BY <1>1, DieEffect
        DEF IInv, TypeOK, UsedChunkMarked, OwnedChunkUsed, OthersKept, index

(* It dies while the file's last chunk is filled.                          *)
LEMMA CrashInFillStep ==
  ASSUME IInv, CrashInFill
  PROVE  IInv' /\ OthersKept
<1> USE DEF IInv
<1>1. PICK k \in 1 .. op.firstWriteLen :
        /\ pc = "first" /\ op.firstWriteLen # 0
        /\ BytesLand(op.tail, Filled, k)
        /\ \/ UNCHANGED idleLen
           \/ idleLen' = [idleLen EXCEPT ![op.tail] = @ - op.firstWriteLen]
        /\ Die
        /\ UNCHANGED <<bitmap, isUsed, sha1, nextChunkid>>
  BY DEF CrashInFill
<1>2. /\ op.tail \in Chunks /\ sha1[op.tail] = op.file /\ op.file \in Files
      /\ op.real \in Nat /\ Filled \in Int
      /\ idleLen[op.tail] - op.firstWriteLen \in 0..ChunkSize
  BY <1>1, TailIsTarget
<1>3. /\ disk' \in [Chunks -> [Offsets -> Bytes]]
      /\ \A d \in Chunks \ {op.tail} : disk'[d] = disk[d]
  BY <1>1, <1>2, BytesLandEffect
<1>4. /\ idleLen' \in [Chunks -> 0..ChunkSize]
      /\ \A d \in Chunks \ {op.tail} : idleLen'[d] = idleLen[d]
  BY <1>1, <1>2 DEF TypeOK
<1>5. TypeOK' /\ WriterOwnsTargets'
  BY <1>1, <1>3, <1>4, DieEffect DEF TypeOK
<1>6. UsedChunkMarked' /\ OwnedChunkUsed'
  BY <1>1 DEF UsedChunkMarked, OwnedChunkUsed
<1>7. OthersKept
  BY <1>1, <1>2, <1>3, <1>4 DEF OthersKept
<1> QED BY <1>5, <1>6, <1>7

(* It dies inside a turn of the loop.                                      *)
LEMMA CrashInChunkStep ==
  ASSUME IInv, CrashInChunk
  PROVE  IInv' /\ OthersKept
<1> USE DEF IInv
<1>1. pc = "chunks" /\ Die
  BY DEF CrashInChunk
<1>2. PICK n \in 0..6, k \in Int : BytesLand(Chunk, 0, k) /\ StoresUpTo(n)
  <2>1. \/ \E k \in 1 .. ChunkWriteLen : BytesLand(Chunk, 0, k) /\ StoresUpTo(0)
        \/ \E n \in 1..5 : BytesLand(Chunk, 0, ChunkWriteLen) /\ StoresUpTo(n)
    BY DEF CrashInChunk
  <2>2. CASE \E k \in 1 .. ChunkWriteLen : BytesLand(Chunk, 0, k) /\ StoresUpTo(0)
    <3>1. PICK k \in 1 .. ChunkWriteLen : BytesLand(Chunk, 0, k) /\ StoresUpTo(0)
      BY <2>2
    <3>2. k \in Int /\ 0 \in 0..6
      OBVIOUS
    <3> QED BY <3>1, <3>2
  <2>3. CASE \E n \in 1..5 : BytesLand(Chunk, 0, ChunkWriteLen) /\ StoresUpTo(n)
    <3>1. PICK n \in 1..5 : BytesLand(Chunk, 0, ChunkWriteLen) /\ StoresUpTo(n)
      BY <2>3
    <3>2. n \in 0..6 /\ ChunkWriteLen \in Int
      BY ChunkWriteLenRange
    <3> QED BY <3>1, <3>2
  <2> QED BY <2>1, <2>2, <2>3
<1>3. /\ Chunk \in Chunks /\ sha1[Chunk] \notin Files \ {op.file} /\ op.file \in Files
      /\ op.real \in Nat
  BY <1>1, ChunkIsTarget
<1>4. /\ disk' \in [Chunks -> [Offsets -> Bytes]]
      /\ \A d \in Chunks \ {Chunk} : disk'[d] = disk[d]
  BY <1>2, <1>3, BytesLandEffect
<1>5. /\ bitmap' \subseteq Chunks
      /\ isUsed' \in [Chunks -> BOOLEAN]
      /\ sha1' \in [Chunks -> Files \cup {NoFile}]
      /\ idleLen' \in [Chunks -> 0..ChunkSize]
      /\ nextChunkid' \in [Chunks -> Chunks \cup {kInvalidChunkid}]
      /\ UsedChunkMarked' /\ OwnedChunkUsed'
      /\ \A d \in Chunks \ {Chunk} :
           isUsed'[d] = isUsed[d] /\ sha1'[d] = sha1[d] /\ idleLen'[d] = idleLen[d]
  BY <1>1, <1>2, StoresEffect
<1>6. TypeOK' /\ WriterOwnsTargets'
  BY <1>1, <1>4, <1>5, DieEffect DEF TypeOK
<1>7. OthersKept
  BY <1>3, <1>4, <1>5 DEF OthersKept
<1> QED BY <1>5, <1>6, <1>7

(* The restart takes the index file as it is.                              *)
LEMMA ReloadStep ==
  ASSUME IInv, Reload
  PROVE  IInv' /\ OthersKept
BY DEF IInv, Reload, TypeOK, UsedChunkMarked, OwnedChunkUsed, WriterOwnsTargets, OthersKept, index
---------------------------------------------------------------------------
(* A new file system satisfies the invariant.                              *)
LEMMA InitInv == Init => IInv
<1> SUFFICES ASSUME Init PROVE IInv
  OBVIOUS
<1>1. TypeOK
  <2>1. 0 \in Chunks /\ 0 \in 0..ChunkSize /\ 0 \in 0..MaxCrashes
    BY SizeAssumption, FaultAssumption DEF Chunks
  <2>2. nextChunkid \in [Chunks -> Chunks \cup {kInvalidChunkid}]
    BY <2>1 DEF Init
  <2>3. disk \in [Chunks -> [Offsets -> Bytes]]
    <3>1. <<NoFile, 0>> \in Bytes
      BY DEF Bytes
    <3>2. [k \in Offsets |-> <<NoFile, 0>>] \in [Offsets -> Bytes]
      BY <3>1
    <3> QED BY <3>2 DEF Init
  <2>4. idleLen \in [Chunks -> 0..ChunkSize] /\ bitmap \subseteq Chunks
    BY <2>1 DEF Init
  <2>5. isUsed \in [Chunks -> BOOLEAN] /\ sha1 \in [Chunks -> Files \cup {NoFile}]
    BY DEF Init
  <2>6. op \in Ops
    BY NoOpType DEF Init
  <2>7. acked \in [Files -> Nat] /\ writeChunkNum \in Nat /\ crashes \in 0..MaxCrashes
    BY <2>1 DEF Init
  <2> QED BY <2>2, <2>3, <2>4, <2>5, <2>6, <2>7 DEF Init, TypeOK
<1>2. UsedChunkMarked /\ OwnedChunkUsed /\ WriterOwnsTargets
  BY FilesAssumption DEF Init, UsedChunkMarked, OwnedChunkUsed, WriterOwnsTargets
<1> QED BY <1>1, <1>2 DEF IInv

(* Every step keeps the invariant and the chunks of the other files.       *)
LEMMA NextStep ==
  ASSUME IInv, Next
  PROVE  IInv' /\ OthersKept
<1>1. CASE \E f \in Files, len \in WriteLens : BeginWrite(f, len)
  BY <1>1, BeginWriteStep
<1>2. CASE \E f \in Files : WriteHangs(f)
  BY <1>2, WriteHangsStep
<1>3. CASE WriteStep
  BY <1>3, FillTailStep, LinkFirstStep, WriteChunkStep, ReturnStep DEF WriteStep
<1>4. CASE FaultStep
  BY <1>4, FillTailFailsStep, WriteChunkFailsStep, CrashStep, CrashInFillStep,
     CrashInChunkStep, ReloadStep DEF FaultStep
<1> QED BY <1>1, <1>2, <1>3, <1>4 DEF Next

(* A step that changes no variable keeps the invariant.                    *)
LEMMA StutterStep ==
  ASSUME IInv, UNCHANGED vars
  PROVE  IInv'
BY DEF IInv, vars, index, TypeOK, UsedChunkMarked, OwnedChunkUsed, WriterOwnsTargets

(* The inductive invariant holds in every reachable state.                 *)
THEOREM Invariance == Spec => []IInv
<1>1. IInv /\ [Next]_vars => IInv'
  BY NextStep, StutterStep
<1> QED BY InitInv, <1>1, PTL DEF Spec

(* The types of the index file, the data file and write()'s locals hold    *)
(* for every size of the disk and of the writes.                           *)
THEOREM TypeCorrect == Spec => []TypeOK
<1>1. IInv => TypeOK
  BY DEF IInv
<1> QED BY <1>1, Invariance, PTL

(* A used chunk is marked in the bitmap in every state, so the allocator   *)
(* never offers a chunk in use, also after crashes between the stores.     *)
THEOREM UsedMarked == Spec => []UsedChunkMarked
<1>1. IInv => UsedChunkMarked
  BY DEF IInv
<1> QED BY <1>1, Invariance, PTL

(* Between its lookups and its stores write() never comes to act on a      *)
(* chunk of another file.                                                  *)
THEOREM OwnsTargets == Spec => []WriterOwnsTargets
<1>1. IInv => WriterOwnsTargets
  BY DEF IInv
<1> QED BY <1>1, Invariance, PTL

(* No write() to one file, failed, interrupted or complete, alters bytes,  *)
(* length or owner of a chunk of another file.                             *)
THEOREM Isolation == Spec => OthersUntouched
<1>1. IInv /\ [Next]_vars => [OthersKept]_vars
  BY NextStep
<1> QED BY <1>1, Invariance, PTL DEF Spec, OthersUntouched

(* A chunk with an owner is in use in every state: the sha1 is stored      *)
(* after m_isUsed, and neither is ever taken back.                         *)
THEOREM OwnedUsed == Spec => []OwnedChunkUsed
<1>1. IInv => OwnedChunkUsed
  BY DEF IInv
<1> QED BY <1>1, Invariance, PTL
---------------------------------------------------------------------------
(* The chunks lost: marked in the bitmap but belonging to no file.         *)
Leaked == {c \in bitmap : ~isUsed[c] \/ sha1[c] = NoFile}

(* The set of chunks is finite, and so is any set of lost chunks.          *)
LEMMA LeakedFinite ==
  ASSUME IInv
  PROVE  IsFiniteSet(Leaked)
<1>1. IsFiniteSet(Chunks)
  BY FS_Interval, SizeAssumption DEF Chunks
<1>2. Leaked \in SUBSET Chunks
  BY DEF IInv, TypeOK, Leaked
<1> QED BY <1>1, <1>2, FS_Subset

(* A step of the loop, complete or cut off, may mark the chunk it fills    *)
(* and loses no other; no other step loses a chunk at all, and what adds   *)
(* the marked chunk without its owner is a process death.                  *)
LEMMA LeakedStep ==
  ASSUME IInv, Next
  PROVE  \/ Leaked' \subseteq Leaked /\ crashes' \in {crashes, crashes + 1}
         \/ Leaked' \subseteq Leaked \cup {Chunk} /\ crashes' = crashes + 1
<1> USE DEF IInv
<1>1. CASE \E f \in Files, len \in WriteLens : BeginWrite(f, len)
  BY <1>1 DEF BeginWrite, Leaked, index
<1>2. CASE \E f \in Files : WriteHangs(f)
  BY <1>2 DEF WriteHangs, Leaked, index
<1>3. CASE FillTail \/ LinkFirst \/ Return \/ FillTailFails \/ WriteChunkFails \/ Reload
  BY <1>3 DEF FillTail, LinkFirst, Return, FillTailFails, WriteChunkFails, Reload, Leaked, index
<1>4. CASE WriteChunk
  <2>1. pc = "chunks" /\ StoresUpTo(6) /\ crashes' = crashes
    BY <1>4 DEF WriteChunk
  <2>2. /\ bitmap' = bitmap \cup {Chunk}
        /\ isUsed' = [isUsed EXCEPT ![Chunk] = TRUE]
        /\ sha1' = [sha1 EXCEPT ![Chunk] = op.file]
    BY <2>1 DEF StoresUpTo
  <2>3. Chunk \in Chunks /\ op.file \in Files
    BY <2>1, ChunkIsTarget
  <2>4. Leaked' \subseteq Leaked
    BY <2>2, <2>3, FilesAssumption DEF Leaked, TypeOK
  <2> QED BY <2>1, <2>4
<1>5. CASE Crash \/ CrashInFill
  BY <1>5 DEF Crash, CrashInFill, Die, Leaked, index
<1>6. CASE CrashInChunk
  <2>1. PICK n \in 0..5 : StoresUpTo(n)
    BY <1>6 DEF CrashInChunk
  <2>2. /\ bitmap' \subseteq bitmap \cup {Chunk}
        /\ \A d \in Chunks \ {Chunk} : isUsed'[d] = isUsed[d] /\ sha1'[d] = sha1[d]
    <3>1. pc = "chunks" /\ n \in 0..6
      BY <1>6 DEF CrashInChunk
    <3>2. \A d \in Chunks \ {Chunk} : isUsed'[d] = isUsed[d] /\ sha1'[d] = sha1[d]
      BY <3>1, <2>1, StoresEffect
    <3> QED BY <2>1, <3>2 DEF StoresUpTo
  <2>3. Leaked' \subseteq Leaked \cup {Chunk}
    BY <2>2 DEF Leaked, TypeOK
  <2> QED BY <1>6, <2>3 DEF CrashInChunk, Die
<1> QED BY <1>1, <1>2, <1>3, <1>4, <1>5, <1>6 DEF Next, WriteStep, FaultStep

(* A chunk is lost only to a process death between the store of its bit    *)
(* and that of its owner, one at most to each: no failed or refused write  *)
(* and no restart loses one.                                               *)
THEOREM LeakBounded == Spec => []LeakBoundedByCrashes
<1>1. Init => LeakBoundedByCrashes
  <2> SUFFICES ASSUME Init PROVE LeakBoundedByCrashes
    OBVIOUS
  <2>1. {c \in bitmap : ~isUsed[c] \/ sha1[c] = NoFile} = {} /\ crashes = 0
    BY DEF Init
  <2>2. Cardinality({}) = 0
    BY FS_EmptySet
  <2> QED BY <2>1, <2>2 DEF LeakBoundedByCrashes
<1>2. IInv /\ LeakBoundedByCrashes /\ [Next]_vars => LeakBoundedByCrashes'
  <2> SUFFICES ASSUME IInv, LeakBoundedByCrashes, [Next]_vars
               PROVE  LeakBoundedByCrashes'
    OBVIOUS
  <2> DEFINE old == Leaked
             new == Leaked'
  <2>1. Cardinality(old) <= crashes /\ (LeakBoundedByCrashes' <=> Cardinality(new) <= crashes')
    BY DEF LeakBoundedByCrashes, Leaked
  <2>2. IsFiniteSet(old) /\ Cardinality(old) \in Nat /\ crashes \in Nat
    BY LeakedFinite, FS_CardinalityType DEF IInv, TypeOK
  <2>3. CASE Next
    <3>1. \/ new \subseteq old /\ crashes' \in {crashes, crashes + 1}
          \/ new \subseteq old \cup {Chunk} /\ crashes' = crashes + 1
      BY <2>3, LeakedStep
    <3> HIDE DEF old, new
    <3>2. CASE new \subseteq old /\ crashes' \in {crashes, crashes + 1}
      <4>1. IsFiniteSet(new) /\ Cardinality(new) <= Cardinality(old)
        BY <2>2, <3>2, FS_Subset
      <4>2. Cardinality(new) \in Nat
        BY <4>1, FS_CardinalityType
      <4> QED BY <4>1, <4>2, <3>2, <2>1, <2>2
    <3>3. CASE new \subseteq old \cup {Chunk} /\ crashes' = crashes + 1
      <4> DEFINE more == old \cup {Chunk}
      <4>1. IsFiniteSet(more) /\ Cardinality(more) <= Cardinality(old) + 1
        BY <2>2, FS_AddElement
      <4>2. new \in SUBSET more
        BY <3>3
      <4> HIDE DEF more
      <4>3. IsFiniteSet(new) /\ Cardinality(new) <= Cardinality(more)
        BY <4>1, <4>2, FS_Subset
      <4>4. Cardinality(new) \in Nat /\ Cardinality(more) \in Nat
        BY <4>1, <4>3, FS_CardinalityType
      <4> QED BY <4>1, <4>3, <4>4, <3>3, <2>1, <2>2
    <3> QED BY <3>1, <3>2, <3>3
  <2>4. CASE UNCHANGED vars
    BY <2>4, <2>1 DEF vars, index, Leaked
  <2> QED BY <2>3, <2>4
<1> QED BY <1>1, <1>2, Invariance, PTL DEF Spec
===========================================================================
