------------------------- MODULE EdgeFSReadProofs -------------------------
(***************************************************************************)
(* Proofs of what readers and writers of EdgeFS may expect, on top of the  *)
(* invariant of the write path.                                            *)
(***************************************************************************)
EXTENDS EdgeFSRead, EdgeFSProofs, SetInduction

(* Dividing by the chunk size keeps the order.                             *)
LEMMA DivisionMonotone ==
  ASSUME NEW a \in Nat, NEW b \in Nat, a <= b, NEW c \in Nat \ {0}
  PROVE  a \div c <= b \div c
<1> DEFINE x == a \div c  y == b \div c
<1>1. x \in Int /\ c * x <= a /\ y \in Int /\ b < c * (y + 1)
  BY SMT
<1> HIDE DEF x, y
<1>2. c * x < c * (y + 1)
  <2>1. c * x \in Int /\ c * (y + 1) \in Int
    BY <1>1
  <2> QED BY <1>1, <2>1
<1>3. x < y + 1
  BY <1>1, <1>2, SMT
<1> QED BY <1>1, <1>3 DEF x, y

LEMMA NeedChunkNumMonotone ==
  ASSUME NEW a \in Nat, NEW b \in Nat, a <= b
  PROVE  NeedChunkNum(a) <= NeedChunkNum(b)
<1>1. a + ChunkSize - 1 \in Nat /\ b + ChunkSize - 1 \in Nat
  BY SizeAssumption
<1> QED BY <1>1, SizeAssumption, DivisionMonotone DEF NeedChunkNum
---------------------------------------------------------------------------
(* A search for m chunks that succeeds returns m of them.                  *)
LEMMA LowestFirstLength ==
  ASSUME NEW S, NEW k \in Nat, NEW s \in LowestFirst(S, k)
  PROVE  s \in Seq(S) /\ Len(s) = k
BY DEF LowestFirst

LEMMA FastChoicesLength ==
  ASSUME NEW S, NEW m \in Nat, NEW s \in FastChoices(S, m)
  PROVE  Len(s) = m
<1>1. PICK k \in 0..m : s \in Concatenations([1..k -> S], LowestFirst(S, m - k))
  <2> DEFINE K == IF S = Chunks THEN {m} ELSE 0..m
  <2>1. K \subseteq 0..m
    OBVIOUS
  <2>2. \E k \in K : s \in Concatenations([1..k -> S], LowestFirst(S, m - k))
    BY Zenon DEF FastChoices
  <2> HIDE DEF K
  <2> QED BY <2>1, <2>2
<1> DEFINE A == [1..k -> S]  B == LowestFirst(S, m - k)
<1>2. \E a \in A, b \in B : s = a \o b
  <2>1. s \in Concatenations(A, B)
    BY <1>1
  <2> HIDE DEF A, B
  <2> QED BY <2>1, SMT DEF Concatenations
<1>3. PICK a \in A, b \in B : s = a \o b
  BY <1>2
<1>4. k \in Nat /\ m - k \in Nat
  OBVIOUS
<1>5. a \in Seq(S) /\ Len(a) = k
  BY <1>4
<1>6. b \in Seq(S) /\ Len(b) = m - k
  BY <1>4, LowestFirstLength
<1>7. Len(s) = Len(a) + Len(b)
  <2> HIDE DEF A, B
  <2> QED BY <1>3, <1>5, <1>6, ConcatProperties
<1> QED BY <1>4, <1>5, <1>6, <1>7

(* The allocator answers with nothing, to a request for something, only    *)
(* when fewer chunks than that have a clear bit: the head of an empty list *)
(* counts as one of them, and the random search falls back on the          *)
(* ascending one.                                                          *)
LEMMA RefusalMeansFull ==
  ASSUME TypeOK, UsedChunkMarked,
         NEW t \in Chunks \cup {kInvalidChunkid}, NEW need \in Nat \ {0},
         <<>> \in IdleChunkidChoices(t, need)
  PROVE  Cardinality(Chunks \ bitmap) < need
<1> DEFINE prefix == IF t # kInvalidChunkid /\ ~isUsed[t] THEN <<t>> ELSE <<>>
           m == need - Len(prefix)
           S == IdleChunks(t)
           found == IF 2 * writeChunkNum >= NumChunks
                    THEN SteadyChoices(S, m) ELSE FastChoices(S, m)
           free == Chunks \ bitmap
<1>1. prefix \in Seq(Chunks) /\ Len(prefix) \in {0, 1} /\ (prefix = <<>> <=> Len(prefix) = 0)
  BY DEF kInvalidChunkid
<1>2. IsFiniteSet(free) /\ IsFiniteSet(S) /\ Cardinality(free) \in Nat /\ Cardinality(S) \in Nat
  <2>1. IsFiniteSet(Chunks)
    BY FS_Interval, SizeAssumption DEF Chunks
  <2>2. free \in SUBSET Chunks /\ S \in SUBSET Chunks
    BY DEF IdleChunks
  <2>3. IsFiniteSet(free) /\ IsFiniteSet(S)
    <3> HIDE DEF free, S
    <3> QED BY <2>1, <2>2, FS_Subset
  <2> HIDE DEF free, S
  <2> QED BY <2>3, FS_CardinalityType
<1>3. ~(m <= 0)
  <2> SUFFICES ASSUME m <= 0 PROVE FALSE
    OBVIOUS
  <2>1. prefix = <<>>
    BY DEF IdleChunkidChoices
  <2> QED BY <2>1, <1>1
<1>4. m \in Nat /\ m > 0
  BY <1>1, <1>3
<1>5. <<>> \notin Concatenations({prefix}, found)
  <2> SUFFICES ASSUME NEW x \in found, prefix \o x = <<>> PROVE FALSE
    BY DEF Concatenations
  <2>1. x \in Seq(S) /\ Len(x) = m
    BY <1>4, LowestFirstLength, FastChoicesLength, FastChoicesType DEF SteadyChoices
  <2>2. S \subseteq Chunks
    BY DEF IdleChunks
  <2>3. x \in Seq(Chunks)
    BY <2>1, <2>2, SeqMonotonic
  <2> HIDE DEF prefix, m, S, found
  <2>4. Len(prefix \o x) = Len(prefix) + m
    BY <1>1, <2>1, <2>3, ConcatProperties
  <2> QED BY <2>4, <1>1, <1>4, EmptySeq
<1>6. SearchFails(S, m)
  BY <1>3, <1>5 DEF IdleChunkidChoices
<1>7. m > Cardinality(S)
  BY <1>6 DEF SearchFails
<1>8. CASE prefix = <<>>
  <2>1. free = S
    BY <1>8 DEF IdleChunks, UsedChunkMarked, Chunks, kInvalidChunkid
  <2>2. Len(prefix) = 0 /\ m = need - Len(prefix)
    BY <1>1, <1>8
  <2> HIDE DEF free, S, prefix, m
  <2>3. m = need
    BY <2>2
  <2>4. Cardinality(free) < need
    BY <2>1, <2>3, <1>2, <1>7
  <2> QED BY <2>4 DEF free
<1>9. CASE prefix # <<>>
  <2> DEFINE more == S \cup {t}
  <2>1. free \in SUBSET more
    BY DEF IdleChunks
  <2>2. Len(prefix) = 1 /\ m = need - Len(prefix)
    BY <1>1, <1>9
  <2> HIDE DEF free, S, prefix, m
  <2>3. /\ IsFiniteSet(more)
        /\ Cardinality(more) = Cardinality(S) \/ Cardinality(more) = Cardinality(S) + 1
    BY <1>2, FS_AddElement
  <2> HIDE DEF more
  <2>4. Cardinality(free) <= Cardinality(more) /\ Cardinality(more) \in Nat
    BY <2>1, <2>3, FS_Subset, FS_CardinalityType
  <2>5. m = need - 1
    BY <2>2
  <2>6. Cardinality(free) < need
    BY <2>3, <2>4, <2>5, <1>2, <1>7
  <2> QED BY <2>6 DEF free
<1> QED BY <1>8, <1>9
---------------------------------------------------------------------------
(* What the lookups of write() and the reservation come to.                *)
LEMMA BeginWriteOutcome ==
  ASSUME IInv, NEW f \in Files, NEW len \in WriteLens, BeginWrite(f, len)
  PROVE  \E t \in Chunks \cup {kInvalidChunkid}, ct \in Chunks :
           LET first == FirstWriteLen(t, len)
               rest == len - first
               need == NeedChunkNum(rest)
           IN /\ FileTailIs(f, t) /\ ChunkTailIs(HashKey[f], ct)
              /\ first \in 0..ChunkSize /\ first <= len
              /\ rest \in Nat /\ need \in Nat
              /\ \E ids \in IF need = 0 THEN {<<>>} ELSE IdleChunkidChoices(t, need) :
                   IF ids = <<>> /\ need # 0
                   THEN /\ pc' = "return"
                        /\ op' = [NoOp EXCEPT !.file = f, !.remain = len, !.real = -1]
                   ELSE /\ pc' = "first"
                        /\ op' = [file |-> f, tail |-> t, chunkTail |-> ct,
                                  firstWriteLen |-> first,
                                  lastChunkWriteLen |-> LastChunkWriteLen(rest),
                                  ids |-> ids, i |-> 1, remain |-> len, real |-> 0]
<1>1. PICK t \in Chunks \cup {kInvalidChunkid}, ct \in Chunks :
        /\ FileTailIs(f, t)
        /\ ChunkTailIs(HashKey[f], ct)
        /\ LET first == FirstWriteLen(t, len)
               rest == len - first
               need == NeedChunkNum(rest)
               Started(ids) ==
                 [file |-> f, tail |-> t, chunkTail |-> ct, firstWriteLen |-> first,
                  lastChunkWriteLen |-> LastChunkWriteLen(rest),
                  ids |-> ids, i |-> 1, remain |-> len, real |-> 0]
           IN \E ids \in IF need = 0 THEN {<<>>} ELSE IdleChunkidChoices(t, need) :
                IF ids = <<>> /\ need # 0
                THEN /\ pc' = "return"
                     /\ op' = [NoOp EXCEPT !.file = f, !.remain = len, !.real = -1]
                ELSE /\ pc' = "first"
                     /\ op' = Started(ids)
  BY DEF BeginWrite
<1> DEFINE first == FirstWriteLen(t, len)
           rest == len - first
           need == NeedChunkNum(rest)
<1>2. len \in Nat
  BY WriteLensAssumption
<1>3. first \in 0..ChunkSize /\ first <= len
  <2>1. CASE t # kInvalidChunkid /\ isUsed[t]
    <3>1. idleLen[t] \in 0..ChunkSize
      BY <2>1 DEF IInv, TypeOK
    <3>2. first = Min2(len, idleLen[t])
      BY <2>1 DEF FirstWriteLen
    <3> QED BY <2>1, <3>1, <3>2, <1>2, SizeAssumption DEF Min2
  <2>2. CASE ~(t # kInvalidChunkid /\ isUsed[t])
    BY <2>2, <1>2, SizeAssumption DEF FirstWriteLen
  <2> QED BY <2>1, <2>2
<1>4. rest \in Nat /\ need \in Nat
  BY <1>2, <1>3, NeedChunkNumType
<1> QED BY <1>1, <1>3, <1>4

(* write() answers -1 only when the disk cannot hold the request, also     *)
(* after failed writes and crashes, and whatever the random search hit.    *)
THEOREM RefusedWhenFull == Spec => []RefusedOnlyWhenFull
<1>1. Init => RefusedOnlyWhenFull
  BY DEF Init, RefusedOnlyWhenFull
<1>2. IInv /\ RefusedOnlyWhenFull /\ [Next]_vars => RefusedOnlyWhenFull'
  <2> SUFFICES ASSUME IInv, RefusedOnlyWhenFull, [Next]_vars, pc' = "return", op'.real = -1
               PROVE  Cardinality(Chunks \ bitmap') < NeedChunkNum(op'.remain)
    BY DEF RefusedOnlyWhenFull
  <2>1. pc \in {"first", "chunks"} => op.real \in Nat /\ op.i \in Nat
    BY DEF IInv, WriterOwnsTargets, TypeOK, Ops
  <2>2. ASSUME NEW f \in Files, NEW len \in WriteLens, BeginWrite(f, len)
        PROVE  Cardinality(Chunks \ bitmap') < NeedChunkNum(op'.remain)
    <3>1. PICK t \in Chunks \cup {kInvalidChunkid} :
            LET first == FirstWriteLen(t, len)
                rest == len - first
                need == NeedChunkNum(rest)
            IN /\ first \in 0..ChunkSize /\ first <= len
               /\ rest \in Nat /\ need \in Nat
               /\ \E ids \in IF need = 0 THEN {<<>>} ELSE IdleChunkidChoices(t, need) :
                    /\ ids = <<>> /\ need # 0
                    /\ op' = [NoOp EXCEPT !.file = f, !.remain = len, !.real = -1]
      BY <2>2, BeginWriteOutcome
    <3> DEFINE first == FirstWriteLen(t, len)
               rest == len - first
               need == NeedChunkNum(rest)
    <3>2. need \in Nat \ {0} /\ <<>> \in IdleChunkidChoices(t, need)
      BY <3>1
    <3>3. Cardinality(Chunks \ bitmap) < need
      BY <3>2, RefusalMeansFull DEF IInv
    <3>4. op'.remain = len /\ len \in Nat /\ bitmap' = bitmap
      BY <3>1, <2>2, WriteLensAssumption DEF BeginWrite, index, NoOp
    <3>5. rest \in Nat /\ rest <= len
      BY <3>1, <3>4
    <3> HIDE DEF rest
    <3>6. need <= NeedChunkNum(len) /\ NeedChunkNum(len) \in Nat
      BY <3>4, <3>5, NeedChunkNumMonotone, NeedChunkNumType
    <3>7. Cardinality(Chunks \ bitmap) \in Nat
      <4>1. IsFiniteSet(Chunks) /\ Chunks \ bitmap \in SUBSET Chunks
        BY FS_Interval, SizeAssumption DEF Chunks
      <4> QED BY <4>1, FS_Subset, FS_CardinalityType
    <3> QED BY <3>2, <3>3, <3>4, <3>6, <3>7
  <2>3. CASE WriteChunk
    <3>1. pc = "chunks" /\ op'.real = op.real + ChunkWriteLen
      BY <2>3 DEF WriteChunk, IInv, TypeOK, Ops
    <3>2. ChunkWriteLen \in Nat
      BY ChunkWriteLenRange DEF IInv
    <3> QED BY <3>1, <3>2, <2>1
  <2>4. CASE FillTail
    <3>1. pc = "first" /\ op'.real = op.real + op.firstWriteLen
      BY <2>4 DEF FillTail, IInv, TypeOK, Ops
    <3>2. op.firstWriteLen \in Nat
      BY SizeAssumption DEF IInv, TypeOK, Ops
    <3> QED BY <3>1, <3>2, <2>1
  <2>5. CASE LinkFirst \/ FillTailFails \/ WriteChunkFails
    <3>1. pc \in {"first", "chunks"} /\ op' = op
      BY <2>5 DEF LinkFirst, FillTailFails, WriteChunkFails
    <3> QED BY <3>1, <2>1
  <2>6. CASE UNCHANGED vars
    BY <2>6 DEF vars, index, RefusedOnlyWhenFull
  <2>7. CASE \/ \E f \in Files : WriteHangs(f)
             \/ Return \/ Crash \/ CrashInFill \/ CrashInChunk \/ Reload
    BY <2>7 DEF WriteHangs, Return, Crash, CrashInFill, CrashInChunk, Die, Reload
  <2> QED BY <2>2, <2>3, <2>4, <2>5, <2>6, <2>7 DEF Next, WriteStep, FaultStep
<1> QED BY <1>1, <1>2, Invariance, PTL DEF Spec
---------------------------------------------------------------------------
(* The layout of the lists when nothing fails and no request needs a       *)
(* second chunk (with two the allocator may hand out one chunk twice).     *)
Faultless == /\ ~IoFails /\ MaxCrashes = 0
             /\ \A len \in WriteLens : len <= ChunkSize

Used == {c \in Chunks : isUsed[c]}

(* c is on the list that starts at h: it is in every set that holds h and, *)
(* with a used chunk, the chunk that one is linked to.                     *)
Closed(S) ==
  \A d \in S : isUsed[d] /\ nextChunkid[d] # kInvalidChunkid => nextChunkid[d] \in S
Leads(h, c) == \A S \in SUBSET Chunks : h \in S /\ Closed(S) => c \in S

(* A chunk is taken, in use and owned at once, and is on the list of its   *)
(* file.                                                                   *)
TakenOwned == \A c \in Chunks : /\ c \in bitmap <=> isUsed[c]
                                /\ isUsed[c] <=> sha1[c] \in Files
OwnerLeads == \A c \in Used : isUsed[HashKey[sha1[c]]] /\ Leads(HashKey[sha1[c]], c)

(* rank is the order in which the chunks were taken.  A link leads to a    *)
(* later chunk, and of the chunks of a file only the latest has room.      *)
Taken(rank) == /\ \A c \in Used : rank[c] < Cardinality(Used)
               /\ \A c, d \in Used : rank[c] = rank[d] => c = d
LinksForward(rank) ==
  \A c \in Used : LET n == nextChunkid[c]
                  IN \/ n = kInvalidChunkid
                     \/ n \in Used /\ rank[c] < rank[n]
                     \/ pc = "chunks" /\ c = op.chunkTail /\ n = op.ids[1]
FullBefore(rank) ==
  \A c, d \in Used : sha1[c] = sha1[d] /\ rank[c] < rank[d] => idleLen[c] = 0
Ranked(rank) == /\ rank \in [Chunks -> 0 .. NumChunks - 1]
                /\ Taken(rank) /\ LinksForward(rank) /\ FullBefore(rank)

(* The write in progress takes at most one chunk, which nobody uses, when  *)
(* the file's other chunks are full; the list it is linked to is the       *)
(* file's and ends where write() found it to end.                          *)
NewChunk(c) ==
  /\ op.ids = <<c>>
  /\ ~isUsed[HashKey[op.file]] => c = HashKey[op.file]
  /\ \A d \in Used : sha1[d] = op.file =>
       \/ idleLen[d] = 0
       \/ pc = "first" /\ d = op.tail /\ op.firstWriteLen = idleLen[d]
LinkFrom(c) ==
  IF isUsed[HashKey[op.file]]
  THEN /\ c \in Used /\ Leads(HashKey[op.file], c)
       /\ nextChunkid[c] = IF pc = "first" THEN kInvalidChunkid ELSE op.ids[1]
  ELSE c = HashKey[op.file]
Pending == pc \in {"first", "chunks"} =>
  /\ op.i = 1
  /\ op.ids = <<>> \/ \E c \in Chunks \ Used : NewChunk(c)
  /\ LinkFrom(op.chunkTail)

Layout(rank) == /\ TakenOwned /\ OwnerLeads /\ Pending
                /\ pc \notin {"hung", "down"}
                /\ Ranked(rank)
---------------------------------------------------------------------------
(* The chunks in use can be counted, and a new one is one more.            *)
LEMMA UsedCount ==
  /\ IsFiniteSet(Used) /\ Cardinality(Used) \in 0 .. NumChunks
  /\ \A c \in Chunks \ Used : /\ Cardinality(Used \cup {c}) = Cardinality(Used) + 1
                              /\ Cardinality(Used) < NumChunks
<1>1. IsFiniteSet(Chunks) /\ Cardinality(Chunks) = NumChunks
  <2>1. 0 \in Int /\ NumChunks - 1 \in Int /\ NumChunks \in Nat
    BY SizeAssumption
  <2>2. IsFiniteSet(0 .. NumChunks - 1) /\ Cardinality(0 .. NumChunks - 1) = NumChunks
    BY <2>1, FS_Interval, SizeAssumption
  <2> QED BY <2>2 DEF Chunks
<1>2. Used \in SUBSET Chunks
  BY DEF Used
<1> HIDE DEF Used
<1>3. IsFiniteSet(Used) /\ Cardinality(Used) <= NumChunks
  BY <1>1, <1>2, FS_Subset
<1>4. Cardinality(Used) \in Nat
  BY <1>3, FS_CardinalityType
<1>5. ASSUME NEW c \in Chunks \ Used
      PROVE  /\ Cardinality(Used \cup {c}) = Cardinality(Used) + 1
             /\ Cardinality(Used) < NumChunks
  <2>1. Cardinality(Used \cup {c}) = Cardinality(Used) + 1
    BY <1>3, FS_AddElement
  <2> DEFINE more == Used \cup {c}
  <2>2. more \in SUBSET Chunks
    BY <1>2
  <2> HIDE DEF more
  <2>3. Cardinality(more) <= NumChunks
    BY <1>1, <2>2, FS_Subset
  <2>4. Cardinality(Used) + 1 <= NumChunks
    BY <2>1, <2>3 DEF more
  <2> QED BY <2>1, <2>4, <1>4, SizeAssumption
<1> QED BY <1>3, <1>4, <1>5, SizeAssumption

(* What Walk(h) is, one step after the other.                              *)
LEMMA WalkSteps ==
  ASSUME TypeOK, NEW h \in Chunks
  PROVE  LET w == Walk(h)
         IN  /\ w \in [0 .. NumChunks -> Chunks \cup {kInvalidChunkid}]
             /\ w[0] = h
             /\ \A i \in 1 .. NumChunks :
                  w[i] = IF w[i-1] = kInvalidChunkid THEN kInvalidChunkid
                         ELSE nextChunkid[w[i-1]]
<1> DEFINE V == Chunks \cup {kInvalidChunkid}
           F == [p \in (1 .. NumChunks) \X V |->
                   IF p[2] = kInvalidChunkid THEN kInvalidChunkid ELSE nextChunkid[p[2]]]
           IsWalk(w) == w = [i \in 0 .. NumChunks |->
                               IF i = 0 THEN h
                               ELSE IF w[i-1] = kInvalidChunkid THEN kInvalidChunkid
                               ELSE nextChunkid[w[i-1]]]
<1>1. nextChunkid \in [Chunks -> V] /\ h \in V /\ NumChunks \in Nat
  BY SizeAssumption DEF TypeOK
<1>2. F \in [(1 .. NumChunks) \X V -> V]
  BY <1>1
<1>3. PICK g \in [0 .. NumChunks -> V] : Follows(g, NumChunks, h, F)
  <2> HIDE DEF F, V
  <2> QED BY <1>1, <1>2, RecursionUpTo
<1>4. \A i \in 1 .. NumChunks : g[i] = IF g[i-1] = kInvalidChunkid THEN kInvalidChunkid
                                       ELSE nextChunkid[g[i-1]]
  <2> TAKE i \in 1 .. NumChunks
  <2>1. i - 1 \in 0 .. NumChunks
    BY <1>1
  <2>2. g[i-1] \in V /\ g[i] = F[<<i, g[i - 1]>>]
    <3> HIDE DEF F, V
    <3> QED BY <1>3, <2>1 DEF Follows
  <2>3. <<i, g[i - 1]>> \in (1 .. NumChunks) \X V
    BY <2>2
  <2> QED BY <2>2, <2>3, Zenon
<1>5. IsWalk(g)
  BY <1>1, <1>3, <1>4 DEF Follows
<1>6. IsWalk(Walk(h))
  <2>1. Walk(h) = CHOOSE w : IsWalk(w)
    BY DEF Walk
  <2> HIDE DEF IsWalk
  <2> QED BY <1>5, <2>1
<1> DEFINE w == Walk(h)
<1>7. w = [i \in 0 .. NumChunks |-> IF i = 0 THEN h
                                    ELSE IF w[i-1] = kInvalidChunkid THEN kInvalidChunkid
                                    ELSE nextChunkid[w[i-1]]]
  BY <1>6
<1> HIDE DEF w
<1>8. w[0] = h /\ \A i \in 1 .. NumChunks : w[i] = IF w[i-1] = kInvalidChunkid THEN kInvalidChunkid
                                       ELSE nextChunkid[w[i-1]]
  BY <1>1, <1>7
<1>9. \A i \in 0 .. NumChunks : w[i] \in V
  <2> DEFINE P == {i \in 0 .. NumChunks : w[i] \in V}
  <2>1. 0 \in P
    BY <1>1, <1>8
  <2>2. \A k \in 0 .. NumChunks - 1 : k \in P => k + 1 \in P
    <3> SUFFICES ASSUME NEW k \in 0 .. NumChunks - 1, w[k] \in V PROVE w[k + 1] \in V
      BY <1>1
    <3>1. k + 1 \in 1 .. NumChunks /\ k + 1 - 1 = k
      BY <1>1
    <3>2. w[k + 1] = IF w[k] = kInvalidChunkid THEN kInvalidChunkid ELSE nextChunkid[w[k]]
      BY <1>8, <3>1
    <3> QED BY <1>1, <3>2
  <2> HIDE DEF P
  <2>3. \A i \in 0 .. NumChunks : i \in P
    BY <1>1, <2>1, <2>2, InductionUpTo
  <2> QED BY <2>3 DEF P
<1> QED BY <1>7, <1>8, <1>9 DEF w

(* w follows the links of used chunks from h on, and stops at a chunk      *)
(* nobody uses.                                                            *)
OnList(w, h) ==
  /\ w[0] = h
  /\ \A i \in 1 .. NumChunks : w[i-1] \in Used => w[i] = nextChunkid[w[i-1]]
  /\ \A i \in 1 .. NumChunks : w[i] \in Used => w[i-1] \in Used

(* What the layout says of the list that starts at a chunk in use: each    *)
(* chunk on it is in use and was taken later than the one before it, so it *)
(* ends before it has more chunks than there are.                          *)
LEMMA WalkRanked ==
  ASSUME TypeOK, pc = "ready", NEW rank, Ranked(rank), NEW h \in Used
  PROVE  LET w == Walk(h)
         IN  /\ \A i \in 0 .. NumChunks : w[i] = kInvalidChunkid \/ w[i] \in Used
             /\ OnList(w, h)
             /\ w[NumChunks] = kInvalidChunkid
<1> DEFINE w == Walk(h)
<1>1. /\ w[0] = h
      /\ \A i \in 1 .. NumChunks : w[i] = IF w[i-1] = kInvalidChunkid THEN kInvalidChunkid
                                          ELSE nextChunkid[w[i-1]]
      /\ NumChunks \in Nat /\ NumChunks > 0
  BY WalkSteps, SizeAssumption DEF Used
<1> HIDE DEF w
<1>2. /\ kInvalidChunkid \notin Used
      /\ \A c \in Used : /\ rank[c] \in 0 .. NumChunks - 1
                         /\ \/ nextChunkid[c] = kInvalidChunkid
                            \/ nextChunkid[c] \in Used /\ rank[c] < rank[nextChunkid[c]]
  BY DEF Ranked, LinksForward, Used, Chunks, kInvalidChunkid
<1> HIDE DEF kInvalidChunkid
<1>3. ASSUME NEW i \in 0 .. NumChunks - 1
      PROVE  /\ i + 1 \in 1 .. NumChunks
             /\ w[i + 1] = IF w[i] = kInvalidChunkid THEN kInvalidChunkid
                           ELSE nextChunkid[w[i]]
  <2>1. i + 1 \in 1 .. NumChunks /\ i + 1 - 1 = i
    BY <1>1
  <2> QED BY <1>1, <2>1
<1> DEFINE P == {i \in 0 .. NumChunks : \/ w[i] = kInvalidChunkid
                                        \/ w[i] \in Used /\ rank[w[i]] >= i}
<1>4. 0 \in P
  BY <1>1, <1>2
<1>5. \A i \in 0 .. NumChunks - 1 : i \in P => i + 1 \in P
  <2> SUFFICES ASSUME NEW i \in 0 .. NumChunks - 1, i \in P PROVE i + 1 \in P
    OBVIOUS
  <2>1. CASE w[i] = kInvalidChunkid
    BY <1>3, <2>1
  <2>2. CASE w[i] # kInvalidChunkid
    <3>1. w[i] \in Used /\ rank[w[i]] >= i /\ w[i + 1] = nextChunkid[w[i]]
      BY <1>3, <2>2
    <3>2. CASE w[i + 1] = kInvalidChunkid
      BY <1>3, <3>2
    <3>3. CASE w[i + 1] # kInvalidChunkid
      <4>1. w[i + 1] \in Used /\ rank[w[i]] < rank[w[i + 1]]
        BY <1>2, <3>1, <3>3
      <4>2. rank[w[i]] \in Int /\ rank[w[i + 1]] \in Int
        BY <1>2, <3>1, <4>1
      <4> QED BY <1>3, <3>1, <4>1, <4>2
    <3> QED BY <3>2, <3>3
  <2> QED BY <2>1, <2>2
<1>6. \A i \in 0 .. NumChunks : i \in P
  <2> HIDE DEF P
  <2> QED BY <1>1, <1>4, <1>5, InductionUpTo
<1>7. w[NumChunks] = kInvalidChunkid
  <2> SUFFICES ASSUME w[NumChunks] # kInvalidChunkid PROVE FALSE
    OBVIOUS
  <2>1. w[NumChunks] \in Used /\ rank[w[NumChunks]] >= NumChunks
    BY <1>1, <1>6
  <2> QED BY <1>1, <1>2, <2>1
<1>8. ASSUME NEW i \in 1 .. NumChunks, w[i] \in Used
      PROVE  w[i-1] \in Used
  <2>1. i - 1 \in 0 .. NumChunks /\ w[i] # kInvalidChunkid
    BY <1>1, <1>2, <1>8
  <2>2. w[i-1] # kInvalidChunkid
    BY <1>1, <2>1
  <2> QED BY <1>6, <2>1, <2>2
<1>9. OnList(w, h)
  BY <1>1, <1>2, <1>8 DEF OnList
<1> QED BY <1>6, <1>7, <1>9 DEF w

(* The list leads to the used chunks met on the walk.                      *)
LEMMA WalkLeads ==
  ASSUME NEW h \in Chunks, NEW w, OnList(w, h), NEW i \in 0 .. NumChunks, w[i] \in Used
  PROVE  Leads(h, w[i])
<1> SUFFICES ASSUME NEW S \in SUBSET Chunks, h \in S, Closed(S) PROVE w[i] \in S
  BY DEF Leads
<1> DEFINE P == {n \in 0 .. NumChunks : w[n] \in Used => w[n] \in S}
<1>1. NumChunks \in Nat /\ kInvalidChunkid \notin Used /\ \A c \in Used : isUsed[c]
  BY SizeAssumption DEF Used, Chunks, kInvalidChunkid
<1>2. 0 \in P
  BY <1>1 DEF OnList
<1>3. \A n \in 0 .. NumChunks - 1 : n \in P => n + 1 \in P
  <2> SUFFICES ASSUME NEW n \in 0 .. NumChunks - 1, n \in P, w[n + 1] \in Used
               PROVE  w[n + 1] \in S
    BY <1>1
  <2>1. n + 1 \in 1 .. NumChunks /\ n + 1 - 1 = n
    BY <1>1
  <2>2. w[n] \in Used /\ w[n + 1] = nextChunkid[w[n]]
    BY <2>1 DEF OnList
  <2> QED BY <1>1, <2>2 DEF Closed
<1>4. i \in P
  <2> HIDE DEF P
  <2> QED BY <1>1, <1>2, <1>3, InductionUpTo
<1> QED BY <1>4

(* A link between chunks in use leads to the one taken later.              *)
LEMMA LinksLater ==
  ASSUME IInv, NEW rank, Layout(rank), NEW c \in Used, nextChunkid[c] \in Used
  PROVE  rank[c] < rank[nextChunkid[c]]
<1>1. nextChunkid[c] # kInvalidChunkid
  BY DEF Used, Chunks, kInvalidChunkid
<1>2. ~(pc = "chunks" /\ nextChunkid[c] = op.ids[1])
  <2> SUFFICES ASSUME pc = "chunks" PROVE op.ids[1] \notin Used
    BY DEF Used
  <2>1. op.ids # <<>>
    <3>1. 1 <= Len(op.ids)
      BY DEF Layout, Pending, IInv, WriterOwnsTargets
    <3> QED BY <3>1
  <2>2. PICK d \in Chunks \ Used : op.ids = <<d>>
    BY <2>1 DEF Layout, Pending, NewChunk
  <2> QED BY <2>2
<1> QED BY <1>1, <1>2 DEF Layout, Ranked, LinksForward

(* Of two chunks on the list the one met first was taken first.            *)
LEMMA ListIncreases ==
  ASSUME IInv, NEW rank, Layout(rank), NEW h, NEW w, OnList(w, h),
         NEW j \in 0 .. NumChunks, w[j] \in Used
  PROVE  /\ \A i \in 0 .. j - 1 : w[i] \in Used /\ rank[w[i]] < rank[w[j]]
         /\ rank[w[j]] >= j
<1> DEFINE P == {n \in 0 .. NumChunks : w[n] \in Used =>
                   /\ \A k \in 0 .. n - 1 : w[k] \in Used /\ rank[w[k]] < rank[w[n]]
                   /\ rank[w[n]] >= n}
<1>1. NumChunks \in Nat /\ \A c \in Used : rank[c] \in Nat
  BY SizeAssumption DEF Layout, Ranked, Used
<1>2. 0 \in P
  BY <1>1
<1>3. \A n \in 0 .. NumChunks - 1 : n \in P => n + 1 \in P
  <2> SUFFICES ASSUME NEW n \in 0 .. NumChunks - 1, n \in P, w[n + 1] \in Used
               PROVE  /\ \A k \in 0 .. n : w[k] \in Used /\ rank[w[k]] < rank[w[n + 1]]
                      /\ rank[w[n + 1]] >= n + 1
    BY <1>1
  <2>1. n + 1 \in 1 .. NumChunks /\ n + 1 - 1 = n
    BY <1>1
  <2>2. w[n] \in Used /\ w[n + 1] = nextChunkid[w[n]]
    BY <2>1 DEF OnList
  <2>3. rank[w[n]] < rank[w[n + 1]] /\ rank[w[n]] \in Nat /\ rank[w[n + 1]] \in Nat
    BY <1>1, <2>2, LinksLater
  <2>4. ASSUME NEW k \in 0 .. n PROVE w[k] \in Used /\ rank[w[k]] < rank[w[n + 1]]
    <3>1. CASE k = n
      BY <2>2, <2>3, <3>1
    <3>2. CASE k \in 0 .. n - 1
      <4>1. w[k] \in Used /\ rank[w[k]] < rank[w[n]]
        BY <2>2, <3>2
      <4> QED BY <1>1, <2>3, <4>1
    <3> QED BY <3>1, <3>2
  <2>5. rank[w[n]] >= n
    BY <2>2
  <2> QED BY <2>3, <2>4, <2>5
<1>4. j \in P
  <2> HIDE DEF P
  <2> QED BY <1>1, <1>2, <1>3, InductionUpTo
<1> QED BY <1>4

(* The walk meets every chunk in use the list leads to.                    *)
LEMMA ListReaches ==
  ASSUME IInv, NEW rank, Layout(rank), NEW h \in Chunks, NEW w, OnList(w, h),
         NEW c \in Used, Leads(h, c)
  PROVE  \E i \in 0 .. NumChunks - 1 : w[i] = c
<1> DEFINE S == {d \in Chunks : \E i \in 0 .. NumChunks : w[i] = d}
<1>1. /\ NumChunks \in Nat /\ \A d \in Used : d \in Chunks /\ rank[d] \in 0 .. NumChunks - 1
      /\ \A d \in Chunks : nextChunkid[d] \in Chunks \cup {kInvalidChunkid}
  BY SizeAssumption DEF Layout, Ranked, Used, IInv, TypeOK
<1>2. \A i \in 0 .. NumChunks : w[i] \in Used => i \in 0 .. NumChunks - 1
  <2> SUFFICES ASSUME NEW i \in 0 .. NumChunks, w[i] \in Used PROVE i \in 0 .. NumChunks - 1
    OBVIOUS
  <2>1. rank[w[i]] >= i
    BY ListIncreases
  <2> QED BY <1>1, <2>1
<1>3. h \in S
  <2>1. 0 \in 0 .. NumChunks /\ w[0] = h
    BY <1>1 DEF OnList
  <2> QED BY <2>1
<1>4. Closed(S)
  <2> SUFFICES ASSUME NEW d \in S, isUsed[d], nextChunkid[d] # kInvalidChunkid
               PROVE  nextChunkid[d] \in S
    BY DEF Closed
  <2>1. PICK i \in 0 .. NumChunks : w[i] = d
    OBVIOUS
  <2>2. d \in Used /\ i \in 0 .. NumChunks - 1
    BY <1>2, <2>1 DEF Used
  <2>3. i + 1 \in 1 .. NumChunks /\ i + 1 - 1 = i /\ i + 1 \in 0 .. NumChunks
    BY <1>1, <2>2
  <2>4. w[i + 1] = nextChunkid[d]
    BY <2>1, <2>2, <2>3 DEF OnList
  <2> QED BY <1>1, <2>3, <2>4
<1>5. c \in S
  <2> HIDE DEF S
  <2>1. S \in SUBSET Chunks
    BY DEF S
  <2> QED BY <1>3, <1>4, <2>1 DEF Leads
<1>6. PICK i \in 0 .. NumChunks : w[i] = c
  BY <1>5
<1> QED BY <1>2, <1>6
---------------------------------------------------------------------------
(* A request of at most a chunk needs at most one new chunk.               *)
LEMMA NeedAtMostOne ==
  ASSUME NEW rest \in 0 .. ChunkSize
  PROVE  /\ rest = 0 => NeedChunkNum(rest) = 0
         /\ rest # 0 => NeedChunkNum(rest) = 1
<1>1. ChunkSize \in Nat /\ ChunkSize > 0
  BY SizeAssumption
<1> DEFINE q == (rest + ChunkSize - 1) \div ChunkSize
           a == rest + ChunkSize - 1
<1>2. q \in Int /\ a \in Int /\ ChunkSize * q <= a /\ a < ChunkSize * (q + 1)
  BY <1>1, SMT
<1>3. CASE rest = 0
  <2>1. (0 + ChunkSize - 1) \div ChunkSize = 0
    BY <1>1, SMT
  <2> QED BY <2>1, <1>3 DEF NeedChunkNum
<1>4. CASE rest # 0
  <2>1. \E r \in 0 .. ChunkSize - 1 : a = ChunkSize + r
    <3>1. rest - 1 \in 0 .. ChunkSize - 1 /\ a = ChunkSize + (rest - 1)
      BY <1>1, <1>4
    <3> QED BY <3>1
  <2>2. PICK r \in 0 .. ChunkSize - 1 : a = ChunkSize + r
    BY <2>1
  <2>3. (ChunkSize + r) \div ChunkSize = 1
    BY <1>1, SMT
  <2> QED BY <2>2, <2>3, <1>4 DEF NeedChunkNum
<1> QED BY <1>3, <1>4

(* Asked for one chunk the allocator gives one that nobody uses, and the   *)
(* head of an empty list before any other.                                 *)
LEMMA OneNewChunk ==
  ASSUME TypeOK, UsedChunkMarked, NEW t \in Chunks \cup {kInvalidChunkid},
         NEW ids \in IdleChunkidChoices(t, 1), ids # <<>>
  PROVE  \E c \in Chunks \ Used : /\ ids = <<c>>
                                  /\ t # kInvalidChunkid /\ ~isUsed[t] => c = t
<1>1. ids \in Seq(FreeChunks)
  BY IdleChunkidsFree
<1>2. CASE t # kInvalidChunkid /\ ~isUsed[t]
  <2>1. ids \in {<<t>>}
    BY <1>2 DEF IdleChunkidChoices
  <2> QED BY <2>1, <1>2 DEF Used
<1>3. CASE ~(t # kInvalidChunkid /\ ~isUsed[t])
  <2> DEFINE S == IdleChunks(t)
             found == IF 2 * writeChunkNum >= NumChunks
                      THEN SteadyChoices(S, 1) ELSE FastChoices(S, 1)
  <2>1. ids \in Concatenations({<<>>}, found)
    <3> DEFINE prefix == IF t # kInvalidChunkid /\ ~isUsed[t] THEN <<t>> ELSE <<>>
               m == 1 - Len(prefix)
               among(k) == IF 2 * writeChunkNum >= NumChunks
                           THEN SteadyChoices(S, k) ELSE FastChoices(S, k)
    <3>1. prefix = <<>> /\ m = 1
      BY <1>3
    <3>2. ids \in IF m <= 0 THEN {prefix}
                 ELSE Concatenations({prefix}, among(m)) \cup
                        (IF SearchFails(S, m) THEN {<<>>} ELSE {})
      BY Zenon DEF IdleChunkidChoices
    <3>3. among(1) = found
      OBVIOUS
    <3> HIDE DEF found, S, prefix, m, among
    <3>4. ids \in Concatenations({<<>>}, among(1)) \cup
                   (IF SearchFails(S, 1) THEN {<<>>} ELSE {})
      BY <3>1, <3>2
    <3> QED BY <3>3, <3>4
  <2>2. \E b \in found : ids = <<>> \o b
    <3> HIDE DEF found
    <3> QED BY <2>1, SMT DEF Concatenations
  <2>3. PICK b \in found : ids = <<>> \o b
    BY <2>2
  <2>4. b \in Seq(S) /\ Len(b) = 1
    BY LowestFirstLength, FastChoicesLength, FastChoicesType DEF SteadyChoices
  <2> HIDE DEF found, S
  <2>5. ids = b
    BY <2>3, <2>4, ConcatEmptySeq
  <2>6. Len(ids) = 1 /\ ids[1] \in FreeChunks
    BY <1>1, <2>4, <2>5
  <2>7. ids = <<ids[1]>>
    BY <1>1, <2>6
  <2> QED BY <2>6, <2>7, <1>3 DEF FreeChunks, Used
<1> QED BY <1>2, <1>3

(* With the index file as it was, the lists are as they were.              *)
LEMMA SameIndexSameLists ==
  ASSUME UNCHANGED index
  PROVE  /\ Used' = Used
         /\ \A h, c : Leads(h, c)' <=> Leads(h, c)
         /\ TakenOwned' <=> TakenOwned
         /\ OwnerLeads' <=> OwnerLeads
         /\ \A rank : pc # "chunks" /\ Ranked(rank) => Ranked(rank)'
<1>1. /\ bitmap' = bitmap /\ isUsed' = isUsed /\ sha1' = sha1
      /\ idleLen' = idleLen /\ nextChunkid' = nextChunkid
  BY DEF index
<1>2. Used' = Used
  BY <1>1 DEF Used
<1>3. \A h, c : Leads(h, c)' <=> Leads(h, c)
  BY <1>1 DEF Leads, Closed
<1>4. TakenOwned' <=> TakenOwned
  BY <1>1 DEF TakenOwned
<1>5. OwnerLeads' <=> OwnerLeads
  BY <1>1, <1>2, <1>3 DEF OwnerLeads
<1>6. ASSUME NEW rank, pc # "chunks", Ranked(rank) PROVE Ranked(rank)'
  <2>1. Taken(rank)' /\ FullBefore(rank)'
    BY <1>1, <1>2, <1>6 DEF Ranked, Taken, FullBefore
  <2>2. LinksForward(rank)'
    BY <1>1, <1>2, <1>6 DEF Ranked, LinksForward
  <2> QED BY <2>1, <2>2, <1>6 DEF Ranked
<1> QED BY <1>2, <1>3, <1>4, <1>5, <1>6

LEMMA InitLayout == ASSUME Init PROVE Layout([c \in Chunks |-> 0])
<1>1. Used = {} /\ pc = "ready"
  BY DEF Init, Used
<1>2. TakenOwned
  BY FilesAssumption DEF Init, TakenOwned
<1>3. Ranked([c \in Chunks |-> 0])
  BY <1>1, SizeAssumption DEF Ranked, Taken, LinksForward, FullBefore
<1> QED BY <1>1, <1>2, <1>3 DEF Layout, OwnerLeads, Pending

(* What findFileTailMetaInfo returns for a file that has chunks is the     *)
(* chunk of the file that was taken last.                                  *)
LEMMA TailIsLatest ==
  ASSUME IInv, NEW rank, Layout(rank), pc = "ready", NEW f \in Files,
         NEW t \in Chunks \cup {kInvalidChunkid}, FileTailIs(f, t),
         NEW d \in Used, sha1[d] = f
  PROVE  t \in Used /\ sha1[t] = f /\ (d = t \/ rank[d] < rank[t])
<1> DEFINE h == HashKey[f]
           w == Walk(h)
<1>1. h \in Used /\ Leads(h, d) /\ h \in Chunks /\ Ranked(rank)
  BY HashKeyAssumption DEF Layout, OwnerLeads, Used
<1>2. OnList(w, h) /\ \A i \in 0 .. NumChunks : w[i] = kInvalidChunkid \/ w[i] \in Used
  BY <1>1, WalkRanked DEF IInv
<1> HIDE DEF w
<1>3. PICK k \in 0 .. NumChunks - 1 : w[k] = d
  BY <1>1, <1>2, ListReaches
<1>4. k \in 0 .. NumChunks /\ w[k] \in Chunks /\ sha1[w[k]] = f
  BY <1>3, SizeAssumption DEF Used
<1>5. PICK i \in 0 .. NumChunks :
        /\ t = w[i] /\ t \in Chunks /\ sha1[t] = f
        /\ \A j \in i + 1 .. NumChunks : ~(w[j] \in Chunks /\ sha1[w[j]] = f)
  BY <1>1, <1>4 DEF FileTailIs, w, Used
<1>6. t \in Used
  BY <1>2, <1>5 DEF Chunks, kInvalidChunkid
<1>7. k = i \/ k \in 0 .. i - 1
  BY <1>4, <1>5, SizeAssumption
<1> QED BY <1>2, <1>3, <1>5, <1>6, <1>7, ListIncreases

(* What write() looks up: the file's latest chunk and the end of its list. *)
LEMMA BeginWriteLayout ==
  ASSUME IInv, NEW rank, Layout(rank), Faultless,
         NEW f \in Files, NEW len \in WriteLens, BeginWrite(f, len)
  PROVE  Layout(rank)'
<1>1. PICK t \in Chunks \cup {kInvalidChunkid}, ct \in Chunks :
           LET first == FirstWriteLen(t, len)
               rest == len - first
               need == NeedChunkNum(rest)
           IN /\ FileTailIs(f, t) /\ ChunkTailIs(HashKey[f], ct)
              /\ first \in 0..ChunkSize /\ first <= len
              /\ rest \in Nat /\ need \in Nat
              /\ \E ids \in IF need = 0 THEN {<<>>} ELSE IdleChunkidChoices(t, need) :
                   IF ids = <<>> /\ need # 0
                   THEN /\ pc' = "return"
                        /\ op' = [NoOp EXCEPT !.file = f, !.remain = len, !.real = -1]
                   ELSE /\ pc' = "first"
                        /\ op' = [file |-> f, tail |-> t, chunkTail |-> ct,
                                  firstWriteLen |-> first,
                                  lastChunkWriteLen |-> LastChunkWriteLen(rest),
                                  ids |-> ids, i |-> 1, remain |-> len, real |-> 0]
  BY BeginWriteOutcome
<1> DEFINE first == FirstWriteLen(t, len)
           rest == len - first
           need == NeedChunkNum(rest)
           h == HashKey[f]
<1>2. UNCHANGED index /\ pc = "ready" /\ h \in Chunks /\ TypeOK
  BY HashKeyAssumption DEF BeginWrite, IInv
<1>3. Ranked(rank)
  BY DEF Layout
<1>4. /\ Used' = Used /\ TakenOwned' /\ OwnerLeads' /\ Ranked(rank)'
      /\ \A x, c : Leads(x, c)' <=> Leads(x, c)
  BY <1>2, <1>3, SameIndexSameLists DEF Layout
<1>5. pc' \in {"return", "first"}
  BY <1>1
<1>6. ASSUME pc' = "first" PROVE Pending'
  <2>1. PICK ids \in IF need = 0 THEN {<<>>} ELSE IdleChunkidChoices(t, need) :
          /\ ids = <<>> => need = 0
          /\ op' = [file |-> f, tail |-> t, chunkTail |-> ct, firstWriteLen |-> first,
                    lastChunkWriteLen |-> LastChunkWriteLen(rest),
                    ids |-> ids, i |-> 1, remain |-> len, real |-> 0]
    BY <1>1, <1>6
  <2>2. /\ op'.file = f /\ op'.tail = t /\ op'.chunkTail = ct /\ op'.firstWriteLen = first
        /\ op'.ids = ids /\ op'.i = 1
    BY <2>1
  <2>3. LinkFrom(ct)'
    <3>1. CASE isUsed[h]
      <4>1. PICK i \in 0 .. NumChunks : ct = Walk(h)[i] /\ nextChunkid[ct] = kInvalidChunkid
        BY <1>1, <3>1 DEF ChunkTailIs
      <4>2. h \in Used /\ ct # kInvalidChunkid
        BY <1>2, <3>1 DEF Used, Chunks, kInvalidChunkid
      <4>3. ct \in Used /\ OnList(Walk(h), h)
        BY <1>2, <1>3, <4>1, <4>2, WalkRanked
      <4>4. Leads(h, ct)
        BY <1>2, <4>1, <4>3, WalkLeads
      <4> QED BY <1>2, <1>4, <1>6, <2>2, <3>1, <4>1, <4>3, <4>4 DEF LinkFrom, index
    <3>2. CASE ~isUsed[h]
      BY <1>1, <1>2, <2>2, <3>2 DEF ChunkTailIs, LinkFrom, index
    <3> QED BY <3>1, <3>2
  <2>4. ASSUME ids # <<>> PROVE \E c \in Chunks \ Used : NewChunk(c)'
    <3>1. len \in Nat /\ len <= ChunkSize
      BY WriteLensAssumption DEF Faultless
    <3>2. rest \in 0 .. ChunkSize /\ need # 0
      BY <1>1, <2>1, <2>4, <3>1, SizeAssumption
    <3>3. need = 1 /\ rest # 0
      BY <3>2, NeedAtMostOne
    <3>4. ids \in IdleChunkidChoices(t, 1)
      BY <2>1, <3>3
    <3>5. PICK c \in Chunks \ Used : ids = <<c>> /\ (t # kInvalidChunkid /\ ~isUsed[t] => c = t)
      BY <2>4, <3>4, OneNewChunk DEF IInv
    <3>6. ~isUsed[h] => c = h
      BY <1>1, <1>2, <3>5 DEF FileTailIs, Chunks, kInvalidChunkid
    <3>7. ASSUME NEW d \in Used, sha1[d] = f
          PROVE  idleLen[d] = 0 \/ (d = t /\ first = idleLen[d])
      <4>1. t \in Used /\ sha1[t] = f /\ (d = t \/ rank[d] < rank[t])
        BY <1>1, <1>2, <3>7, TailIsLatest
      <4>2. CASE d = t
        <5>1. first = Min2(len, idleLen[t])
          BY <4>1 DEF FirstWriteLen, Used, Chunks, kInvalidChunkid
        <5>2. idleLen[t] \in 0 .. ChunkSize
          BY <4>1 DEF IInv, TypeOK, Used
        <5>3. first # len
          BY <3>3, <3>1
        <5> QED BY <4>2, <5>1, <5>3 DEF Min2
      <4>3. CASE rank[d] < rank[t]
        BY <1>3, <3>7, <4>1, <4>3 DEF Ranked, FullBefore
      <4> QED BY <4>1, <4>2, <4>3
    <3>8. NewChunk(c)'
      BY <1>2, <1>4, <1>6, <2>2, <3>5, <3>6, <3>7 DEF NewChunk, index
    <3> QED BY <3>8
  <2> QED BY <1>4, <2>2, <2>3, <2>4 DEF Pending
<1>7. Pending'
  BY <1>5, <1>6 DEF Pending
<1> QED BY <1>4, <1>5, <1>7 DEF Layout

(* The list of the file is linked to the new chunk: whatever was on a list *)
(* still is.                                                               *)
LEMMA LinkLayout ==
  ASSUME IInv, NEW rank, Layout(rank), pc = "first", NEW c \in Chunks \ Used, NewChunk(c),
         nextChunkid' = [nextChunkid EXCEPT ![op.chunkTail] = c],
         UNCHANGED <<bitmap, isUsed, sha1>>,
         pc' = "chunks", op'.file = op.file, op'.ids = op.ids, op'.i = op.i,
         op'.chunkTail = op.chunkTail,
         \A d \in Used : idleLen'[d] = 0 \/ idleLen'[d] = idleLen[d],
         \A d \in Used : sha1[d] = op.file => idleLen'[d] = 0
  PROVE  Layout(rank)'
<1> DEFINE h == HashKey[op.file]
           ct == op.chunkTail
<1>1. Pending /\ op.i = 1 /\ LinkFrom(ct) /\ op.ids = <<c>> /\ op.file \in Files
  BY DEF Layout, Pending, NewChunk, IInv, WriterOwnsTargets
<1>2. /\ ct \in Chunks /\ h \in Chunks
      /\ nextChunkid'[ct] = c
      /\ \A d \in Chunks : d # ct => nextChunkid'[d] = nextChunkid[d]
      /\ c \in Chunks /\ ~isUsed[c] /\ c # kInvalidChunkid
  BY HashKeyAssumption, <1>1 DEF IInv, TypeOK, WriterOwnsTargets, Used, Chunks, kInvalidChunkid
<1>3. isUsed[ct] => nextChunkid[ct] = kInvalidChunkid
  BY <1>1 DEF LinkFrom
<1>4. Used' = Used
  BY DEF Used
<1>5. ASSUME NEW x \in Chunks, NEW y \in Chunks, Leads(x, y) PROVE Leads(x, y)'
  <2> SUFFICES ASSUME NEW S \in SUBSET Chunks, x \in S, Closed(S)' PROVE y \in S
    BY DEF Leads
  <2>1. Closed(S)
    BY <1>2, <1>3 DEF Closed
  <2> QED BY <1>5, <2>1 DEF Leads
<1>6. TakenOwned'
  BY DEF Layout, TakenOwned
<1>7. OwnerLeads'
  <2> SUFFICES ASSUME NEW d \in Used
               PROVE  isUsed[HashKey[sha1[d]]] /\ Leads(HashKey[sha1[d]], d)'
    BY <1>4 DEF OwnerLeads
  <2>1. d \in Chunks /\ HashKey[sha1[d]] \in Chunks
    BY HashKeyAssumption DEF Layout, TakenOwned, Used
  <2>2. isUsed[HashKey[sha1[d]]] /\ Leads(HashKey[sha1[d]], d)
    BY DEF Layout, OwnerLeads
  <2> QED BY <1>5, <2>1, <2>2
<1>8. Pending'
  <2>1. NewChunk(c)'
    BY <1>1, <1>4 DEF NewChunk
  <2>2. LinkFrom(ct)'
    <3>1. CASE isUsed[h]
      <4>1. ct \in Used /\ Leads(h, ct)
        BY <1>1, <3>1 DEF LinkFrom
      <4>2. op'.ids[1] = c
        BY <1>1
      <4> QED BY <1>2, <1>4, <1>5, <3>1, <4>1, <4>2 DEF LinkFrom
    <3>2. CASE ~isUsed[h]
      BY <1>1, <3>2 DEF LinkFrom
    <3> QED BY <3>1, <3>2
  <2> QED BY <1>1, <1>4, <2>1, <2>2 DEF Pending
<1>9. Ranked(rank)'
  <2>1. Ranked(rank)
    BY DEF Layout
  <2>2. Taken(rank)'
    BY <1>4, <2>1 DEF Ranked, Taken
  <2>3. FullBefore(rank)'
    BY <1>4, <2>1 DEF Ranked, FullBefore
  <2>4. LinksForward(rank)'
    <3> SUFFICES ASSUME NEW d \in Used
                 PROVE  \/ nextChunkid'[d] = kInvalidChunkid
                        \/ nextChunkid'[d] \in Used /\ rank[d] < rank[nextChunkid'[d]]
                        \/ d = ct /\ nextChunkid'[d] = c
      BY <1>1, <1>4 DEF LinksForward
    <3>1. CASE d = ct
      BY <3>1, <1>2
    <3>2. CASE d # ct
      <4>1. nextChunkid'[d] = nextChunkid[d]
        BY <3>2, <1>2 DEF Used
      <4> QED BY <2>1, <4>1 DEF Ranked, LinksForward
    <3> QED BY <3>1, <3>2
  <2> QED BY <2>1, <2>2, <2>3, <2>4 DEF Ranked
<1> QED BY <1>6, <1>7, <1>8, <1>9 DEF Layout

LEMMA FillTailLayout ==
  ASSUME IInv, NEW rank, Layout(rank), FillTail PROVE Layout(rank)'
<1> DEFINE tail == op.tail
           h == HashKey[op.file]
<1>1. /\ pc = "first" /\ op.firstWriteLen # 0 /\ pc' = AfterFirst
      /\ idleLen' = [idleLen EXCEPT ![tail] = @ - op.firstWriteLen]
      /\ nextChunkid' = IF idleLen'[tail] = 0
                        THEN [nextChunkid EXCEPT ![op.chunkTail] = FirstIdle]
                        ELSE nextChunkid
      /\ UNCHANGED <<bitmap, isUsed, sha1>>
  BY DEF FillTail
<1>2. /\ tail \in Chunks /\ isUsed[tail] /\ tail \in Used /\ sha1[tail] = op.file
      /\ op.file \in Files /\ op.firstWriteLen <= idleLen[tail]
      /\ idleLen[tail] \in Nat /\ op.firstWriteLen \in Nat
  BY <1>1, SizeAssumption DEF IInv, WriterOwnsTargets, Used, TypeOK, Ops
<1>3. /\ idleLen'[tail] = idleLen[tail] - op.firstWriteLen
      /\ \A d \in Chunks : d # tail => idleLen'[d] = idleLen[d]
  BY <1>1, <1>2 DEF IInv, TypeOK
<1>4. UNCHANGED <<op.file, op.ids, op.i, op.chunkTail>>
  BY DEF FillTail, IInv, TypeOK, Ops
<1>5. Pending /\ isUsed[h] /\ LinkFrom(op.chunkTail) /\ op.chunkTail \in Chunks
  BY <1>1, <1>2 DEF Layout, OwnerLeads, Pending, IInv, WriterOwnsTargets
<1>6. CASE op.ids = <<>>
  <2>1. pc' = "return" /\ FirstIdle = kInvalidChunkid
    BY <1>1, <1>6 DEF AfterFirst, FirstIdle
  <2>2. nextChunkid' = nextChunkid
    <3>1. nextChunkid[op.chunkTail] = kInvalidChunkid
      BY <1>1, <1>5 DEF LinkFrom
    <3> QED BY <1>1, <1>5, <2>1, <3>1 DEF IInv, TypeOK
  <2>3. Used' = Used /\ (\A x, c : Leads(x, c)' <=> Leads(x, c))
    BY <1>1, <2>2 DEF Used, Leads, Closed
  <2>4. TakenOwned' /\ OwnerLeads' /\ Pending'
    BY <1>1, <2>1, <2>3 DEF Layout, TakenOwned, OwnerLeads, Pending
  <2>5. Ranked(rank)
    BY DEF Layout
  <2>6. Taken(rank)' /\ LinksForward(rank)'
    BY <1>1, <2>2, <2>3, <2>5 DEF Ranked, Taken, LinksForward
  <2>7. FullBefore(rank)'
    <3> SUFFICES ASSUME NEW c \in Used, NEW d \in Used, sha1[c] = sha1[d], rank[c] < rank[d]
                 PROVE  idleLen'[c] = 0
      BY <1>1, <2>3 DEF FullBefore
    <3>1. idleLen[c] = 0
      BY <2>5 DEF Ranked, FullBefore
    <3>2. c # tail
      BY <1>1, <1>2, <3>1
    <3> QED BY <1>3, <3>1, <3>2 DEF Used
  <2> QED BY <2>1, <2>4, <2>5, <2>6, <2>7 DEF Layout, Ranked
<1>7. CASE op.ids # <<>>
  <2>1. PICK c \in Chunks \ Used : NewChunk(c)
    BY <1>1, <1>5, <1>7 DEF Pending
  <2>2. op.firstWriteLen = idleLen[tail] /\ op.ids = <<c>>
    BY <1>1, <1>2, <2>1 DEF NewChunk
  <2>3. idleLen'[tail] = 0 /\ FirstIdle = c /\ pc' = "chunks"
    BY <1>1, <1>2, <1>3, <1>7, <2>2 DEF FirstIdle, AfterFirst
  <2>4. \A d \in Used : idleLen'[d] = 0 \/ idleLen'[d] = idleLen[d]
    BY <1>3, <2>3 DEF Used
  <2>5. ASSUME NEW d \in Used, sha1[d] = op.file PROVE idleLen'[d] = 0
    BY <1>3, <2>1, <2>3, <2>5 DEF NewChunk, Used
  <2> QED BY <1>1, <1>4, <2>1, <2>3, <2>4, <2>5, LinkLayout
<1> QED BY <1>6, <1>7

LEMMA LinkFirstLayout ==
  ASSUME IInv, NEW rank, Layout(rank), LinkFirst PROVE Layout(rank)'
<1>1. /\ pc = "first" /\ op.firstWriteLen = 0 /\ pc' = AfterFirst
      /\ nextChunkid' = IF op.ids = <<>> THEN nextChunkid
                        ELSE [nextChunkid EXCEPT ![op.chunkTail] = FirstIdle]
      /\ UNCHANGED <<bitmap, isUsed, sha1, idleLen, op>>
  BY DEF LinkFirst
<1>2. CASE op.ids = <<>>
  <2>1. pc' = "return" /\ UNCHANGED index
    BY <1>1, <1>2 DEF AfterFirst, index
  <2>2. Ranked(rank)
    BY DEF Layout
  <2>3. TakenOwned' /\ OwnerLeads' /\ Ranked(rank)'
    BY <1>1, <2>1, <2>2, SameIndexSameLists DEF Layout
  <2> QED BY <2>1, <2>3 DEF Layout, Pending
<1>3. CASE op.ids # <<>>
  <2>1. PICK c \in Chunks \ Used : NewChunk(c)
    BY <1>1, <1>3 DEF Layout, Pending
  <2>2. op.ids = <<c>> /\ FirstIdle = c /\ pc' = "chunks"
    BY <1>1, <1>3, <2>1 DEF NewChunk, FirstIdle, AfterFirst
  <2>3. \A d \in Used : sha1[d] = op.file => idleLen'[d] = 0
    BY <1>1, <2>1 DEF NewChunk
  <2> QED BY <1>1, <1>3, <2>1, <2>2, <2>3, LinkLayout
<1> QED BY <1>2, <1>3

(* A filled chunk is the latest, ends its list and is on its file's.       *)
LEMMA WriteChunkLayout ==
  ASSUME IInv, NEW old, Layout(old), WriteChunk,
         NEW rank, rank = [old EXCEPT ![op.ids[1]] = Cardinality(Used)]
  PROVE  Layout(rank)'
<1> DEFINE h == HashKey[op.file]
           ct == op.chunkTail
<1>1. pc = "chunks" /\ Pending /\ op.i = 1 /\ LinkFrom(ct) /\ op.file \in Files /\ h \in Chunks
  BY HashKeyAssumption DEF WriteChunk, Layout, Pending, IInv, WriterOwnsTargets
<1>2. op.ids # <<>>
  <2>1. 1 <= Len(op.ids)
    BY <1>1 DEF IInv, WriterOwnsTargets
  <2> QED BY <2>1
<1>3. PICK c \in Chunks \ Used : NewChunk(c)
  BY <1>1, <1>2 DEF Pending
<1>4. op.ids = <<c>> /\ Chunk = c /\ IsLast /\ c \in Chunks /\ ~isUsed[c]
  BY <1>1, <1>3 DEF NewChunk, Chunk, IsLast, Used
<1>5. /\ bitmap' = bitmap \cup {c}
      /\ isUsed' = [isUsed EXCEPT ![c] = TRUE]
      /\ sha1' = [sha1 EXCEPT ![c] = op.file]
      /\ idleLen' = [idleLen EXCEPT ![c] = FinalIdleLen]
      /\ nextChunkid' = [nextChunkid EXCEPT ![c] = kInvalidChunkid]
      /\ pc' = "return"
  BY <1>4 DEF WriteChunk, StoresUpTo
<1>6. /\ isUsed'[c] /\ sha1'[c] = op.file /\ nextChunkid'[c] = kInvalidChunkid
      /\ \A d \in Chunks : d # c => /\ isUsed'[d] = isUsed[d] /\ sha1'[d] = sha1[d]
                                    /\ idleLen'[d] = idleLen[d]
                                    /\ nextChunkid'[d] = nextChunkid[d]
  BY <1>4, <1>5 DEF IInv, TypeOK
<1>7. Used' = Used \cup {c}
  BY <1>4, <1>6 DEF Used
<1>8. TakenOwned'
  BY <1>1, <1>4, <1>5, <1>6 DEF Layout, TakenOwned
<1>9. ASSUME NEW S \in SUBSET Chunks, Closed(S)' PROVE Closed(S)
  BY <1>4, <1>6, <1>9 DEF Closed
<1>10. OwnerLeads'
  <2> SUFFICES ASSUME NEW d \in Used \cup {c}, NEW x, x = HashKey[sha1'[d]]
               PROVE  isUsed'[x] /\ Leads(x, d)'
    BY <1>7 DEF OwnerLeads
  <2>1. CASE d \in Used
    <3>1. d # c /\ d \in Chunks
      BY <2>1, <1>4 DEF Used
    <3>2. x = HashKey[sha1[d]] /\ x \in Chunks
      BY <2>1, <3>1, <1>6, HashKeyAssumption DEF Layout, TakenOwned, Used
    <3>3. isUsed[x] /\ Leads(x, d)
      BY <2>1, <3>2 DEF Layout, OwnerLeads
    <3>4. Leads(x, d)'
      BY <3>3, <1>9 DEF Leads
    <3> QED BY <3>2, <3>3, <3>4, <1>6
  <2>2. CASE d = c
    <3>1. x = h
      BY <2>2, <1>6
    <3>2. CASE isUsed[x]
      <4>1. ct \in Used /\ Leads(x, ct) /\ nextChunkid[ct] = c
        BY <1>1, <1>4, <3>1, <3>2 DEF LinkFrom
      <4>2. ct # c /\ ct \in Chunks
        BY <4>1, <1>4 DEF Used
      <4>3. isUsed'[ct] /\ nextChunkid'[ct] = c /\ isUsed'[x]
        BY <4>1, <4>2, <1>1, <1>6, <3>1, <3>2 DEF Used
      <4>4. c # kInvalidChunkid
        BY <1>4 DEF Chunks, kInvalidChunkid
      <4>5. ASSUME NEW S \in SUBSET Chunks, x \in S, Closed(S)' PROVE c \in S
        <5>1. ct \in S
          BY <4>1, <4>5, <1>9 DEF Leads
        <5> QED BY <4>3, <4>4, <4>5, <5>1 DEF Closed
      <4>6. Leads(x, c)'
        BY <4>5 DEF Leads
      <4> QED BY <2>2, <4>3, <4>6
    <3>3. CASE ~isUsed[x]
      <4>1. x = c
        BY <1>3, <3>1, <3>3 DEF NewChunk
      <4>2. Leads(x, c)'
        BY <4>1 DEF Leads
      <4> QED BY <2>2, <1>6, <4>1, <4>2
    <3> QED BY <3>2, <3>3
  <2> QED BY <2>1, <2>2
<1>11. Ranked(rank)'
  <2>1. Ranked(old)
    BY DEF Layout
  <2>2. PICK n : n = Cardinality(Used)
    OBVIOUS
  <2>3. n \in 0 .. NumChunks - 1 /\ Cardinality(Used') = n + 1
    <3>1. Cardinality(Used \cup {c}) = n + 1 /\ n \in 0 .. NumChunks /\ n < NumChunks
      BY <1>3, <2>2, UsedCount
    <3> QED BY <3>1, <1>7, SizeAssumption
  <2>4. rank = [old EXCEPT ![c] = n]
    BY <1>4, <2>2
  <2>5. /\ old \in [Chunks -> 0 .. NumChunks - 1]
        /\ \A d \in Used : d \in Chunks /\ d # c /\ old[d] < n
        /\ \A d, e \in Used : old[d] = old[e] => d = e
    BY <2>1, <2>2, <1>4 DEF Ranked, Taken, Used
  <2>6. /\ rank \in [Chunks -> 0 .. NumChunks - 1] /\ rank[c] = n
        /\ \A d \in Used : rank[d] = old[d] /\ rank[d] \in Int
    BY <2>3, <2>4, <2>5, <1>4
  <2>7. Taken(rank)'
    <3>1. \A d \in Used' : rank[d] < n + 1
      BY <1>7, <2>3, <2>5, <2>6
    <3>2. \A d, e \in Used' : rank[d] = rank[e] => d = e
      BY <1>7, <2>3, <2>5, <2>6
    <3> QED BY <3>1, <3>2, <2>3 DEF Taken
  <2>8. LinksForward(rank)'
    <3> SUFFICES ASSUME NEW d \in Used \cup {c}
                 PROVE  \/ nextChunkid'[d] = kInvalidChunkid
                        \/ nextChunkid'[d] \in Used' /\ rank[d] < rank[nextChunkid'[d]]
      BY <1>7 DEF LinksForward
    <3>1. CASE d = c
      BY <3>1, <1>6
    <3>2. CASE d \in Used
      <4>1. nextChunkid'[d] = nextChunkid[d]
        BY <3>2, <2>5, <1>6
      <4>2. \/ nextChunkid[d] = kInvalidChunkid
            \/ nextChunkid[d] \in Used /\ old[d] < old[nextChunkid[d]]
            \/ nextChunkid[d] = c
        BY <3>2, <2>1, <1>4 DEF Ranked, LinksForward
      <4>3. nextChunkid[d] = c => rank[d] < rank[nextChunkid[d]]
        BY <3>2, <2>5, <2>6
      <4> QED BY <3>2, <4>1, <4>2, <4>3, <1>7, <2>6
    <3> QED BY <3>1, <3>2
  <2>9. FullBefore(rank)'
    <3> SUFFICES ASSUME NEW d \in Used', NEW e \in Used', sha1'[d] = sha1'[e],
                        rank[d] < rank[e]
                 PROVE  idleLen'[d] = 0
      BY DEF FullBefore
    <3>1. d \in Used
      <4> SUFFICES ASSUME d = c PROVE FALSE
        BY <1>7
      <4>1. rank[e] <= n /\ rank[e] \in Int
        BY <1>7, <2>3, <2>5, <2>6
      <4> QED BY <2>3, <2>6, <4>1
    <3>2. idleLen'[d] = idleLen[d] /\ sha1'[d] = sha1[d]
      BY <3>1, <2>5, <1>6
    <3>3. CASE e \in Used
      <4>1. sha1'[e] = sha1[e] /\ old[d] < old[e]
        BY <3>1, <3>3, <2>5, <2>6, <1>6
      <4> QED BY <3>1, <3>2, <3>3, <4>1, <2>1 DEF Ranked, FullBefore
    <3>4. CASE e = c
      BY <3>1, <3>2, <3>4, <1>1, <1>3, <1>6 DEF NewChunk
    <3> QED BY <3>3, <3>4, <1>7
  <2> QED BY <2>6, <2>7, <2>8, <2>9 DEF Ranked
<1>12. Pending'
  BY <1>5 DEF Pending
<1> QED BY <1>5, <1>8, <1>10, <1>11, <1>12 DEF Layout

LEMMA ReturnLayout ==
  ASSUME IInv, NEW rank, Layout(rank), Return \/ UNCHANGED vars PROVE Layout(rank)'
<1>1. UNCHANGED index /\ pc' \notin {"hung", "down"}
  BY DEF Return, vars, Layout
<1>2. Ranked(rank)
  BY DEF Layout
<1>3. Used' = Used /\ TakenOwned' /\ OwnerLeads' /\ (\A x, c : Leads(x, c)' <=> Leads(x, c))
  BY <1>1, SameIndexSameLists DEF Layout
<1>4. CASE Return
  <2>1. Ranked(rank)' /\ pc' = "ready"
    BY <1>1, <1>2, <1>4, SameIndexSameLists DEF Return
  <2> QED BY <1>1, <1>3, <2>1 DEF Layout, Pending
<1>5. CASE UNCHANGED vars
  <2>1. UNCHANGED <<pc, op, isUsed, sha1, idleLen, nextChunkid>>
    BY <1>5 DEF vars, index
  <2>2. Ranked(rank)'
    BY <1>2, <1>3, <2>1 DEF Ranked, Taken, LinksForward, FullBefore
  <2>3. Pending'
    BY <1>3, <2>1 DEF Layout, Pending, NewChunk, LinkFrom
  <2> QED BY <1>1, <1>3, <2>2, <2>3 DEF Layout
<1> QED BY <1>4, <1>5
---------------------------------------------------------------------------
(* Where the bytes are.  Start(c) is the position in its file of the first *)
(* byte of c, Total(f) the number of bytes of f written so far.            *)
Start(c) == disk[c][0][2]
Total(f) == acked[f] + IF op.file = f /\ op.real > 0 THEN op.real ELSE 0

Latest(rank, c) == \A d \in Used : sha1[d] = sha1[c] => rank[d] <= rank[c]

(* A chunk holds the bytes of its file from its start on; it starts where  *)
(* an earlier chunk of the file ends, full; the latest ends the file.      *)
BytesInPlace ==
  \A c \in Used : /\ WrittenLen(c) > 0
                  /\ \A k \in 0 .. WrittenLen(c) - 1 : disk[c][k] = <<sha1[c], Start(c) + k>>
Contiguous(rank) ==
  \A c \in Used :
    /\ \A d \in Used : sha1[d] = sha1[c] /\ rank[d] < rank[c] => Start(d) + ChunkSize <= Start(c)
    /\ \/ Start(c) = 0
       \/ \E d \in Used : /\ sha1[d] = sha1[c] /\ rank[d] < rank[c]
                          /\ Start(c) = Start(d) + ChunkSize
EndsAtTotal(rank) ==
  \A f \in Files :
    \/ Total(f) = 0 /\ \A c \in Used : sha1[c] # f
    \/ \E c \in Used : sha1[c] = f /\ Latest(rank, c) /\ Total(f) = Start(c) + WrittenLen(c)

(* The write in progress fills the file's latest chunk before another, and *)
(* the lengths it computed add up to the bytes it was given.               *)
PendingBytes(rank) ==
  /\ pc = "ready" => op = NoOp
  /\ pc = "first" =>
       /\ op.real = 0
       /\ op.firstWriteLen # 0 => Latest(rank, op.tail)
       /\ IF op.ids = <<>> THEN op.remain = op.firstWriteLen
          ELSE op.lastChunkWriteLen = op.remain - op.firstWriteLen /\ op.lastChunkWriteLen > 0
  /\ pc = "chunks" => op.remain = op.lastChunkWriteLen /\ op.lastChunkWriteLen > 0
  /\ pc = "return" => /\ op.file \in Files
                      /\ op.real = -1 \/ (op.real \in Nat /\ op.remain = 0)

Stored(rank) == /\ BytesInPlace /\ Contiguous(rank) /\ EndsAtTotal(rank)
                /\ PendingBytes(rank)

(* The invariant of the layout and the contents.                           *)
InPlace == \E rank : Layout(rank) /\ Stored(rank)
---------------------------------------------------------------------------
LEMMA InitStored == ASSUME Init PROVE Stored([c \in Chunks |-> 0])
<1>1. Used = {} /\ pc = "ready" /\ op = NoOp /\ \A f \in Files : acked[f] = 0
  BY DEF Init, Used
<1>2. \A f \in Files : Total(f) = 0
  BY <1>1 DEF Total, NoOp
<1> QED BY <1>1, <1>2 DEF Stored, BytesInPlace, Contiguous, EndsAtTotal, PendingBytes

(* With the stored state and the totals as they were, the bytes are where  *)
(* they were.                                                              *)
LEMMA SameStored ==
  ASSUME UNCHANGED <<isUsed, sha1, idleLen, disk>>, NEW rank, Stored(rank),
         \A f \in Files : Total(f)' = Total(f), PendingBytes(rank)'
  PROVE  Stored(rank)'
<1>1. Used' = Used
  BY DEF Used
<1>2. BytesInPlace'
  BY <1>1 DEF Stored, BytesInPlace, WrittenLen, Start
<1>3. Contiguous(rank)'
  BY <1>1 DEF Stored, Contiguous, Start
<1>4. \A c : (Start(c) + WrittenLen(c))' = Start(c) + WrittenLen(c)
  BY DEF Start, WrittenLen
<1>5. \A c : Latest(rank, c)' <=> Latest(rank, c)
  BY <1>1 DEF Latest
<1>6. EndsAtTotal(rank)'
  BY <1>1, <1>4, <1>5 DEF Stored, EndsAtTotal
<1> QED BY <1>2, <1>3, <1>6 DEF Stored

(* What is left of a request of at most a chunk fits the last chunk.       *)
LEMMA LastChunkWriteLenExact ==
  ASSUME NEW rest \in 1 .. ChunkSize PROVE LastChunkWriteLen(rest) = rest
<1>1. CASE rest = ChunkSize
  <2>1. ChunkSize % ChunkSize = 0
    BY SizeAssumption, SMT
  <2> QED BY <1>1, <2>1 DEF LastChunkWriteLen
<1>2. CASE rest # ChunkSize
  <2>1. rest % ChunkSize = rest
    BY <1>2, SizeAssumption, SMT
  <2> QED BY <2>1 DEF LastChunkWriteLen
<1> QED BY <1>1, <1>2

LEMMA BeginWriteStored ==
  ASSUME IInv, NEW rank, Layout(rank), Stored(rank), Faultless,
         NEW f \in Files, NEW len \in WriteLens, BeginWrite(f, len)
  PROVE  Stored(rank)'
<1>1. PICK t \in Chunks \cup {kInvalidChunkid}, ct \in Chunks :
           LET first == FirstWriteLen(t, len)
               rest == len - first
               need == NeedChunkNum(rest)
           IN /\ FileTailIs(f, t) /\ ChunkTailIs(HashKey[f], ct)
              /\ first \in 0..ChunkSize /\ first <= len
              /\ rest \in Nat /\ need \in Nat
              /\ \E ids \in IF need = 0 THEN {<<>>} ELSE IdleChunkidChoices(t, need) :
                   IF ids = <<>> /\ need # 0
                   THEN /\ pc' = "return"
                        /\ op' = [NoOp EXCEPT !.file = f, !.remain = len, !.real = -1]
                   ELSE /\ pc' = "first"
                        /\ op' = [file |-> f, tail |-> t, chunkTail |-> ct,
                                  firstWriteLen |-> first,
                                  lastChunkWriteLen |-> LastChunkWriteLen(rest),
                                  ids |-> ids, i |-> 1, remain |-> len, real |-> 0]
  BY BeginWriteOutcome
<1> DEFINE first == FirstWriteLen(t, len)
           rest == len - first
           need == NeedChunkNum(rest)
<1>2. UNCHANGED <<isUsed, sha1, idleLen, disk, acked>> /\ pc = "ready" /\ op = NoOp
  BY DEF BeginWrite, index, Stored, PendingBytes
<1>3. pc' \in {"return", "first"} /\ op'.file = f /\ op'.real \in {0, -1}
      /\ (pc' = "return" => op'.real = -1)
  <2> DEFINE refused == [NoOp EXCEPT !.file = f, !.remain = len, !.real = -1]
             Started(ids) == [file |-> f, tail |-> t, chunkTail |-> ct, firstWriteLen |-> first,
                              lastChunkWriteLen |-> LastChunkWriteLen(rest),
                              ids |-> ids, i |-> 1, remain |-> len, real |-> 0]
  <2>1. \/ pc' = "return" /\ op' = refused
        \/ pc' = "first" /\ \E ids : op' = Started(ids)
    BY <1>1
  <2>2. refused.file = f /\ refused.real = -1
    BY DEF NoOp
  <2>3. \A ids : Started(ids).file = f /\ Started(ids).real = 0
    OBVIOUS
  <2> HIDE DEF refused, Started
  <2> QED BY <2>1, <2>2, <2>3
<1>4. \A g \in Files : Total(g)' = Total(g)
  BY <1>2, <1>3 DEF Total, NoOp
<1>5. ASSUME pc' = "first" PROVE PendingBytes(rank)'
  <2>1. PICK ids \in IF need = 0 THEN {<<>>} ELSE IdleChunkidChoices(t, need) :
          /\ ids = <<>> => need = 0
          /\ op' = [file |-> f, tail |-> t, chunkTail |-> ct, firstWriteLen |-> first,
                    lastChunkWriteLen |-> LastChunkWriteLen(rest),
                    ids |-> ids, i |-> 1, remain |-> len, real |-> 0]
    BY <1>1, <1>5
  <2>2. /\ op'.tail = t /\ op'.firstWriteLen = first /\ op'.ids = ids /\ op'.real = 0
        /\ op'.remain = len /\ op'.lastChunkWriteLen = LastChunkWriteLen(rest)
    BY <2>1
  <2>3. len \in Nat /\ len <= ChunkSize /\ ChunkSize \in Nat /\ first \in Nat
    BY <1>1, WriteLensAssumption, SizeAssumption DEF Faultless
  <2>4. rest \in 0 .. ChunkSize /\ rest = len - first
    BY <1>1, <2>3
  <2>5. (ids = <<>> => need = 0) /\ (ids # <<>> => need # 0)
    BY <2>1
  <2>6. (rest = 0 => need = 0) /\ (rest # 0 => need = 1)
    BY <2>4, NeedAtMostOne
  <2>7. first # 0 => Latest(rank, t)
    <3> SUFFICES ASSUME first # 0, NEW d \in Used, sha1[d] = sha1[t]
                 PROVE  rank[d] <= rank[t]
      BY DEF Latest
    <3>1. t \in Chunks /\ isUsed[t] /\ t \in Used
      BY DEF FirstWriteLen, Used
    <3>2. sha1[t] = f
      <4>1. CASE isUsed[HashKey[f]]
        BY <1>1, <3>1, <4>1 DEF FileTailIs, Chunks, kInvalidChunkid
      <4>2. CASE ~isUsed[HashKey[f]]
        BY <1>1, <3>1, <4>2 DEF FileTailIs
      <4> QED BY <4>1, <4>2
    <3>3. d = t \/ rank[d] < rank[t]
      BY <1>1, <1>2, <3>2, TailIsLatest
    <3>4. rank[d] \in Int /\ rank[t] \in Int
      BY <3>1 DEF Layout, Ranked, Used
    <3> QED BY <3>3, <3>4
  <2>8. Latest(rank, t)' <=> Latest(rank, t)
    BY <1>2 DEF Latest, Used
  <2>9. ids = <<>> => len = first
    <3> HIDE DEF first, need, rest
    <3> QED BY <2>3, <2>4, <2>5, <2>6
  <2>10. ids # <<>> => LastChunkWriteLen(rest) = len - first /\ LastChunkWriteLen(rest) > 0
    <3> SUFFICES ASSUME ids # <<>> PROVE LastChunkWriteLen(rest) = rest /\ rest > 0
      BY <2>4, Zenon
    <3> HIDE DEF first, need, rest
    <3>1. rest \in 1 .. ChunkSize
      BY <2>3, <2>4, <2>5, <2>6
    <3> QED BY <3>1, LastChunkWriteLenExact
  <2> HIDE DEF first, need, rest
  <2>11. op'.firstWriteLen # 0 => Latest(rank, op.tail)'
    <3>1. op'.firstWriteLen # 0 => Latest(rank, t)'
      BY <2>2, <2>7, <2>8
    <3> QED BY <2>2, <3>1 DEF Latest
  <2> QED BY <1>5, <2>2, <2>9, <2>10, <2>11 DEF PendingBytes
<1>6. PendingBytes(rank)'
  <2>1. ASSUME pc' = "return" PROVE PendingBytes(rank)'
    BY <1>3, <2>1 DEF PendingBytes
  <2> QED BY <1>3, <1>5, <2>1
<1> QED BY <1>2, <1>4, <1>6, SameStored

(* Which chunk ends a file.                                                *)
LEMMA LatestEnds ==
  ASSUME IInv, NEW rank, Layout(rank), Stored(rank), NEW c \in Used, Latest(rank, c)
  PROVE  Total(sha1[c]) = Start(c) + WrittenLen(c)
<1>1. sha1[c] \in Files /\ c \in Chunks
  BY DEF Layout, TakenOwned, Used
<1>2. PICK d \in Used : /\ sha1[d] = sha1[c] /\ Latest(rank, d)
                        /\ Total(sha1[c]) = Start(d) + WrittenLen(d)
  BY <1>1 DEF Stored, EndsAtTotal
<1>3. rank[c] \in Int /\ rank[d] \in Int /\ rank[c] <= rank[d] /\ rank[d] <= rank[c]
  BY <1>2 DEF Latest, Layout, Ranked, Used
<1>4. c = d
  BY <1>3 DEF Layout, Ranked, Taken
<1> QED BY <1>2, <1>4

(* The bytes of used chunks and their lengths are numbers.                 *)
LEMMA StoredTypes ==
  ASSUME IInv
  PROVE  /\ ChunkSize \in Nat /\ ChunkSize > 0 /\ 0 \in Offsets
         /\ \A c \in Chunks : /\ Start(c) \in Nat
                              /\ WrittenLen(c) \in 0 .. ChunkSize
                              /\ disk[c] \in [Offsets -> Bytes]
         /\ \A f \in Files : acked[f] \in Nat /\ Total(f) \in Nat
<1>1. ChunkSize \in Nat /\ ChunkSize > 0 /\ 0 \in Offsets
  BY SizeAssumption DEF Offsets
<1>2. ASSUME NEW c \in Chunks
      PROVE  Start(c) \in Nat /\ WrittenLen(c) \in 0 .. ChunkSize /\ disk[c] \in [Offsets -> Bytes]
  <2>1. disk[c] \in [Offsets -> Bytes] /\ idleLen[c] \in 0 .. ChunkSize
    BY DEF IInv, TypeOK
  <2>2. disk[c][0] \in Bytes
    BY <1>1, <2>1
  <2>3. disk[c][0][2] \in Nat
    BY <2>2 DEF Bytes
  <2> QED BY <1>1, <2>1, <2>3 DEF Start, WrittenLen
<1>3. ASSUME NEW f \in Files PROVE acked[f] \in Nat /\ Total(f) \in Nat
  <2>1. acked[f] \in Nat /\ op.real \in Nat \cup {-1}
    BY DEF IInv, TypeOK, Ops
  <2> QED BY <2>1 DEF Total
<1> QED BY <1>1, <1>2, <1>3

LEMMA LinkFirstStored ==
  ASSUME IInv, NEW rank, Layout(rank), Stored(rank), LinkFirst PROVE Stored(rank)'
<1>1. /\ pc = "first" /\ op.firstWriteLen = 0 /\ pc' = AfterFirst
      /\ UNCHANGED <<bitmap, isUsed, sha1, idleLen, disk, op, acked>>
  BY DEF LinkFirst
<1>2. \A f \in Files : Total(f)' = Total(f)
  BY <1>1 DEF Total
<1>3. op.file \in Files /\ op.real = 0 /\ op.remain \in Nat
  BY <1>1 DEF Stored, PendingBytes, IInv, WriterOwnsTargets, TypeOK, Ops
<1>4. CASE op.ids = <<>>
  <2>1. pc' = "return" /\ op.remain = 0
    BY <1>1, <1>4 DEF AfterFirst, Stored, PendingBytes
  <2>2. PendingBytes(rank)'
    BY <1>1, <1>3, <2>1 DEF PendingBytes
  <2> QED BY <1>1, <1>2, <2>2, SameStored
<1>5. CASE op.ids # <<>>
  <2>1. pc' = "chunks" /\ op.lastChunkWriteLen = op.remain - 0 /\ op.lastChunkWriteLen > 0
    BY <1>1, <1>5 DEF AfterFirst, Stored, PendingBytes
  <2>2. PendingBytes(rank)'
    BY <1>1, <1>3, <2>1 DEF PendingBytes
  <2> QED BY <1>1, <1>2, <2>2, SameStored
<1> QED BY <1>4, <1>5

(* Bytes that land in a chunk, byte by byte.                               *)
LEMMA BytesLandWhere ==
  ASSUME IInv, NEW c \in Chunks, NEW offset \in Nat, NEW n \in Nat,
         BytesLand(c, offset, n)
  PROVE  /\ \A d \in Chunks \ {c} : disk'[d] = disk[d]
         /\ \A k \in Offsets : k < offset => disk'[c][k] = disk[c][k]
         /\ \A k \in Offsets : k \in offset .. offset + n - 1 =>
              disk'[c][k] = <<op.file, acked[op.file] + op.real + (k - offset)>>
<1> DEFINE filled == [k \in Offsets |->
                        IF k \in offset .. offset + n - 1
                        THEN <<op.file, acked[op.file] + op.real + (k - offset)>>
                        ELSE disk[c][k]]
<1>1. disk' = [disk EXCEPT ![c] = filled] /\ disk \in [Chunks -> [Offsets -> Bytes]]
  BY DEF BytesLand, IInv, TypeOK
<1>2. disk'[c] = filled /\ \A d \in Chunks \ {c} : disk'[d] = disk[d]
  <2> HIDE DEF filled
  <2> QED BY <1>1
<1>3. \A k \in Offsets : k \in Int
  BY SizeAssumption DEF Offsets
<1>4. \A k \in Offsets : k < offset => k \notin offset .. offset + n - 1
  BY <1>3
<1> QED BY <1>2, <1>4

LEMMA FillTailStored ==
  ASSUME IInv, NEW rank, Layout(rank), Stored(rank), FillTail PROVE Stored(rank)'
<1>0. PICK t, n, f : t = op.tail /\ n = op.firstWriteLen /\ f = op.file
  OBVIOUS
<1>1. /\ pc = "first" /\ n # 0 /\ pc' = AfterFirst
      /\ BytesLand(t, Filled, n)
      /\ idleLen' = [idleLen EXCEPT ![t] = @ - n]
      /\ op' = [op EXCEPT !.real = @ + n, !.remain = @ - n]
      /\ UNCHANGED <<isUsed, sha1, acked>>
  BY <1>0 DEF FillTail
<1>2. /\ t \in Chunks /\ t \in Used /\ sha1[t] = f /\ f \in Files /\ Filled = WrittenLen(t)
      /\ n <= idleLen[t] /\ n \in Nat /\ n > 0 /\ op.real = 0 /\ Latest(rank, t)
      /\ idleLen[t] \in 0 .. ChunkSize /\ op.remain \in Nat
  BY <1>0, <1>1, SizeAssumption
     DEF IInv, WriterOwnsTargets, TypeOK, Ops, Used, Stored, PendingBytes, Filled, WrittenLen
<1>3. /\ op'.real = n /\ op'.remain = op.remain - n
      /\ op'.file = f /\ op'.ids = op.ids /\ op'.lastChunkWriteLen = op.lastChunkWriteLen
  BY <1>0, <1>1, <1>2 DEF IInv, TypeOK, Ops
<1>4. Used' = Used /\ \A c : Latest(rank, c)' <=> Latest(rank, c)
  BY <1>1 DEF Used, Latest
<1>5. /\ WrittenLen(t)' = WrittenLen(t) + n
      /\ \A c \in Chunks : c # t => WrittenLen(c)' = WrittenLen(c)
  <2>1. idleLen'[t] = idleLen[t] - n /\ \A c \in Chunks : c # t => idleLen'[c] = idleLen[c]
    BY <1>1, <1>2 DEF IInv, TypeOK
  <2> QED BY <1>2, <2>1, SizeAssumption DEF WrittenLen
<1>6. WrittenLen(t) \in Nat /\ WrittenLen(t) > 0 /\ WrittenLen(t) + n <= ChunkSize
      /\ ChunkSize \in Nat
  BY <1>2, SizeAssumption DEF WrittenLen, Stored, BytesInPlace
<1>7. Total(f) = acked[f] /\ acked[f] = Start(t) + WrittenLen(t)
      /\ acked[f] \in Nat /\ Start(t) \in Nat
  BY <1>0, <1>2, LatestEnds, StoredTypes DEF Total
<1>8. /\ \A c \in Chunks \ {t} : disk'[c] = disk[c]
      /\ \A k \in Offsets : k < WrittenLen(t) => disk'[t][k] = disk[t][k]
      /\ \A k \in Offsets : k \in WrittenLen(t) .. WrittenLen(t) + n - 1 =>
           disk'[t][k] = <<f, acked[f] + op.real + (k - WrittenLen(t))>>
  BY <1>0, <1>1, <1>2, <1>6, BytesLandWhere
<1>9. \A c \in Chunks : Start(c)' = Start(c)
  BY <1>6, <1>8, StoredTypes DEF Start
<1>10. BytesInPlace'
  <2> SUFFICES ASSUME NEW c \in Used
               PROVE  /\ WrittenLen(c)' > 0
                      /\ \A k \in 0 .. WrittenLen(c)' - 1 : disk'[c][k] = <<sha1[c], Start(c) + k>>
    BY <1>1, <1>4, <1>9 DEF BytesInPlace, Used
  <2>1. c \in Chunks /\ WrittenLen(c) > 0
        /\ \A k \in 0 .. WrittenLen(c) - 1 : disk[c][k] = <<sha1[c], Start(c) + k>>
    BY DEF Stored, BytesInPlace, Used
  <2>2. CASE c # t
    BY <1>5, <1>8, <2>1, <2>2
  <2>3. CASE c = t
    <3> SUFFICES ASSUME NEW k \in 0 .. WrittenLen(t) + n - 1
                 PROVE  disk'[t][k] = <<f, Start(t) + k>>
      BY <1>2, <1>5, <1>6, <2>3
    <3>1. k \in Offsets /\ k \in Nat
      BY <1>2, <1>6 DEF Offsets
    <3>2. CASE k < WrittenLen(t)
      BY <1>2, <1>6, <1>8, <2>1, <2>3, <3>1, <3>2
    <3>3. CASE k >= WrittenLen(t)
      <4>1. acked[f] + op.real + (k - WrittenLen(t)) = Start(t) + k
        BY <1>2, <1>6, <1>7, <3>1
      <4>2. k \in WrittenLen(t) .. WrittenLen(t) + n - 1
        BY <1>2, <1>6, <3>3
      <4> QED BY <1>8, <3>1, <4>1, <4>2
    <3> QED BY <1>6, <3>1, <3>2, <3>3
  <2> QED BY <2>2, <2>3
<1>11. Contiguous(rank)'
  BY <1>1, <1>4, <1>9 DEF Stored, Contiguous, Used
<1>12. EndsAtTotal(rank)'
  <2> SUFFICES ASSUME NEW g \in Files
               PROVE  \/ Total(g)' = 0 /\ \A c \in Used : sha1[c] # g
                      \/ \E c \in Used : /\ sha1[c] = g /\ Latest(rank, c)
                                         /\ Total(g)' = Start(c)' + WrittenLen(c)'
    BY <1>1, <1>4 DEF EndsAtTotal
  <2>1. CASE g = f
    <3>1. Total(f)' = acked[f] + n
      BY <1>1, <1>2, <1>3 DEF Total
    <3>2. Start(t)' + WrittenLen(t)' = acked[f] + n
      BY <1>2, <1>5, <1>6, <1>7, <1>9
    <3> QED BY <1>2, <2>1, <3>1, <3>2
  <2>2. CASE g # f
    <3>1. Total(g)' = Total(g)
      BY <1>0, <1>1, <1>3, <2>2 DEF Total
    <3>2. \A c \in Used : sha1[c] = g => Start(c)' = Start(c) /\ WrittenLen(c)' = WrittenLen(c)
      BY <1>2, <1>5, <1>9, <2>2 DEF Used
    <3> QED BY <3>1, <3>2 DEF Stored, EndsAtTotal
  <2> QED BY <2>1, <2>2
<1>13. PendingBytes(rank)'
  <2>1. CASE op.ids = <<>>
    <3>1. pc' = "return" /\ op.remain = n
      BY <1>0, <1>1, <2>1 DEF AfterFirst, Stored, PendingBytes
    <3> QED BY <1>2, <1>3, <3>1 DEF PendingBytes
  <2>2. CASE op.ids # <<>>
    <3>1. pc' = "chunks" /\ op.lastChunkWriteLen = op.remain - n /\ op.lastChunkWriteLen > 0
      BY <1>0, <1>1, <2>2 DEF AfterFirst, Stored, PendingBytes
    <3> QED BY <1>3, <3>1 DEF PendingBytes
  <2> QED BY <2>1, <2>2
<1> QED BY <1>10, <1>11, <1>12, <1>13 DEF Stored

(* A new chunk starts where the file ended, at the end of a full chunk.    *)
LEMMA WriteChunkStored ==
  ASSUME IInv, NEW old, Layout(old), Stored(old), WriteChunk,
         NEW rank, rank = [old EXCEPT ![op.ids[1]] = Cardinality(Used)]
  PROVE  Stored(rank)'
<1>0. PICK f, n : f = op.file /\ n = op.lastChunkWriteLen
  OBVIOUS
<1>1. pc = "chunks" /\ Pending /\ op.i = 1 /\ f \in Files /\ op.ids # <<>>
  <2>1. pc = "chunks" /\ 1 <= Len(op.ids) /\ op.i = 1
    BY DEF WriteChunk, Layout, Pending, IInv, WriterOwnsTargets
  <2> QED BY <1>0, <2>1 DEF Layout, IInv, WriterOwnsTargets
<1>2. PICK c \in Chunks \ Used : NewChunk(c)
  BY <1>1 DEF Pending
<1>3. op.ids = <<c>> /\ Chunk = c /\ IsLast /\ c \in Chunks /\ c \notin Used
  BY <1>1, <1>2 DEF NewChunk, Chunk, IsLast
<1>4. /\ n \in Nat /\ n > 0 /\ n <= ChunkSize /\ ChunkSize \in Nat
      /\ op.remain = n /\ ChunkWriteLen = n /\ op.real \in Nat /\ acked[f] \in Nat
  BY <1>0, <1>1, SizeAssumption
     DEF Stored, PendingBytes, IInv, TypeOK, Ops, WriterOwnsTargets, ChunkWriteLen, Min2
<1>5. /\ isUsed' = [isUsed EXCEPT ![c] = TRUE] /\ sha1' = [sha1 EXCEPT ![c] = f]
      /\ idleLen' = [idleLen EXCEPT ![c] = ChunkSize - n]
      /\ BytesLand(c, 0, n) /\ pc' = "return" /\ acked' = acked
      /\ op' = [op EXCEPT !.real = @ + n, !.remain = @ - n, !.i = @ + 1]
  BY <1>0, <1>3, <1>4 DEF WriteChunk, StoresUpTo, FinalIdleLen
<1>6. op'.real = op.real + n /\ op'.remain = 0 /\ op'.file = f
  BY <1>0, <1>4, <1>5 DEF IInv, TypeOK, Ops
<1>7. /\ isUsed'[c] /\ sha1'[c] = f /\ WrittenLen(c)' = n
      /\ \A d \in Used : /\ d \in Chunks /\ d # c /\ sha1'[d] = sha1[d]
                         /\ WrittenLen(d)' = WrittenLen(d)
      /\ Used' = Used \cup {c}
  <2>1. /\ isUsed'[c] /\ sha1'[c] = f /\ idleLen'[c] = ChunkSize - n
        /\ \A d \in Chunks : d # c => /\ isUsed'[d] = isUsed[d] /\ sha1'[d] = sha1[d]
                                      /\ idleLen'[d] = idleLen[d]
    BY <1>3, <1>5 DEF IInv, TypeOK
  <2> QED BY <1>3, <1>4, <2>1 DEF Used, WrittenLen
<1>8. /\ \A d \in Used : disk'[d] = disk[d] /\ Start(d)' = Start(d)
      /\ \A k \in 0 .. n - 1 : disk'[c][k] = <<f, acked[f] + op.real + k>>
  <2>1. /\ \A d \in Chunks \ {c} : disk'[d] = disk[d]
        /\ \A k \in Offsets : k \in 0 .. 0 + n - 1 =>
             disk'[c][k] = <<f, acked[f] + op.real + (k - 0)>>
    BY <1>0, <1>3, <1>4, <1>5, BytesLandWhere
  <2>2. \A k \in 0 .. n - 1 : k \in Offsets /\ k - 0 = k /\ k \in 0 .. 0 + n - 1
    BY <1>4 DEF Offsets
  <2>3. \A k \in 0 .. n - 1 : disk'[c][k] = <<f, acked[f] + op.real + k>>
    BY <2>1, <2>2
  <2> QED BY <1>7, <2>1, <2>3 DEF Start
<1>9. Start(c)' = Total(f) /\ Total(f) = acked[f] + op.real /\ Total(f)' = Total(f) + n
      /\ Total(f) \in Nat
  <2>1. 0 \in 0 .. n - 1
    BY <1>4
  <2>2. disk'[c][0] = <<f, acked[f] + op.real + 0>>
    BY <1>8, <2>1
  <2>3. Start(c)' = acked[f] + op.real
    BY <1>4, <2>2 DEF Start
  <2> QED BY <1>0, <1>4, <1>5, <1>6, <2>3 DEF Total
<1>10. BytesInPlace'
  <2> SUFFICES ASSUME NEW d \in Used \cup {c}
               PROVE  /\ WrittenLen(d)' > 0
                      /\ \A k \in 0 .. WrittenLen(d)' - 1 :
                           disk'[d][k] = <<sha1'[d], Start(d)' + k>>
    BY <1>7 DEF BytesInPlace
  <2>1. CASE d \in Used
    BY <1>7, <1>8, <2>1 DEF Stored, BytesInPlace
  <2>2. CASE d = c
    BY <1>4, <1>7, <1>8, <1>9, <2>2
  <2> QED BY <2>1, <2>2
<1>11. /\ rank[c] = Cardinality(Used) /\ rank[c] \in Int
       /\ \A d \in Used : rank[d] = old[d] /\ rank[d] < rank[c] /\ rank[d] \in Int
  <2>1. /\ old \in [Chunks -> 0 .. NumChunks - 1]
        /\ \A d \in Used : d \in Chunks /\ d # c /\ old[d] < Cardinality(Used)
    BY <1>7 DEF Layout, Ranked, Taken
  <2>2. Cardinality(Used) \in Int
    BY UsedCount
  <2>3. PICK m : m = Cardinality(Used)
    OBVIOUS
  <2>4. rank = [old EXCEPT ![c] = m]
    BY <1>3, <2>3
  <2> QED BY <1>3, <2>1, <2>2, <2>3, <2>4
<1>12. \/ Total(f) = 0 /\ \A d \in Used : sha1[d] # f
       \/ \E d \in Used : sha1[d] = f /\ Latest(old, d) /\ Total(f) = Start(d) + ChunkSize
  <2>1. \A d \in Used : sha1[d] = f => WrittenLen(d) = ChunkSize
    BY <1>0, <1>1, <1>2, <1>4 DEF NewChunk, WrittenLen
  <2> QED BY <1>1, <2>1 DEF Stored, EndsAtTotal
<1>13. ASSUME NEW d \in Used, sha1[d] = f PROVE Start(d) + ChunkSize <= Total(f)
  <2>1. PICK e \in Used : sha1[e] = f /\ Latest(old, e) /\ Total(f) = Start(e) + ChunkSize
    BY <1>12, <1>13
  <2>2. old[d] <= old[e] /\ old[d] \in Int /\ old[e] \in Int
        /\ Start(d) \in Nat /\ Start(e) \in Nat
    BY <1>13, <2>1, <1>11, StoredTypes DEF Latest, Used
  <2>3. CASE old[d] = old[e]
    <3>1. d = e
      BY <2>3 DEF Layout, Ranked, Taken
    <3> QED BY <1>4, <2>1, <2>2, <3>1
  <2>4. CASE old[d] < old[e]
    <3>1. Start(d) + ChunkSize <= Start(e)
      BY <1>13, <2>1, <2>4 DEF Stored, Contiguous
    <3> QED BY <1>4, <2>1, <2>2, <3>1
  <2> QED BY <2>2, <2>3, <2>4
<1>14. Contiguous(rank)'
  <2> SUFFICES ASSUME NEW d \in Used \cup {c}
               PROVE  /\ \A e \in Used \cup {c} : sha1'[e] = sha1'[d] /\ rank[e] < rank[d] =>
                           Start(e)' + ChunkSize <= Start(d)'
                      /\ \/ Start(d)' = 0
                         \/ \E e \in Used \cup {c} : /\ sha1'[e] = sha1'[d] /\ rank[e] < rank[d]
                                                     /\ Start(d)' = Start(e)' + ChunkSize
    BY <1>7 DEF Contiguous
  <2>1. CASE d \in Used
    <3>1. \A e \in Used : sha1[e] = sha1[d] /\ old[e] < old[d] =>
            Start(e) + ChunkSize <= Start(d)
      BY <2>1 DEF Stored, Contiguous
    <3>2. \/ Start(d) = 0
          \/ \E e \in Used : /\ sha1[e] = sha1[d] /\ old[e] < old[d]
                             /\ Start(d) = Start(e) + ChunkSize
      BY <2>1 DEF Stored, Contiguous
    <3>3. ~(rank[c] < rank[d])
      BY <1>11, <2>1
    <3>4. \A e \in Used \cup {c} : rank[e] < rank[d] => e \in Used
      BY <3>3
    <3> QED BY <1>7, <1>8, <1>11, <2>1, <3>1, <3>2, <3>4
  <2>2. CASE d = c
    <3>1. ASSUME NEW e \in Used \cup {c}, sha1'[e] = f, rank[e] < rank[c]
          PROVE  Start(e)' + ChunkSize <= Total(f)
      <4>1. e \in Used
        BY <1>11, <3>1
      <4> QED BY <1>7, <1>8, <1>13, <3>1, <4>1
    <3>2. \/ Total(f) = 0
          \/ \E e \in Used : sha1'[e] = f /\ rank[e] < rank[c] /\ Total(f) = Start(e)' + ChunkSize
      BY <1>7, <1>8, <1>11, <1>12
    <3> QED BY <1>7, <1>9, <2>2, <3>1, <3>2
  <2> QED BY <2>1, <2>2
<1>15. EndsAtTotal(rank)'
  <2> SUFFICES ASSUME NEW g \in Files
               PROVE  \/ Total(g)' = 0 /\ \A d \in Used \cup {c} : sha1'[d] # g
                      \/ \E d \in Used \cup {c} : /\ sha1'[d] = g /\ Latest(rank, d)'
                                                  /\ Total(g)' = Start(d)' + WrittenLen(d)'
    BY <1>7 DEF EndsAtTotal
  <2>1. CASE g = f
    <3>1. \A e \in Used \cup {c} : rank[e] <= rank[c]
      BY <1>11
    <3>2. Latest(rank, c)'
      BY <1>7, <3>1 DEF Latest
    <3> QED BY <1>7, <1>9, <2>1, <3>2
  <2>2. CASE g # f
    <3>1. Total(g)' = Total(g)
      BY <1>0, <1>5, <1>6, <2>2 DEF Total
    <3>2. \A d \in Used \cup {c} : sha1'[d] = g => d \in Used
      BY <1>7, <2>2
    <3>3. CASE Total(g) = 0 /\ \A d \in Used : sha1[d] # g
      BY <1>7, <3>1, <3>2, <3>3
    <3>4. ASSUME NEW d \in Used, sha1[d] = g, Latest(old, d), Total(g) = Start(d) + WrittenLen(d)
          PROVE  /\ sha1'[d] = g /\ Latest(rank, d)'
                 /\ Total(g)' = Start(d)' + WrittenLen(d)'
      <4>1. \A e \in Used : sha1[e] = g => rank[e] <= rank[d]
        BY <1>11, <3>4 DEF Latest
      <4>2. Latest(rank, d)'
        BY <1>7, <3>2, <3>4, <4>1 DEF Latest
      <4> QED BY <1>7, <1>8, <3>1, <3>4, <4>2
    <3> QED BY <3>3, <3>4 DEF Stored, EndsAtTotal
  <2> QED BY <2>1, <2>2
<1>16. PendingBytes(rank)'
  BY <1>1, <1>4, <1>5, <1>6 DEF PendingBytes
<1> QED BY <1>10, <1>14, <1>15, <1>16 DEF Stored

LEMMA ReturnStored ==
  ASSUME IInv, NEW rank, Layout(rank), Stored(rank), Return \/ UNCHANGED vars
  PROVE  Stored(rank)'
<1>1. CASE Return
  <2>1. /\ UNCHANGED <<isUsed, sha1, idleLen, disk>> /\ pc = "return" /\ pc' = "ready"
        /\ op' = NoOp
        /\ acked' = IF op.real > 0 THEN [acked EXCEPT ![op.file] = @ + op.real] ELSE acked
    BY <1>1 DEF Return, index
  <2>2. op.file \in Files /\ op.real \in Nat \cup {-1} /\ acked \in [Files -> Nat]
    BY <2>1 DEF Stored, PendingBytes, IInv, TypeOK, Ops
  <2>3. \A f \in Files : Total(f)' = Total(f)
    <3> SUFFICES ASSUME NEW f \in Files PROVE acked'[f] = Total(f)
      BY <2>1, <2>2 DEF Total, NoOp
    <3> QED BY <2>1, <2>2 DEF Total
  <2>4. PendingBytes(rank)'
    BY <2>1 DEF PendingBytes
  <2> QED BY <2>1, <2>3, <2>4, SameStored
<1>2. CASE UNCHANGED vars
  <2>1. UNCHANGED <<isUsed, sha1, idleLen, disk, pc, op, acked>>
    BY <1>2 DEF vars, index
  <2>2. (\A f \in Files : Total(f)' = Total(f)) /\ PendingBytes(rank)'
    BY <2>1 DEF Total, Stored, PendingBytes, Latest, Used
  <2> QED BY <2>1, <2>2, SameStored
<1> QED BY <1>1, <1>2
---------------------------------------------------------------------------
(* Without failures only these steps happen.                               *)
LEMMA FaultlessSteps ==
  ASSUME IInv, InPlace, Faultless, [Next]_vars
  PROVE  \/ \E f \in Files, len \in WriteLens : BeginWrite(f, len)
         \/ FillTail \/ LinkFirst \/ WriteChunk \/ Return \/ UNCHANGED vars
<1>1. PICK rank : Layout(rank)
  BY DEF InPlace
<1>2. ASSUME NEW f \in Files PROVE ~WriteHangs(f)
  <2> SUFFICES ASSUME WriteHangs(f) PROVE FALSE
    OBVIOUS
  <2>1. pc = "ready" /\ HashKey[f] \in Used /\ Walk(HashKey[f])[NumChunks] # kInvalidChunkid
    BY HashKeyAssumption DEF WriteHangs, WalkEnds, Used
  <2> QED BY <1>1, <2>1, WalkRanked DEF IInv, Layout
<1>3. ~(FillTailFails \/ WriteChunkFails)
  BY DEF Faultless, FillTailFails, WriteChunkFails
<1>4. ~(Crash \/ CrashInFill \/ CrashInChunk)
  <2>1. ~Die
    BY FaultAssumption DEF Die, Faultless, IInv, TypeOK
  <2> QED BY <2>1 DEF Crash, CrashInFill, CrashInChunk
<1>5. ~Reload
  BY <1>1 DEF Reload, Layout
<1> QED BY <1>2, <1>3, <1>4, <1>5 DEF Next, WriteStep, FaultStep

(* Without failures, and with requests of at most one chunk, the lists     *)
(* keep their layout (each leads forward in the order in which the chunks  *)
(* were taken, and to every chunk of its files) and the chunks of a file   *)
(* hold its bytes one after the other (write, EdgeFS.cpp:448-520).         *)
THEOREM InPlaceKept == ASSUME Faultless PROVE Spec => []InPlace
<1>1. Init => InPlace
  BY InitLayout, InitStored DEF InPlace
<1>2. ASSUME IInv, InPlace, [Next]_vars PROVE InPlace'
  <2>1. PICK rank : Layout(rank) /\ Stored(rank)
    BY <1>2 DEF InPlace
  <2>2. CASE \E f \in Files, len \in WriteLens : BeginWrite(f, len)
    <3>1. PICK f \in Files, len \in WriteLens : BeginWrite(f, len)
      BY <2>2
    <3>2. Layout(rank)' /\ Stored(rank)'
      BY <1>2, <2>1, <3>1, BeginWriteLayout, BeginWriteStored
    <3> QED BY <3>2 DEF InPlace
  <2>3. CASE FillTail \/ LinkFirst \/ Return \/ UNCHANGED vars
    <3>1. Layout(rank)'
      BY <1>2, <2>1, <2>3, FillTailLayout, LinkFirstLayout, ReturnLayout
    <3>2. Stored(rank)'
      BY <1>2, <2>1, <2>3, FillTailStored, LinkFirstStored, ReturnStored
    <3> QED BY <3>1, <3>2 DEF InPlace
  <2>4. CASE WriteChunk
    <3>1. PICK new : new = [rank EXCEPT ![op.ids[1]] = Cardinality(Used)]
      OBVIOUS
    <3>2. Layout(new)' /\ Stored(new)'
      BY <1>2, <2>1, <2>4, <3>1, WriteChunkLayout, WriteChunkStored
    <3> QED BY <3>2 DEF InPlace
  <2> QED BY <1>2, <2>2, <2>3, <2>4, FaultlessSteps
<1> QED BY <1>1, <1>2, Invariance, PTL DEF Spec

(* So every list ends, and neither read() nor the lookups of write() run   *)
(* for ever (EdgeFS.cpp:329, 617).                                         *)
THEOREM ListsAlwaysEnd == ASSUME Faultless PROVE Spec => []ListsEnd
<1>1. ASSUME IInv, InPlace PROVE ListsEnd
  <2> SUFFICES ASSUME pc = "ready", NEW f \in Files, isUsed[HashKey[f]]
               PROVE  Walk(HashKey[f])[NumChunks] = kInvalidChunkid
    BY DEF ListsEnd, WalkEnds
  <2>1. HashKey[f] \in Used
    BY HashKeyAssumption DEF Used
  <2>2. PICK rank : Layout(rank)
    BY <1>1 DEF InPlace
  <2> QED BY <1>1, <2>1, <2>2, WalkRanked DEF IInv, Layout
<1> QED BY <1>1, InPlaceKept, Invariance, PTL
---------------------------------------------------------------------------
(* What Gathered(w, f) is, one chunk of the list after the other.             *)
LEMMA GatheredSteps ==
  ASSUME NEW f, NEW w
  PROVE  LET g == Gathered(w, f)
         IN  /\ g \in [0 .. NumChunks -> Seq(Chunks)]
             /\ g[0] = <<>>
             /\ \A i \in 1 .. NumChunks :
                  g[i] = IF w[i-1] \in Chunks /\ sha1[w[i-1]] = f
                         THEN Append(g[i-1], w[i-1]) ELSE g[i-1]
<1> DEFINE V == Seq(Chunks)
           Mine(i) == w[i-1] \in Chunks /\ sha1[w[i-1]] = f
           F == [p \in (1 .. NumChunks) \X V |->
                   IF Mine(p[1]) THEN Append(p[2], w[p[1]-1]) ELSE p[2]]
           IsGathered(g) == g = [i \in 0 .. NumChunks |->
                                   IF i = 0 THEN <<>>
                                   ELSE IF w[i-1] \in Chunks /\ sha1[w[i-1]] = f
                                   THEN Append(g[i-1], w[i-1]) ELSE g[i-1]]
<1>1. NumChunks \in Nat /\ <<>> \in V
  BY SizeAssumption
<1>2. Gathered(w, f) = CHOOSE g : IsGathered(g)
  BY DEF Gathered
<1>3. F \in [(1 .. NumChunks) \X V -> V]
  <2> SUFFICES ASSUME NEW p \in (1 .. NumChunks) \X V
               PROVE  (IF Mine(p[1]) THEN Append(p[2], w[p[1]-1]) ELSE p[2]) \in V
    OBVIOUS
  <2>1. p[2] \in Seq(Chunks)
    OBVIOUS
  <2> QED BY <2>1, AppendProperties
<1>4. PICK g \in [0 .. NumChunks -> V] : Follows(g, NumChunks, <<>>, F)
  <2> HIDE DEF F, V
  <2> QED BY <1>1, <1>3, RecursionUpTo
<1>5. \A i \in 1 .. NumChunks :
        g[i] = IF Mine(i) THEN Append(g[i-1], w[i-1]) ELSE g[i-1]
  <2> TAKE i \in 1 .. NumChunks
  <2>1. i - 1 \in 0 .. NumChunks
    BY <1>1
  <2>2. g[i-1] \in V /\ g[i] = F[<<i, g[i - 1]>>]
    <3> HIDE DEF F, V
    <3> QED BY <1>4, <2>1 DEF Follows
  <2>3. <<i, g[i - 1]>> \in (1 .. NumChunks) \X V
    BY <2>2
  <2> HIDE DEF Mine, V
  <2> QED BY <2>2, <2>3, Zenon
<1>6. g = [i \in 0 .. NumChunks |-> g[i]] /\ g[0] = <<>>
  BY <1>1, <1>4 DEF Follows
<1>7. IsGathered(g)
  <2> HIDE DEF V, F
  <2>1. \A i \in 0 .. NumChunks : i = 0 \/ i \in 1 .. NumChunks
    BY <1>1
  <2> QED BY <1>5, <1>6, <2>1
<1>8. IsGathered(Gathered(w, f))
  <2> HIDE DEF IsGathered
  <2> QED BY <1>2, <1>7
<1> DEFINE G == Gathered(w, f)
<1>9. G = [i \in 0 .. NumChunks |-> IF i = 0 THEN <<>>
                                    ELSE IF w[i-1] \in Chunks /\ sha1[w[i-1]] = f
                                    THEN Append(G[i-1], w[i-1]) ELSE G[i-1]]
  BY <1>8
<1> HIDE DEF G
<1>10. G[0] = <<>> /\ \A i \in 1 .. NumChunks :
         G[i] = IF w[i-1] \in Chunks /\ sha1[w[i-1]] = f
                THEN Append(G[i-1], w[i-1]) ELSE G[i-1]
  <2>1. 0 \in 0 .. NumChunks /\ \A i \in 1 .. NumChunks : i \in 0 .. NumChunks /\ i # 0
    BY <1>1
  <2> QED BY <1>9, <2>1, Zenon
<1>11. \A i \in 0 .. NumChunks : G[i] \in Seq(Chunks)
  <2> DEFINE P == {i \in 0 .. NumChunks : G[i] \in Seq(Chunks)}
  <2>1. 0 \in P
    <3>1. 0 \in 0 .. NumChunks /\ G[0] = <<>> /\ <<>> \in Seq(Chunks)
      BY <1>1, <1>10
    <3> QED BY <3>1
  <2>2. \A k \in 0 .. NumChunks - 1 : k \in P => k + 1 \in P
    <3> SUFFICES ASSUME NEW k \in 0 .. NumChunks - 1, G[k] \in Seq(Chunks)
                 PROVE  G[k + 1] \in Seq(Chunks)
      BY <1>1
    <3>1. k + 1 \in 1 .. NumChunks /\ k + 1 - 1 = k
      BY <1>1
    <3>2. G[k + 1] = IF w[k] \in Chunks /\ sha1[w[k]] = f
                     THEN Append(G[k], w[k]) ELSE G[k]
      BY <1>10, <3>1
    <3> QED BY <3>2, AppendProperties
  <2> HIDE DEF P
  <2>3. \A i \in 0 .. NumChunks : i \in P
    BY <1>1, <2>1, <2>2, InductionUpTo
  <2> QED BY <2>3 DEF P
<1> QED BY <1>9, <1>10, <1>11 DEF G

(* What read() gathers in n steps from a list: the chunks of the file      *)
(* among the first n of the list, in the order in which they were taken.   *)
Among(s, w, f, n, rank) ==
  /\ s \in Seq(Used)
  /\ \A k \in 1 .. Len(s) : sha1[s[k]] = f /\ \E i \in 0 .. n - 1 : w[i] = s[k]
  /\ \A i \in 0 .. n - 1 :
       w[i] \in Used /\ sha1[w[i]] = f => \E k \in 1 .. Len(s) : s[k] = w[i]
  /\ \A k, l \in 1 .. Len(s) : k < l => rank[s[k]] < rank[s[l]]

LEMMA GatheredAmong ==
  ASSUME IInv, NEW rank, Layout(rank), NEW f \in Files, NEW w, OnList(w, HashKey[f])
  PROVE  \A n \in 0 .. NumChunks : Among(Gathered(w, f)[n], w, f, n, rank)
<1> DEFINE g == Gathered(w, f)
           P == {n \in 0 .. NumChunks : Among(g[n], w, f, n, rank)}
<1>1. NumChunks \in Nat
  BY SizeAssumption
<1>2. /\ g[0] = <<>>
      /\ \A i \in 1 .. NumChunks : g[i] = IF w[i-1] \in Chunks /\ sha1[w[i-1]] = f
                                          THEN Append(g[i-1], w[i-1]) ELSE g[i-1]
  BY GatheredSteps
<1>3. \A c : c \in Chunks /\ sha1[c] = f <=> c \in Used /\ sha1[c] = f
  BY DEF Layout, TakenOwned, Used
<1>5. \A j \in 0 .. NumChunks : w[j] \in Used =>
        \A i \in 0 .. j - 1 : rank[w[i]] < rank[w[j]]
  BY ListIncreases
<1> HIDE DEF g
<1>6. 0 \in P
  <2>1. 0 \in 0 .. NumChunks /\ g[0] = <<>> /\ 0 .. 0 - 1 = {}
    BY <1>1, <1>2
  <2>2. <<>> \in Seq(Used) /\ Len(<<>>) = 0 /\ 1 .. 0 = {}
    OBVIOUS
  <2>3. Among(<<>>, w, f, 0, rank)
    BY <2>1, <2>2 DEF Among
  <2> QED BY <2>1, <2>3
<1>7. ASSUME NEW n \in 0 .. NumChunks - 1, n \in P PROVE n + 1 \in P
  <2> DEFINE s == g[n]
             c == w[n]
  <2>1. n + 1 \in 1 .. NumChunks /\ n + 1 - 1 = n /\ n \in 0 .. NumChunks /\ n \in Nat
    BY <1>1
  <2>2. g[n + 1] = IF c \in Chunks /\ sha1[c] = f THEN Append(s, c) ELSE s
    BY <1>2, <2>1
  <2>3. c \in Chunks /\ sha1[c] = f <=> c \in Used /\ sha1[c] = f
    BY <1>3
  <2>4. /\ s \in Seq(Used)
        /\ \A k \in 1 .. Len(s) : sha1[s[k]] = f /\ \E i \in 0 .. n - 1 : w[i] = s[k]
        /\ \A i \in 0 .. n - 1 :
             w[i] \in Used /\ sha1[w[i]] = f => \E k \in 1 .. Len(s) : s[k] = w[i]
        /\ \A k, l \in 1 .. Len(s) : k < l => rank[s[k]] < rank[s[l]]
    BY <1>7 DEF Among
  <2> HIDE DEF s, c
  <2>5. CASE c \in Chunks /\ sha1[c] = f
    <3> DEFINE r == Append(s, c)
    <3>1. r \in Seq(Used) /\ Len(r) = Len(s) + 1 /\ Len(s) \in Nat /\ r[Len(s) + 1] = c
          /\ \A k \in 1 .. Len(s) : r[k] = s[k]
      BY <2>3, <2>4, <2>5, AppendProperties
    <3>2. \A k \in 1 .. Len(r) : k \in 1 .. Len(s) \/ k = Len(s) + 1
      BY <3>1
    <3> HIDE DEF r
    <3>3. ASSUME NEW k \in 1 .. Len(r)
          PROVE  sha1[r[k]] = f /\ \E i \in 0 .. n : w[i] = r[k]
      <4>1. CASE k \in 1 .. Len(s)
        <5>1. PICK i \in 0 .. n - 1 : w[i] = s[k]
          BY <2>4, <4>1
        <5>2. i \in 0 .. n
          BY <2>1
        <5>3. r[k] = s[k] /\ sha1[s[k]] = f
          BY <2>4, <3>1, <4>1
        <5> QED BY <5>1, <5>2, <5>3
      <4>2. CASE k = Len(s) + 1
        BY <2>1, <2>5, <3>1, <4>2 DEF c
      <4> QED BY <3>2, <4>1, <4>2
    <3>4. ASSUME NEW i \in 0 .. n, w[i] \in Used, sha1[w[i]] = f
          PROVE  \E k \in 1 .. Len(r) : r[k] = w[i]
      <4>1. CASE i = n
        BY <3>1, <4>1 DEF c
      <4>2. CASE i # n
        <5>1. i \in 0 .. n - 1
          BY <2>1, <4>2
        <5>2. PICK k \in 1 .. Len(s) : s[k] = w[i]
          BY <2>4, <3>4, <5>1
        <5> QED BY <3>1, <5>2
      <4> QED BY <4>1, <4>2
    <3>5. ASSUME NEW k \in 1 .. Len(r), NEW l \in 1 .. Len(r), k < l
          PROVE  rank[r[k]] < rank[r[l]]
      <4>1. k \in 1 .. Len(s)
        BY <3>1, <3>5
      <4>2. CASE l \in 1 .. Len(s)
        BY <2>4, <3>1, <3>5, <4>1, <4>2
      <4>3. CASE l = Len(s) + 1
        <5>1. PICK i \in 0 .. n - 1 : w[i] = r[k]
          BY <2>4, <3>1, <4>1
        <5> QED BY <1>5, <2>1, <2>3, <2>5, <3>1, <4>3, <5>1 DEF c
      <4> QED BY <3>2, <4>2, <4>3
    <3>6. Among(r, w, f, n + 1, rank)
      <4>1. n + 1 - 1 = n
        BY <2>1
      <4> QED BY <3>1, <3>3, <3>4, <3>5, <4>1 DEF Among
    <3>7. g[n + 1] = r /\ n + 1 \in 0 .. NumChunks
      BY <1>1, <2>1, <2>2, <2>5 DEF r
    <3> QED BY <3>6, <3>7
  <2>6. CASE ~(c \in Chunks /\ sha1[c] = f)
    <3>1. ASSUME NEW k \in 1 .. Len(s)
          PROVE  sha1[s[k]] = f /\ \E i \in 0 .. n : w[i] = s[k]
      BY <2>1, <2>4
    <3>2. ASSUME NEW i \in 0 .. n, w[i] \in Used, sha1[w[i]] = f
          PROVE  \E k \in 1 .. Len(s) : s[k] = w[i]
      <4>1. i # n
        BY <2>3, <2>6, <3>2 DEF c
      <4>2. i \in 0 .. n - 1
        BY <2>1, <4>1
      <4> QED BY <2>4, <3>2, <4>2
    <3>3. Among(s, w, f, n + 1, rank)
      <4>1. n + 1 - 1 = n
        BY <2>1
      <4> QED BY <2>4, <3>1, <3>2, <4>1 DEF Among
    <3> QED BY <2>1, <2>2, <2>6, <3>3
  <2> QED BY <2>5, <2>6
<1>8. \A n \in 0 .. NumChunks : n \in P
  <2> HIDE DEF P
  <2> QED BY <1>1, <1>6, <1>7, InductionUpTo
<1> QED BY <1>8 DEF g

(* The chunks of f, all of them, in the order in which they were taken.    *)
ChunksOf(f, s, rank) ==
  /\ s \in Seq(Used)
  /\ \A k \in 1 .. Len(s) : sha1[s[k]] = f
  /\ \A c \in Used : sha1[c] = f => \E k \in 1 .. Len(s) : s[k] = c
  /\ \A k, l \in 1 .. Len(s) : k < l => rank[s[k]] < rank[s[l]]

LEMMA GatheredChunks ==
  ASSUME IInv, NEW rank, Layout(rank), NEW f \in Files, NEW w, OnList(w, HashKey[f])
  PROVE  ChunksOf(f, Gathered(w, f)[NumChunks], rank)
<1> DEFINE s == Gathered(w, f)[NumChunks]
<1>1. Among(s, w, f, NumChunks, rank)
  BY GatheredAmong, SizeAssumption
<1> HIDE DEF s
<1>2. ASSUME NEW c \in Used, sha1[c] = f PROVE \E k \in 1 .. Len(s) : s[k] = c
  <2>1. Leads(HashKey[f], c)
    BY <1>2 DEF Layout, OwnerLeads
  <2>2. PICK i \in 0 .. NumChunks - 1 : w[i] = c
    BY <2>1, HashKeyAssumption, ListReaches
  <2> QED BY <1>1, <1>2, <2>2 DEF Among
<1>3. ChunksOf(f, s, rank)
  BY <1>1, <1>2 DEF Among, ChunksOf
<1> QED BY <1>3 DEF s

(* read() gathers all chunks of the file, in that order.                   *)
LEMMA ReadChunks ==
  ASSUME IInv, NEW rank, Layout(rank), pc = "ready", NEW f \in Files
  PROVE  ChunksOf(f, ReadChunkids(f), rank)
<1>1. CASE isUsed[HashKey[f]]
  <2>1. HashKey[f] \in Used
    BY <1>1, HashKeyAssumption DEF Used
  <2>2. OnList(Walk(HashKey[f]), HashKey[f])
    BY <2>1, WalkRanked DEF IInv, Layout
  <2> QED BY <1>1, <2>2, GatheredChunks DEF ReadChunkids
<1>2. CASE ~isUsed[HashKey[f]]
  <2>1. ReadChunkids(f) = <<>>
    BY <1>2 DEF ReadChunkids
  <2>2. \A c \in Used : sha1[c] # f
    BY <1>2 DEF Layout, OwnerLeads
  <2> QED BY <2>1, <2>2 DEF ChunksOf
<1> QED BY <1>1, <1>2

(* Only the last chunk of a file has room (calcReadVariable turns an       *)
(* offset into an index by dividing, EdgeFS.cpp:640-680).                  *)
THEOREM LastChunkPartial == ASSUME Faultless PROVE Spec => []OnlyLastChunkPartial
<1>1. ASSUME IInv, InPlace PROVE OnlyLastChunkPartial
  <2> SUFFICES ASSUME pc = "ready", NEW f \in Files, NEW s, s = ReadChunkids(f),
                      NEW i \in 1 .. Len(s) - 1
               PROVE  idleLen[s[i]] = 0
    BY DEF OnlyLastChunkPartial
  <2>1. PICK rank : Layout(rank)
    BY <1>1 DEF InPlace
  <2>2. ChunksOf(f, s, rank)
    BY <1>1, <2>1, ReadChunks
  <2>3. Len(s) \in Nat /\ i \in 1 .. Len(s) /\ Len(s) \in 1 .. Len(s) /\ i < Len(s)
    BY <2>2 DEF ChunksOf
  <2>4. s[i] \in Used /\ s[Len(s)] \in Used /\ sha1[s[i]] = sha1[s[Len(s)]]
        /\ rank[s[i]] < rank[s[Len(s)]]
    BY <2>2, <2>3 DEF ChunksOf
  <2> QED BY <2>1, <2>4 DEF Layout, Ranked, FullBefore
<1> QED BY <1>1, InPlaceKept, Invariance, PTL

(* No chunk is lost: every taken chunk is one read() of its file gathers.  *)
THEOREM TakenReachable == ASSUME Faultless PROVE Spec => []EveryTakenChunkReachable
<1>1. ASSUME IInv, InPlace PROVE EveryTakenChunkReachable
  <2> SUFFICES ASSUME pc = "ready", NEW c \in bitmap
               PROVE  \E f \in Files : \E i \in DOMAIN ReadChunkids(f) : ReadChunkids(f)[i] = c
    BY DEF EveryTakenChunkReachable
  <2>1. PICK rank : Layout(rank)
    BY <1>1 DEF InPlace
  <2>2. c \in Used /\ sha1[c] \in Files
    BY <1>1, <2>1 DEF Layout, TakenOwned, Used, IInv, TypeOK
  <2>3. PICK s : s = ReadChunkids(sha1[c])
    OBVIOUS
  <2>4. ChunksOf(sha1[c], s, rank)
    BY <1>1, <2>1, <2>2, <2>3, ReadChunks
  <2>5. PICK k \in 1 .. Len(s) : s[k] = c
    BY <2>2, <2>4 DEF ChunksOf
  <2>6. k \in DOMAIN s
    BY <2>4 DEF ChunksOf
  <2> QED BY <2>2, <2>3, <2>5, <2>6
<1> QED BY <1>1, InPlaceKept, Invariance, PTL
---------------------------------------------------------------------------
(* Runs of bytes of a file, as sequences.                                  *)
LEMMA ExpectedSeq ==
  ASSUME NEW f, NEW p \in Nat, NEW n \in Nat
  PROVE  /\ Expected(f, p, n) \in Seq({f} \X Nat)
         /\ Len(Expected(f, p, n)) = n
         /\ \A k \in 1 .. n : Expected(f, p, n)[k] = <<f, p + k - 1>>
BY DEF Expected

(* A run followed by the run that starts where it ends is one run.         *)
LEMMA ExpectedConcat ==
  ASSUME NEW f, NEW p \in Nat, NEW q \in Nat, NEW r \in Nat, p <= q, q <= r
  PROVE  Expected(f, p, q - p) \o Expected(f, q, r - q) = Expected(f, p, r - p)
<1> DEFINE S == {f} \X Nat
           a == Expected(f, p, q - p)
           b == Expected(f, q, r - q)
           c == Expected(f, p, r - p)
<1>1. /\ a \in Seq(S) /\ Len(a) = q - p /\ \A k \in 1 .. q - p : a[k] = <<f, p + k - 1>>
      /\ b \in Seq(S) /\ Len(b) = r - q /\ \A k \in 1 .. r - q : b[k] = <<f, q + k - 1>>
      /\ c \in Seq(S) /\ Len(c) = r - p /\ \A k \in 1 .. r - p : c[k] = <<f, p + k - 1>>
  <2>1. q - p \in Nat /\ r - q \in Nat /\ r - p \in Nat
    OBVIOUS
  <2> HIDE DEF S
  <2> QED BY <2>1, ExpectedSeq DEF S
<1> HIDE DEF S, a, b, c
<1>2. /\ a \o b \in Seq(S) /\ Len(a \o b) = r - p
      /\ \A i \in 1 .. r - p : (a \o b)[i] = IF i <= q - p THEN a[i] ELSE b[i - (q - p)]
  <2>1. (q - p) + (r - q) = r - p
    OBVIOUS
  <2>2. /\ a \o b \in Seq(S) /\ Len(a \o b) = Len(a) + Len(b)
        /\ \A i \in 1 .. Len(a) + Len(b) : (a \o b)[i] = IF i <= Len(a) THEN a[i] ELSE b[i - Len(a)]
    BY <1>1, ConcatProperties
  <2> QED BY <1>1, <2>1, <2>2, Zenon
<1>3. ASSUME NEW i \in 1 .. r - p PROVE (a \o b)[i] = c[i]
  <2>1. CASE i <= q - p
    <3>1. i \in 1 .. q - p
      BY <2>1
    <3> QED BY <1>1, <1>2, <2>1, <3>1
  <2>2. CASE ~(i <= q - p)
    <3>1. i - (q - p) \in 1 .. r - q /\ q + (i - (q - p)) - 1 = p + i - 1
      BY <2>2
    <3> QED BY <1>1, <1>2, <2>2, <3>1
  <2> QED BY <2>1, <2>2
<1>4. a \o b = c
  BY <1>1, <1>2, <1>3, SeqEqual
<1> QED BY <1>4 DEF a, b, c

(* Pieces that hold neighbouring runs join to the run over all of them:    *)
(* at[i] is the position at which piece i starts.                          *)
LEMMA JoinedRuns ==
  ASSUME NEW f, NEW m \in Nat, NEW pieces, Len(pieces) = m, NEW at \in [1 .. m + 1 -> Nat],
         \A i \in 1 .. m : /\ at[i] <= at[i + 1]
                           /\ BytesAt(pieces[i]) = Expected(f, at[i], at[i + 1] - at[i])
  PROVE  Joined(pieces) = Expected(f, at[1], at[m + 1] - at[1]) /\ at[1] <= at[m + 1]
<1> DEFINE IsJoined(g) == g = [i \in 0 .. Len(pieces) |->
                                 IF i = 0 THEN <<>> ELSE g[i-1] \o BytesAt(pieces[i])]
           G == [i \in 0 .. m |-> Expected(f, at[1], at[i + 1] - at[1])]
<1>1. \A i \in 0 .. m : at[1] <= at[i + 1]
  <2> DEFINE P == {i \in 0 .. m : at[1] <= at[i + 1]}
  <2>1. 0 \in P
    OBVIOUS
  <2>2. ASSUME NEW k \in 0 .. m - 1, k \in P PROVE k + 1 \in P
    <3>1. k + 1 \in 1 .. m /\ k + 1 \in 0 .. m /\ k + 1 + 1 \in 1 .. m + 1 /\ 1 \in 1 .. m + 1
      OBVIOUS
    <3>2. at[k + 1] <= at[k + 1 + 1] /\ at[1] <= at[k + 1]
      BY <2>2, <3>1
    <3>3. at[k + 1] \in Nat /\ at[1] \in Nat /\ at[k + 1 + 1] \in Nat
      BY <3>1
    <3> QED BY <3>1, <3>2, <3>3
  <2> HIDE DEF P
  <2>3. \A i \in 0 .. m : i \in P
    BY <2>1, <2>2, InductionUpTo
  <2> QED BY <2>3 DEF P
<1>2. G[0] = <<>>
  <2>1. at[1] \in Nat /\ 0 \in 0 .. m /\ at[0 + 1] - at[1] = 0
    OBVIOUS
  <2>2. Expected(f, at[1], 0) = <<>>
    BY DEF Expected
  <2> QED BY <2>1, <2>2
<1>3. ASSUME NEW i \in 1 .. m PROVE G[i] = G[i-1] \o BytesAt(pieces[i])
  <2>1. /\ i \in 0 .. m /\ i - 1 \in 0 .. m /\ i - 1 + 1 = i
        /\ at[1] \in Nat /\ at[i] \in Nat /\ at[i + 1] \in Nat
    OBVIOUS
  <2>2. at[1] <= at[i] /\ at[i] <= at[i + 1]
    BY <1>1, <2>1
  <2>3. Expected(f, at[1], at[i] - at[1]) \o Expected(f, at[i], at[i + 1] - at[i])
          = Expected(f, at[1], at[i + 1] - at[1])
    BY <2>1, <2>2, ExpectedConcat
  <2>4. G[i] = Expected(f, at[1], at[i + 1] - at[1])
        /\ G[i-1] = Expected(f, at[1], at[i] - at[1])
    BY <2>1
  <2> HIDE DEF G
  <2> QED BY <2>3, <2>4
<1>4. IsJoined(G)
  <2> DEFINE H == [i \in 0 .. Len(pieces) |->
                     IF i = 0 THEN <<>> ELSE G[i-1] \o BytesAt(pieces[i])]
  <2>1. \A i \in 0 .. m : H[i] = G[i]
    <3> SUFFICES ASSUME NEW i \in 0 .. m PROVE H[i] = G[i]
      OBVIOUS
    <3> HIDE DEF G
    <3>1. CASE i = 0
      BY <1>2, <3>1
    <3>2. CASE i # 0
      <4>1. i \in 1 .. m
        BY <3>2
      <4>2. H[i] = G[i-1] \o BytesAt(pieces[i])
        BY <3>2
      <4> QED BY <1>3, <4>1, <4>2, Zenon
    <3> QED BY <3>1, <3>2
  <2>2. G = [i \in 0 .. m |-> G[i]] /\ H = [i \in 0 .. m |-> H[i]]
    OBVIOUS
  <2>3. G = H
    <3> HIDE DEF G, H
    <3> QED BY <2>1, <2>2
  <2> HIDE DEF G
  <2> QED BY <2>3
<1>5. PICK g : g = CHOOSE x : IsJoined(x)
  OBVIOUS
<1>6. IsJoined(g)
  <2> HIDE DEF IsJoined
  <2> QED BY <1>4, <1>5
<1>7. Joined(pieces) = g[m]
  BY <1>5 DEF Joined
<1> HIDE DEF G
<1>8. \A i \in 0 .. m : g[i] = G[i]
  <2> DEFINE P == {i \in 0 .. m : g[i] = G[i]}
  <2>1. 0 \in P
    BY <1>2, <1>6
  <2>2. ASSUME NEW k \in 0 .. m - 1, k \in P PROVE k + 1 \in P
    <3>1. k + 1 \in 1 .. m /\ k + 1 \in 0 .. m /\ k + 1 - 1 = k /\ k + 1 # 0
      OBVIOUS
    <3>2. PICK i \in 1 .. m : i = k + 1
      BY <3>1
    <3>3. i \in 0 .. Len(pieces) /\ i # 0
      BY <3>2
    <3>4. g[i] = g[i-1] \o BytesAt(pieces[i])
      BY <1>6, <3>3, Zenon
    <3>5. G[i] = G[i-1] \o BytesAt(pieces[i])
      BY <1>3, Zenon
    <3>6. i - 1 = k /\ g[k] = G[k]
      BY <2>2, <3>2
    <3> QED BY <3>1, <3>2, <3>4, <3>5, <3>6
  <2> HIDE DEF P
  <2>3. \A i \in 0 .. m : i \in P
    BY <2>1, <2>2, InductionUpTo
  <2> QED BY <2>3 DEF P
<1>9. m \in 0 .. m /\ at[1] <= at[m + 1]
  BY <1>1
<1> QED BY <1>7, <1>8, <1>9 DEF G

(* The bytes of a piece of a chunk in use.                                 *)
LEMMA PieceBytes ==
  ASSUME IInv, NEW rank, Stored(rank), NEW c \in Used, NEW skip \in Nat, NEW n \in Nat,
         skip + n <= WrittenLen(c)
  PROVE  BytesAt(<<c, skip, n>>) = Expected(sha1[c], Start(c) + skip, n)
<1>1. Start(c) \in Nat /\ WrittenLen(c) \in Nat
  BY StoredTypes DEF Used
<1>2. \A k \in 0 .. WrittenLen(c) - 1 : disk[c][k] = <<sha1[c], Start(c) + k>>
  BY DEF Stored, BytesInPlace
<1>3. ASSUME NEW k \in 1 .. n
      PROVE  disk[c][skip + k - 1] = <<sha1[c], Start(c) + skip + k - 1>>
  <2>1. skip + k - 1 \in 0 .. WrittenLen(c) - 1 /\ Start(c) + (skip + k - 1) = Start(c) + skip + k - 1
    BY <1>1
  <2> QED BY <1>2, <2>1
<1>4. BytesAt(<<c, skip, n>>) = [k \in 1 .. n |-> disk[c][skip + k - 1]]
  BY DEF BytesAt
<1> QED BY <1>3, <1>4 DEF Expected

(* The chunks of a file follow each other: each but the last is full, and  *)
(* starts where the one before it ends; the last one ends the file.        *)
LEMMA ChunksFollow ==
  ASSUME IInv, NEW rank, Layout(rank), Stored(rank), NEW f \in Files, NEW s, ChunksOf(f, s, rank)
  PROVE  /\ Len(s) \in Nat
         /\ \A k \in 1 .. Len(s) : s[k] \in Used /\ sha1[s[k]] = f /\ WrittenLen(s[k]) \in 1 .. ChunkSize
         /\ \A k \in 1 .. Len(s) : k < Len(s) => WrittenLen(s[k]) = ChunkSize
         /\ Len(s) > 0 => Start(s[1]) = 0
         /\ \A k \in 1 .. Len(s) : k < Len(s) => Start(s[k + 1]) = Start(s[k]) + ChunkSize
         /\ Total(f) = IF Len(s) = 0 THEN 0
                       ELSE Start(s[Len(s)]) + WrittenLen(s[Len(s)])
<1> DEFINE n == Len(s)
<1>1. /\ n \in Nat /\ ChunkSize \in Nat
      /\ \A k \in 1 .. n : s[k] \in Used /\ sha1[s[k]] = f /\ rank[s[k]] \in Int
                           /\ Start(s[k]) \in Nat
      /\ \A c \in Used : sha1[c] = f => \E k \in 1 .. n : s[k] = c
      /\ \A k, l \in 1 .. n : k < l => rank[s[k]] < rank[s[l]]
  <2>1. n \in Nat /\ \A k \in 1 .. n : s[k] \in Used
    BY DEF ChunksOf
  <2>2. \A c \in Used : c \in Chunks /\ rank[c] \in Int
    BY DEF Layout, Ranked, Used
  <2>3. ChunkSize \in Nat /\ \A c \in Used : Start(c) \in Nat
    BY <2>2, StoredTypes
  <2> QED BY <2>1, <2>2, <2>3 DEF ChunksOf
<1>2. \A k \in 1 .. n : WrittenLen(s[k]) \in 1 .. ChunkSize
  BY <1>1, StoredTypes DEF Stored, BytesInPlace, Used
<1> HIDE DEF n
<1>3. \A k, l \in 1 .. n : rank[s[k]] < rank[s[l]] => k < l
  <2> SUFFICES ASSUME NEW k \in 1 .. n, NEW l \in 1 .. n, rank[s[k]] < rank[s[l]], ~(k < l)
               PROVE  FALSE
    OBVIOUS
  <2>1. k = l \/ l < k
    OBVIOUS
  <2> QED BY <1>1, <2>1
<1>4. ASSUME NEW k \in 1 .. n, k < n
      PROVE  /\ WrittenLen(s[k]) = ChunkSize
             /\ Start(s[k + 1]) = Start(s[k]) + ChunkSize
  <2>1. k + 1 \in 1 .. n /\ k < k + 1
    BY <1>1, <1>4
  <2>2. rank[s[k]] < rank[s[k + 1]]
    BY <1>1, <2>1
  <2>3. idleLen[s[k]] = 0
    BY <1>1, <2>1, <2>2 DEF Layout, Ranked, FullBefore
  <2>4. Start(s[k]) + ChunkSize <= Start(s[k + 1])
    BY <1>1, <2>1, <2>2 DEF Stored, Contiguous
  <2>5. Start(s[k + 1]) # 0
    BY <1>1, <2>4, <2>1, SizeAssumption
  <2>6. PICK d \in Used : /\ sha1[d] = f /\ rank[d] < rank[s[k + 1]]
                          /\ Start(s[k + 1]) = Start(d) + ChunkSize
    BY <1>1, <2>1, <2>5 DEF Stored, Contiguous
  <2>7. PICK j \in 1 .. n : s[j] = d
    BY <1>1, <2>6
  <2>8. j < k + 1
    BY <1>3, <2>1, <2>6, <2>7
  <2>9. j = k
    <3> SUFFICES ASSUME j # k PROVE FALSE
      OBVIOUS
    <3>1. j < k
      BY <2>8
    <3>2. Start(s[j]) + ChunkSize <= Start(s[k])
      BY <1>1, <3>1 DEF Stored, Contiguous
    <3> QED BY <1>1, <2>1, <2>4, <2>6, <2>7, <3>2, SizeAssumption
  <2> QED BY <1>1, <2>3, <2>6, <2>7, <2>9, SizeAssumption DEF WrittenLen
<1>5. ASSUME n > 0 PROVE Start(s[1]) = 0
  <2>1. 1 \in 1 .. n
    BY <1>1, <1>5
  <2> SUFFICES ASSUME Start(s[1]) # 0 PROVE FALSE
    OBVIOUS
  <2>2. PICK d \in Used : sha1[d] = f /\ rank[d] < rank[s[1]]
    BY <1>1, <2>1 DEF Stored, Contiguous
  <2>3. PICK j \in 1 .. n : s[j] = d
    BY <1>1, <2>2
  <2>4. j < 1
    BY <1>3, <2>1, <2>2, <2>3
  <2> QED BY <2>4
<1>6. Total(f) = IF n = 0 THEN 0 ELSE Start(s[n]) + WrittenLen(s[n])
  <2>1. CASE n = 0
    <3>1. \A c \in Used : sha1[c] # f
      BY <1>1, <2>1
    <3> QED BY <2>1, <3>1 DEF Stored, EndsAtTotal
  <2>2. CASE n # 0
    <3>1. n \in 1 .. n
      BY <1>1, <2>2
    <3>2. ASSUME NEW d \in Used, sha1[d] = f PROVE rank[d] <= rank[s[n]]
      <4>1. PICK j \in 1 .. n : s[j] = d
        BY <1>1, <3>2
      <4>2. j = n \/ j < n
        BY <1>1
      <4> QED BY <1>1, <3>1, <4>1, <4>2
    <3>3. Latest(rank, s[n])
      BY <1>1, <3>1, <3>2 DEF Latest
    <3>4. Total(sha1[s[n]]) = Start(s[n]) + WrittenLen(s[n])
      BY <1>1, <3>1, <3>3, LatestEnds
    <3> QED BY <1>1, <2>2, <3>1, <3>4
  <2> QED BY <2>1, <2>2
<1> QED BY <1>1, <1>2, <1>4, <1>5, <1>6 DEF n
---------------------------------------------------------------------------
(* Where chunk k + 1 of a file starts in it.                               *)
At(k) == k * ChunkSize

LEMMA AtSteps ==
  /\ ChunkSize \in Nat /\ ChunkSize > 0
  /\ At(0) = 0
  /\ \A k \in Nat : At(k) \in Nat /\ At(k + 1) = At(k) + ChunkSize
  /\ \A a, b \in Nat : At(a + b) = At(a) + At(b)
  /\ \A a, b \in Nat : a <= b => At(a) <= At(b)
<1>1. ChunkSize \in Nat /\ ChunkSize > 0
  BY SizeAssumption
<1>2. \A k \in Nat : At(k) \in Nat /\ At(k + 1) = At(k) + ChunkSize
  BY <1>1, SMT DEF At
<1>3. ASSUME NEW a \in Nat, NEW b \in Nat PROVE At(a + b) = At(a) + At(b)
  BY <1>1, SMT DEF At
<1>4. ASSUME NEW a \in Nat, NEW b \in Nat, a <= b PROVE At(a) <= At(b)
  <2>1. PICK d \in Nat : b = a + d
    <3>1. b - a \in Nat /\ b = a + (b - a)
      BY <1>4
    <3> QED BY <3>1
  <2>2. At(b) = At(a) + At(d)
    BY <1>3, <2>1
  <2> QED BY <1>2, <2>1, <2>2
<1>5. At(0) = 0
  BY <1>1, SMT DEF At
<1> QED BY <1>1, <1>2, <1>3, <1>4, <1>5

(* calcReadVariable's and calcWriteVariable's divisions.                   *)
LEMMA AtDivision ==
  ASSUME NEW x \in Nat
  PROVE  /\ x \div ChunkSize \in Nat /\ x % ChunkSize \in 0 .. ChunkSize - 1
         /\ x = At(x \div ChunkSize) + (x % ChunkSize)
<1>1. ChunkSize \in Nat /\ ChunkSize > 0
  BY SizeAssumption
<1> DEFINE d == x \div ChunkSize
           r == x % ChunkSize
<1>2. d \in Int /\ d >= 0
  BY <1>1, SMT
<1>3. r \in 0 .. ChunkSize - 1
  BY <1>1, SMT
<1>4. x = ChunkSize * d + r
  BY <1>1, SMT
<1> HIDE DEF d, r
<1>5. ChunkSize * d = d * ChunkSize
  BY <1>1, <1>2, SMT
<1>6. x = At(d) + r
  BY <1>4, <1>5 DEF At
<1>7. d \in Nat
  BY <1>2
<1> QED BY <1>3, <1>6, <1>7, Zenon DEF d, r

LEMMA AtNeed ==
  /\ NeedChunkNum(0) = 0
  /\ \A x \in Nat \ {0} :
       /\ NeedChunkNum(x) \in Nat \ {0}
       /\ At(NeedChunkNum(x) - 1) < x
       /\ x <= At(NeedChunkNum(x))
<1>1. ChunkSize \in Nat /\ ChunkSize > 0
  BY SizeAssumption
<1>2. NeedChunkNum(0) = 0
  BY <1>1, SMT DEF NeedChunkNum
<1>3. ASSUME NEW x \in Nat \ {0}
      PROVE  /\ NeedChunkNum(x) \in Nat \ {0}
             /\ At(NeedChunkNum(x) - 1) < x
             /\ x <= At(NeedChunkNum(x))
  <2> DEFINE y == x + ChunkSize - 1
             d == y \div ChunkSize
             r == y % ChunkSize
  <2>1. y \in Nat /\ NeedChunkNum(x) = d
    BY <1>1 DEF NeedChunkNum
  <2>2. d \in Nat /\ r \in 0 .. ChunkSize - 1 /\ y = At(d) + r
    <3> HIDE DEF y
    <3> QED BY <2>1, AtDivision, Zenon
  <2>3. y = x + ChunkSize - 1
    OBVIOUS
  <2> HIDE DEF y, d, r
  <2>4. d # 0
    BY <1>1, <2>2, <2>3, AtSteps
  <2>5. d - 1 \in Nat /\ d - 1 + 1 = d
    BY <2>2, <2>4
  <2>6. At(d) = At(d - 1) + ChunkSize /\ At(d) \in Nat /\ At(d - 1) \in Nat
    BY <2>2, <2>5, AtSteps
  <2> QED BY <1>1, <2>1, <2>2, <2>3, <2>4, <2>6
<1> QED BY <1>2, <1>3

(* So chunk k of a file holds the bytes from At(k - 1) on, and what lies   *)
(* between there and At(k) and inside the file is in it.                   *)
LEMMA ChunkAt ==
  ASSUME IInv, NEW rank, Layout(rank), Stored(rank), NEW f \in Files, NEW s, ChunksOf(f, s, rank)
  PROVE  /\ Len(s) \in Nat
         /\ \A k \in 1 .. Len(s) : Start(s[k]) = At(k - 1)
         /\ Total(f) <= At(Len(s))
         /\ Len(s) > 0 => At(Len(s) - 1) < Total(f)
<1> DEFINE n == Len(s)
           P == {k \in 0 .. n : k < n => Start(s[k + 1]) = At(k)}
<1>1. /\ n \in Nat
      /\ \A k \in 1 .. n : WrittenLen(s[k]) \in 1 .. ChunkSize
      /\ n > 0 => Start(s[1]) = 0
      /\ \A k \in 1 .. n : k < n => Start(s[k + 1]) = Start(s[k]) + ChunkSize
      /\ Total(f) = IF n = 0 THEN 0 ELSE Start(s[n]) + WrittenLen(s[n])
  BY ChunksFollow
<1> HIDE DEF n
<1>2. 0 \in P
  BY <1>1, AtSteps
<1>3. ASSUME NEW k \in 0 .. n - 1, k \in P PROVE k + 1 \in P
  <2> SUFFICES ASSUME k + 1 < n PROVE Start(s[k + 1 + 1]) = At(k + 1)
    BY <1>1
  <2>1. k + 1 \in 1 .. n /\ k \in Nat /\ k < n
    BY <1>1
  <2>2. Start(s[k + 1]) = At(k) /\ Start(s[k + 1 + 1]) = Start(s[k + 1]) + ChunkSize
    BY <1>1, <1>3, <2>1
  <2> QED BY <2>1, <2>2, AtSteps
<1>4. \A k \in 0 .. n : k \in P
  <2> HIDE DEF P
  <2> QED BY <1>1, <1>2, <1>3, InductionUpTo
<1>5. ASSUME NEW k \in 1 .. n PROVE Start(s[k]) = At(k - 1)
  <2>1. k - 1 \in 0 .. n /\ k - 1 < n /\ k - 1 + 1 = k
    BY <1>1
  <2> QED BY <1>4, <2>1
<1>6. Total(f) <= At(n) /\ (n > 0 => At(n - 1) < Total(f))
  <2>1. CASE n = 0
    BY <1>1, <2>1, AtSteps
  <2>2. CASE n # 0
    <3>1. n \in 1 .. n /\ n - 1 \in Nat /\ n - 1 + 1 = n
      BY <1>1, <2>2
    <3>2. At(n) = At(n - 1) + ChunkSize /\ At(n - 1) \in Nat /\ ChunkSize \in Nat
      BY <3>1, AtSteps
    <3>3. Start(s[n]) = At(n - 1) /\ WrittenLen(s[n]) \in 1 .. ChunkSize
          /\ Total(f) = Start(s[n]) + WrittenLen(s[n])
      BY <1>1, <1>5, <2>2, <3>1
    <3> QED BY <3>2, <3>3
  <2> QED BY <2>1, <2>2
<1> QED BY <1>1, <1>5, <1>6 DEF n

LEMMA PieceOfFile ==
  ASSUME IInv, NEW rank, Layout(rank), Stored(rank), NEW f \in Files, NEW s, ChunksOf(f, s, rank),
         NEW k \in 1 .. Len(s), NEW p \in Nat, NEW q \in Nat,
         At(k - 1) <= p, p <= q, q <= At(k), q <= Total(f)
  PROVE  BytesAt(<<s[k], p - At(k - 1), q - p>>) = Expected(f, p, q - p)
<1> DEFINE n == Len(s)
           a == At(k - 1)
<1>1. n \in Nat /\ Start(s[k]) = a
  BY ChunkAt
<1>2. k - 1 \in Nat /\ k - 1 + 1 = k
  BY <1>1
<1>3. At(k) = a + ChunkSize /\ a \in Nat /\ ChunkSize \in Nat
  BY <1>2, AtSteps
<1>4. /\ s[k] \in Used /\ sha1[s[k]] = f /\ WrittenLen(s[k]) \in Nat
      /\ k < n => WrittenLen(s[k]) = ChunkSize
      /\ Total(f) = IF n = 0 THEN 0 ELSE Start(s[n]) + WrittenLen(s[n])
  BY <1>1, ChunksFollow
<1>5. k < n \/ (k = n /\ n # 0)
  BY <1>1
<1>6. a <= p
  OBVIOUS
<1> HIDE DEF n, a
<1>7. q <= a + WrittenLen(s[k])
  BY <1>1, <1>3, <1>4, <1>5
<1>8. p - a \in Nat /\ q - p \in Nat /\ (p - a) + (q - p) <= WrittenLen(s[k])
      /\ a + (p - a) = p
  BY <1>3, <1>4, <1>6, <1>7
<1>9. BytesAt(<<s[k], p - a, q - p>>) = Expected(sha1[s[k]], Start(s[k]) + (p - a), q - p)
  BY <1>4, <1>8, PieceBytes
<1>10. BytesAt(<<s[k], p - a, q - p>>) = Expected(f, p, q - p)
  BY <1>1, <1>4, <1>8, <1>9
<1> QED BY <1>10 DEF a

(* The list write() works on, up to the first chunk nobody uses, is a list *)
(* of the layout.                                                          *)
LEMMA UsedWalkOnList ==
  ASSUME TypeOK, NEW h \in Chunks PROVE OnList(UsedWalk(h), h)
<1> DEFINE V == Chunks \cup {kInvalidChunkid}
           F == [p \in (1 .. NumChunks) \X V |->
                   IF p[2] \in Chunks /\ isUsed[p[2]] THEN nextChunkid[p[2]] ELSE kInvalidChunkid]
           IsWalk(w) == w = [i \in 0 .. NumChunks |->
                               IF i = 0 THEN h
                               ELSE IF w[i-1] \in Chunks /\ isUsed[w[i-1]] THEN nextChunkid[w[i-1]]
                               ELSE kInvalidChunkid]
<1>1. nextChunkid \in [Chunks -> V] /\ h \in V /\ NumChunks \in Nat
  BY SizeAssumption DEF TypeOK
<1>2. F \in [(1 .. NumChunks) \X V -> V]
  BY <1>1
<1>3. PICK g \in [0 .. NumChunks -> V] : Follows(g, NumChunks, h, F)
  <2> HIDE DEF F, V
  <2> QED BY <1>1, <1>2, RecursionUpTo
<1>4. \A i \in 1 .. NumChunks : g[i] = IF g[i-1] \in Chunks /\ isUsed[g[i-1]]
                                       THEN nextChunkid[g[i-1]] ELSE kInvalidChunkid
  <2> TAKE i \in 1 .. NumChunks
  <2>1. i - 1 \in 0 .. NumChunks
    BY <1>1
  <2>2. g[i-1] \in V /\ g[i] = F[<<i, g[i - 1]>>]
    <3> HIDE DEF F, V
    <3> QED BY <1>3, <2>1 DEF Follows
  <2>3. <<i, g[i - 1]>> \in (1 .. NumChunks) \X V
    BY <2>2
  <2> QED BY <2>2, <2>3, Zenon
<1>5. IsWalk(g)
  BY <1>1, <1>3, <1>4 DEF Follows
<1>6. IsWalk(UsedWalk(h))
  <2>1. UsedWalk(h) = CHOOSE w : IsWalk(w)
    BY DEF UsedWalk
  <2> HIDE DEF IsWalk
  <2> QED BY <1>5, <2>1
<1> DEFINE w == UsedWalk(h)
<1>7. w = [i \in 0 .. NumChunks |->
             IF i = 0 THEN h
             ELSE IF w[i-1] \in Chunks /\ isUsed[w[i-1]] THEN nextChunkid[w[i-1]]
             ELSE kInvalidChunkid]
  BY <1>6
<1> HIDE DEF w
<1>8. w[0] = h /\ \A i \in 1 .. NumChunks :
        w[i] = IF w[i-1] \in Chunks /\ isUsed[w[i-1]] THEN nextChunkid[w[i-1]] ELSE kInvalidChunkid
  BY <1>1, <1>7
<1>9. OnList(w, h)
  BY <1>8 DEF OnList, Used, Chunks, kInvalidChunkid
<1> QED BY <1>9 DEF w

(* What a reader sees of a file, also while write() runs: its bytes, from  *)
(* the first to the last one written.                                      *)
LEMMA ContentIs ==
  ASSUME IInv, NEW rank, Layout(rank), Stored(rank), NEW f \in Files
  PROVE  Content(f) = Expected(f, 0, Total(f))
<1> DEFINE s == Gathered(UsedWalk(HashKey[f]), f)[NumChunks]
           n == Len(s)
           pieces == [i \in 1 .. n |-> <<s[i], 0, WrittenLen(s[i])>>]
           at == [i \in 1 .. n + 1 |-> IF i = n + 1 THEN Total(f) ELSE Start(s[i])]
<1>1. ChunksOf(f, s, rank)
  BY UsedWalkOnList, GatheredChunks, HashKeyAssumption DEF IInv
<1>2. Content(f) = Joined(pieces)
  BY DEF Content
<1> HIDE DEF s
<1>3. /\ n \in Nat
      /\ \A k \in 1 .. n : s[k] \in Used /\ sha1[s[k]] = f /\ WrittenLen(s[k]) \in 1 .. ChunkSize
      /\ \A k \in 1 .. n : k < n => WrittenLen(s[k]) = ChunkSize
      /\ n > 0 => Start(s[1]) = 0
      /\ \A k \in 1 .. n : k < n => Start(s[k + 1]) = Start(s[k]) + ChunkSize
      /\ Total(f) = IF n = 0 THEN 0 ELSE Start(s[n]) + WrittenLen(s[n])
  BY <1>1, ChunksFollow
<1>4. ChunkSize \in Nat /\ Total(f) \in Nat /\ \A k \in 1 .. n : Start(s[k]) \in Nat
  BY <1>3, StoredTypes DEF Used
<1> HIDE DEF n
<1>5. Len(pieces) = n
  BY <1>3
<1>6. at \in [1 .. n + 1 -> Nat]
  BY <1>3, <1>4
<1>7. at[1] = 0 /\ at[n + 1] = Total(f)
  <2>1. CASE n = 0
    BY <1>3, <2>1
  <2>2. CASE n # 0
    BY <1>3, <2>2
  <2> QED BY <2>1, <2>2
<1>8. ASSUME NEW i \in 1 .. n PROVE at[i + 1] = at[i] + WrittenLen(s[i]) /\ at[i] = Start(s[i])
  <2>1. i + 1 \in 1 .. n + 1 /\ i \in 1 .. n + 1 /\ i # n + 1
    BY <1>3
  <2>2. CASE i = n
    BY <1>3, <2>1, <2>2
  <2>3. CASE i # n
    <3>1. i < n /\ i + 1 # n + 1
      BY <1>3, <2>3
    <3> QED BY <1>3, <2>1, <3>1
  <2> QED BY <2>2, <2>3
<1>9. ASSUME NEW i \in 1 .. n
      PROVE  /\ at[i] <= at[i + 1]
             /\ BytesAt(pieces[i]) = Expected(f, at[i], at[i + 1] - at[i])
  <2>1. /\ s[i] \in Used /\ sha1[s[i]] = f /\ WrittenLen(s[i]) \in Nat /\ Start(s[i]) \in Nat
        /\ 0 + WrittenLen(s[i]) <= WrittenLen(s[i])
    BY <1>3, <1>4
  <2>2. BytesAt(<<s[i], 0, WrittenLen(s[i])>>) = Expected(sha1[s[i]], Start(s[i]) + 0, WrittenLen(s[i]))
    BY <2>1, PieceBytes
  <2>3. Start(s[i]) + 0 = at[i] /\ at[i + 1] - at[i] = WrittenLen(s[i]) /\ at[i] <= at[i + 1]
    <3>1. PICK a, b, w : a = at[i] /\ b = at[i + 1] /\ w = WrittenLen(s[i])
      OBVIOUS
    <3>2. b = a + w /\ a = Start(s[i])
      BY <1>8, <3>1, Zenon
    <3>3. a \in Nat /\ w \in Nat
      BY <2>1, <3>1, <3>2, Zenon
    <3>4. a + 0 = a /\ b - a = w /\ a <= b
      BY <3>2, <3>3
    <3> QED BY <3>1, <3>2, <3>4, Zenon
  <2> HIDE DEF at
  <2> QED BY <2>1, <2>2, <2>3
<1>10. Joined(pieces) = Expected(f, at[1], at[n + 1] - at[1])
  <2> HIDE DEF at, pieces
  <2> QED BY <1>3, <1>5, <1>6, <1>9, JoinedRuns
<1>11. Joined(pieces) = Expected(f, 0, Total(f))
  <2> HIDE DEF at, pieces
  <2>1. Total(f) - 0 = Total(f)
    BY <1>4
  <2> QED BY <1>7, <1>10, <2>1
<1> QED BY <1>2, <1>11
---------------------------------------------------------------------------
(* calcReadVariable, for a range inside the file: the i-th piece is in the *)
(* chunk i - 1 after the one that holds the offset, and covers the         *)
(* positions from at[i] up to at[i + 1].                                   *)
Covers(pieces, s, m, at, first, from, to) ==
  /\ m \in Nat \ {0} /\ Len(pieces) = m
  /\ at \in [1 .. m + 1 -> Nat] /\ at[1] = from /\ at[m + 1] = to
  /\ \A i \in 1 .. m :
       /\ first + i \in 1 .. Len(s)
       /\ At(first + i - 1) <= at[i] /\ at[i] <= at[i + 1]
       /\ at[i + 1] <= At(first + i) /\ at[i + 1] <= to
       /\ pieces[i] = <<s[first + i], at[i] - At(first + i - 1), at[i + 1] - at[i]>>

(* What ReadInfo computes, with At(k) for the multiples of the chunk size. *)
LEMMA ReadInfoIs ==
  ASSUME NEW f, NEW len, NEW offset
  PROVE  LET s == ReadChunkids(f)
             first == offset \div ChunkSize
             skip == offset % ChunkSize
             isLast == first + 1 = Len(s)
             room == IF isLast THEN WrittenLen(s[first + 1]) ELSE ChunkSize
             firstLen == Min2(room - skip, len)
             rest == len - firstLen
             more == Min2(NeedChunkNum(rest), Len(s) - first - 1)
         IN ReadInfo(f, len, offset) =
              <<<<s[first + 1], skip, firstLen>>>> \o
              (IF isLast THEN <<>>
               ELSE [i \in 1..more |-> <<s[first + 1 + i], 0, Min2(ChunkSize, rest - At(i - 1))>>])
BY Zenon DEF ReadInfo, At

(* A pair of sequences glued together, entry by entry.                     *)
LEMMA FirstAndRest ==
  ASSUME NEW x, NEW n \in Nat, NEW t, Len(t) = n, t = [i \in 1 .. n |-> t[i]]
  PROVE  /\ Len(<<x>> \o t) = n + 1
         /\ (<<x>> \o t)[1] = x
         /\ \A i \in 1 .. n : (<<x>> \o t)[i + 1] = t[i]
<1> DEFINE S == {x} \cup {t[i] : i \in 1 .. n}
<1>1. <<x>> \in Seq(S) /\ Len(<<x>>) = 1 /\ <<x>>[1] = x
  OBVIOUS
<1>2. t \in Seq(S)
  <2>1. \A i \in 1 .. n : t[i] \in S
    OBVIOUS
  <2>2. t \in [1 .. n -> S]
    <3> HIDE DEF S
    <3> QED BY <2>1
  <2> HIDE DEF S
  <2> QED BY <2>2
<1> HIDE DEF S
<1>3. /\ Len(<<x>> \o t) = 1 + n
      /\ \A i \in 1 .. 1 + n : (<<x>> \o t)[i] = IF i <= 1 THEN <<x>>[i] ELSE t[i - 1]
  <2>1. /\ Len(<<x>> \o t) = Len(<<x>>) + Len(t)
        /\ \A i \in 1 .. Len(<<x>>) + Len(t) :
             (<<x>> \o t)[i] = IF i <= Len(<<x>>) THEN <<x>>[i] ELSE t[i - Len(<<x>>)]
    BY <1>1, <1>2, ConcatProperties
  <2> QED BY <1>1, <2>1, Zenon
<1> DEFINE u == <<x>> \o t
<1>4. Len(u) = 1 + n /\ \A i \in 1 .. 1 + n : u[i] = IF i <= 1 THEN <<x>>[i] ELSE t[i - 1]
  BY <1>3
<1> HIDE DEF u
<1>5. Len(u) = n + 1 /\ u[1] = x /\ \A i \in 1 .. n : u[i + 1] = t[i]
  <2>1. u[1] = x
    <3>1. 1 \in 1 .. 1 + n /\ 1 <= 1
      OBVIOUS
    <3> QED BY <1>1, <1>4, <3>1
  <2>2. ASSUME NEW i \in 1 .. n PROVE u[i + 1] = t[i]
    <3>1. PICK j : j = i + 1
      OBVIOUS
    <3>2. j \in 1 .. 1 + n /\ ~(j <= 1) /\ j - 1 = i
      BY <3>1
    <3>3. u[j] = t[j - 1]
      BY <1>4, <3>2, Zenon
    <3> QED BY <3>1, <3>2, <3>3
  <2> QED BY <1>4, <2>1, <2>2
<1> QED BY <1>5 DEF u

LEMMA ReadInfoCovers ==
  ASSUME IInv, NEW rank, Layout(rank), Stored(rank), NEW f \in Files, NEW s,
         s = ReadChunkids(f), ChunksOf(f, s, rank),
         NEW offset \in Nat, NEW len \in Nat, offset < Total(f), offset + len <= Total(f)
  PROVE  \E m, at : Covers(ReadInfo(f, len, offset), s, m, at,
                           offset \div ChunkSize, offset, offset + len)
<1> DEFINE first == offset \div ChunkSize
           skip == offset % ChunkSize
           n == Len(s)
           isLast == first + 1 = n
           room == IF isLast THEN WrittenLen(s[first + 1]) ELSE ChunkSize
           firstLen == Min2(room - skip, len)
           rest == len - firstLen
           more == Min2(NeedChunkNum(rest), n - first - 1)
           tail == [i \in 1..more |-> <<s[first + 1 + i], 0, Min2(ChunkSize, rest - At(i - 1))>>]
           pieces == ReadInfo(f, len, offset)
           end == offset + len
<1>1. pieces = <<<<s[first + 1], skip, firstLen>>>> \o (IF isLast THEN <<>> ELSE tail)
  BY ReadInfoIs
<1> HIDE DEF pieces
<1>2. /\ ChunkSize \in Nat /\ ChunkSize > 0 /\ Total(f) \in Nat
      /\ first \in Nat /\ skip \in 0 .. ChunkSize - 1 /\ offset = At(first) + skip
  BY AtSteps, AtDivision, StoredTypes
<1> HIDE DEF first, skip
<1>3. /\ n \in Nat /\ Total(f) <= At(n)
      /\ \A k \in 1 .. n : WrittenLen(s[k]) \in 1 .. ChunkSize /\ Start(s[k]) = At(k - 1)
      /\ Total(f) = IF n = 0 THEN 0 ELSE Start(s[n]) + WrittenLen(s[n])
  BY ChunksFollow, ChunkAt
<1>4. At(first) \in Nat /\ At(first + 1) = At(first) + ChunkSize
  BY <1>2, AtSteps
<1> HIDE DEF n
<1>5. first < n
  <2> SUFFICES ASSUME n <= first PROVE FALSE
    BY <1>2, <1>3
  <2>1. At(n) <= At(first) /\ At(n) \in Nat
    BY <1>2, <1>3, AtSteps
  <2> QED BY <1>2, <1>3, <1>4, <2>1
<1>6. first + 1 \in 1 .. n /\ first + 1 - 1 = first
  BY <1>2, <1>3, <1>5
<1>7. CASE isLast \/ len <= ChunkSize - skip
  <2> DEFINE at == [i \in 1 .. 2 |-> IF i = 1 THEN offset ELSE end]
  <2>1. firstLen = len /\ end <= At(first + 1)
    <3>1. CASE isLast
      <4>1. Total(f) = At(first) + WrittenLen(s[n]) /\ WrittenLen(s[n]) \in 1 .. ChunkSize
        <5>1. n = first + 1 /\ n \in 1 .. n /\ n # 0 /\ n - 1 = first
          BY <1>2, <1>3, <1>6, <3>1
        <5>2. Start(s[n]) = At(n - 1) /\ WrittenLen(s[n]) \in 1 .. ChunkSize
          BY <1>3, <5>1
        <5> QED BY <1>3, <5>1, <5>2
      <4>2. room = WrittenLen(s[n])
        BY <3>1
      <4>3. len <= room - skip
        BY <1>2, <1>4, <4>1, <4>2
      <4>4. room - skip \in Int
        BY <1>2, <4>1, <4>2
      <4> HIDE DEF room, isLast
      <4> QED BY <1>2, <1>4, <4>1, <4>2, <4>3, <4>4 DEF Min2
    <3>2. CASE ~isLast
      <4>1. room = ChunkSize /\ len <= ChunkSize - skip
        BY <1>7, <3>2
      <4> HIDE DEF room, isLast
      <4> QED BY <1>2, <1>4, <4>1 DEF Min2
    <3> QED BY <3>1, <3>2
  <2>2. isLast \/ more = 0
    <3> SUFFICES ASSUME ~isLast PROVE more = 0
      OBVIOUS
    <3>1. rest = 0
      <4> HIDE DEF firstLen
      <4> QED BY <2>1
    <3>2. NeedChunkNum(rest) = 0
      <4> HIDE DEF rest
      <4> QED BY <3>1, AtNeed
    <3>3. 0 <= n - first - 1
      BY <1>2, <1>3, <1>5
    <3> HIDE DEF rest
    <3> QED BY <3>2, <3>3 DEF Min2
  <2>3. (IF isLast THEN <<>> ELSE tail) = <<>>
    <3> HIDE DEF isLast, more
    <3>1. more = 0 => tail = <<>>
      OBVIOUS
    <3> QED BY <2>2, <3>1
  <2>4. pieces = <<<<s[first + 1], skip, len>>>>
    <3>1. PICK x : x = <<s[first + 1], skip, len>>
      OBVIOUS
    <3>2. <<x>> \o <<>> = <<x>>
      <4>1. <<x>> \in Seq({x})
        OBVIOUS
      <4> QED BY <4>1, ConcatEmptySeq
    <3>3. pieces = <<x>> \o (IF isLast THEN <<>> ELSE tail)
      <4> HIDE DEF isLast, tail, firstLen
      <4> QED BY <1>1, <2>1, <3>1
    <3> HIDE DEF isLast, tail, firstLen
    <3> QED BY <2>3, <3>1, <3>2, <3>3
  <2>5. at \in [1 .. 1 + 1 -> Nat] /\ at[1] = offset /\ at[1 + 1] = end /\ end \in Nat
        /\ offset <= end
    OBVIOUS
  <2>6. offset - At(first) = skip /\ end - offset = len /\ At(first) <= offset
    BY <1>2, <1>4
  <2>7. Len(pieces) = 1 /\ pieces[1] = <<s[first + 1], skip, len>>
    BY <2>4
  <2> HIDE DEF at, end
  <2>8. Covers(pieces, s, 1, at, first, offset, end)
    <3> SUFFICES ASSUME NEW i \in 1 .. 1
                 PROVE  /\ first + i \in 1 .. n
                        /\ At(first + i - 1) <= at[i] /\ at[i] <= at[i + 1]
                        /\ at[i + 1] <= At(first + i) /\ at[i + 1] <= end
                        /\ pieces[i] = <<s[first + i], at[i] - At(first + i - 1), at[i + 1] - at[i]>>
      BY <2>5, <2>7 DEF Covers, n
    <3>1. i = 1
      OBVIOUS
    <3> QED BY <1>6, <2>1, <2>5, <2>6, <2>7, <3>1
  <2> QED BY <2>8 DEF end, pieces, first
<1>8. CASE ~isLast /\ len > ChunkSize - skip
  <2>1. room = ChunkSize /\ firstLen = ChunkSize - skip /\ first + 1 # n
    <3>1. room = ChunkSize /\ first + 1 # n
      BY <1>8
    <3> HIDE DEF room
    <3> QED BY <1>2, <1>8, <3>1 DEF Min2
  <2>2. rest = len - (ChunkSize - skip) /\ rest \in Nat \ {0}
        /\ end = At(first + 1) + rest
    <3> HIDE DEF room
    <3>1. rest = len - (ChunkSize - skip)
      BY <2>1
    <3> HIDE DEF firstLen, rest
    <3> QED BY <1>2, <1>4, <1>8, <3>1
  <2>3. pieces = <<<<s[first + 1], skip, ChunkSize - skip>>>> \o tail
    <3> HIDE DEF tail, firstLen
    <3> QED BY <1>1, <1>8, <2>1
  <2> DEFINE need == NeedChunkNum(rest)
             b == first + 1
  <2>4. need \in Nat \ {0} /\ At(need - 1) < rest /\ rest <= At(need)
    <3> HIDE DEF rest
    <3> QED BY <2>2, AtNeed
  <2>5. more = Min2(need, n - first - 1)
    OBVIOUS
  <2> HIDE DEF isLast, rest, firstLen, room, more, end, need
  <2>6. end \in Nat /\ end <= Total(f) /\ end = offset + len
    BY <1>2 DEF end
  <2>7. b \in Nat /\ need - 1 \in Nat /\ b + (need - 1) \in Nat /\ At(b) \in Nat
        /\ At(b + (need - 1)) = At(b) + At(need - 1) /\ At(need - 1) \in Nat
        /\ At(b + need) = At(b) + At(need) /\ At(need) \in Nat
    BY <1>2, <2>4, AtSteps
  <2>8. b + (need - 1) < n
    <3> SUFFICES ASSUME n <= b + (need - 1) PROVE FALSE
      BY <1>3, <2>7
    <3>1. At(n) <= At(b + (need - 1)) /\ At(n) \in Nat
      BY <1>3, <2>7, AtSteps
    <3> QED BY <1>2, <1>3, <2>2, <2>4, <2>6, <2>7, <3>1
  <2>9. more = need
    <3>1. need <= n - first - 1
      BY <1>2, <1>3, <2>4, <2>8
    <3> QED BY <2>5, <3>1 DEF Min2
  <2> DEFINE m == need + 1
             at == [i \in 1 .. m + 1 |-> IF i = 1 THEN offset ELSE IF i = m + 1 THEN end
                                         ELSE At(first + i - 1)]
  <2>10. /\ Len(pieces) = m
         /\ pieces[1] = <<s[first + 1], skip, ChunkSize - skip>>
         /\ \A i \in 1 .. need :
              pieces[i + 1] = <<s[b + i], 0, Min2(ChunkSize, rest - At(i - 1))>>
    <3>1. /\ Len(tail) = need /\ tail = [i \in 1 .. need |-> tail[i]]
          /\ \A i \in 1 .. need : tail[i] = <<s[b + i], 0, Min2(ChunkSize, rest - At(i - 1))>>
      BY <2>4, <2>9
    <3> HIDE DEF tail
    <3>2. PICK t : t = tail
      OBVIOUS
    <3>3. PICK x : x = <<s[first + 1], skip, ChunkSize - skip>>
      OBVIOUS
    <3>4. need \in Nat /\ Len(t) = need /\ t = [i \in 1 .. need |-> t[i]]
      BY <2>4, <3>1, <3>2
    <3>5. /\ Len(<<x>> \o t) = need + 1 /\ (<<x>> \o t)[1] = x
          /\ \A i \in 1 .. need : (<<x>> \o t)[i + 1] = t[i]
      BY <3>4, FirstAndRest
    <3>6. pieces = <<x>> \o t
      BY <2>3, <3>2, <3>3
    <3> QED BY <3>1, <3>2, <3>3, <3>5, <3>6
  <2>11. /\ at \in [1 .. m + 1 -> Nat] /\ at[1] = offset /\ at[m + 1] = end
         /\ \A i \in 2 .. m : at[i] = At(first + i - 1)
    <3>1. \A i \in 1 .. m + 1 : i # 1 => first + i - 1 \in Nat
      BY <1>2
    <3>2. \A i \in 1 .. m + 1 : i # 1 => At(first + i - 1) \in Nat
      BY <3>1, AtSteps
    <3>3. m + 1 # 1 /\ 1 \in 1 .. m + 1 /\ m + 1 \in 1 .. m + 1
      BY <2>4
    <3>4. \A i \in 2 .. m : i \in 1 .. m + 1 /\ i # 1 /\ i # m + 1
      BY <2>4
    <3> QED BY <2>6, <3>2, <3>3, <3>4
  <2> HIDE DEF at
  <2>12. ASSUME NEW i \in 1 .. m
         PROVE  /\ first + i \in 1 .. n
                /\ At(first + i - 1) <= at[i] /\ at[i] <= at[i + 1]
                /\ at[i + 1] <= At(first + i) /\ at[i + 1] <= end
                /\ pieces[i] = <<s[first + i], at[i] - At(first + i - 1), at[i + 1] - at[i]>>
    <3>1. first + i \in 1 .. n
      BY <1>2, <1>3, <2>4, <2>8
    <3>2. CASE i = 1
      <4>1. at[1 + 1] = At(first + 1) /\ first + i - 1 = first
        <5>1. 1 + 1 \in 2 .. m /\ first + (1 + 1) - 1 = first + 1 /\ first + i - 1 = first
          BY <1>2, <2>4, <3>2
        <5> QED BY <2>11, <5>1
      <4>2. At(first) <= offset /\ offset <= At(first + 1) /\ At(first + 1) <= end
            /\ offset - At(first) = skip /\ At(first + 1) - offset = ChunkSize - skip
        BY <1>2, <1>4, <2>2
      <4> QED BY <2>10, <2>11, <3>1, <3>2, <4>1, <4>2, <1>4
    <3>3. CASE i # 1
      <4> DEFINE j == i - 1
                 k == j - 1
      <4>1. /\ j \in 1 .. need /\ j + 1 = i /\ b + j = first + i /\ k \in Nat /\ j = k + 1
            /\ first + i - 1 = b + k /\ i \in 2 .. m
        BY <1>2, <2>4, <3>3
      <4> HIDE DEF j, k
      <4>2. /\ At(b + k) = At(b) + At(k) /\ At(b + j) = At(b) + At(k) + ChunkSize
            /\ At(k) \in Nat /\ At(b + k) \in Nat /\ b + k \in Nat /\ At(b + j) \in Nat
            /\ At(j) = At(k) + ChunkSize
        <5>1. b + j = b + k + 1 /\ b + k \in Nat
          BY <2>7, <4>1
        <5>2. /\ At(b + k) = At(b) + At(k) /\ At(k) \in Nat /\ At(b + k) \in Nat
              /\ At(b + k + 1) = At(b + k) + ChunkSize /\ At(k + 1) = At(k) + ChunkSize
          BY <2>7, <4>1, <5>1, AtSteps
        <5>3. At(b + j) = At(b + k) + ChunkSize /\ At(j) = At(k) + ChunkSize
          BY <4>1, <5>1, <5>2
        <5> QED BY <1>2, <2>7, <5>1, <5>2, <5>3
      <4>3. at[i] = At(b + k)
        BY <2>11, <4>1
      <4>4. pieces[i] = <<s[first + i], 0, Min2(ChunkSize, rest - At(k))>>
        BY <2>10, <4>1 DEF k
      <4>5. CASE j = need
        <5>1. at[i + 1] = end
          BY <2>11, <4>1, <4>5
        <5>2. /\ end = At(b) + rest /\ At(k) < rest /\ rest <= At(k) + ChunkSize
              /\ need - 1 = k
          BY <2>2, <2>4, <4>1, <4>2, <4>5
        <5>3. rest - At(k) <= ChunkSize /\ rest - At(k) = end - At(b + k)
          BY <1>2, <2>2, <2>7, <4>2, <5>2
        <5>4. Min2(ChunkSize, rest - At(k)) = end - At(b + k)
          BY <1>2, <2>2, <4>2, <5>3 DEF Min2
        <5>5. At(b + k) - At(b + k) = 0 /\ At(b + k) <= end /\ end <= At(b + j)
          BY <1>2, <2>2, <2>6, <2>7, <4>2, <5>2
        <5> QED BY <2>6, <3>1, <4>1, <4>2, <4>3, <4>4, <5>1, <5>4, <5>5
      <4>6. CASE j # need
        <5>1. at[i + 1] = At(b + j)
          <6>1. i + 1 \in 2 .. m /\ first + (i + 1) - 1 = b + j
            BY <1>2, <2>4, <4>1, <4>6
          <6> QED BY <2>11, <6>1
        <5>2. At(j) <= At(need - 1)
          <6>1. j \in Nat /\ need - 1 \in Nat /\ j <= need - 1
            BY <2>4, <4>1, <4>6
          <6> QED BY <6>1, AtSteps
        <5>3. At(j) < rest /\ ChunkSize <= rest - At(k)
          BY <1>2, <2>2, <2>4, <2>7, <4>2, <5>2
        <5>4. Min2(ChunkSize, rest - At(k)) = At(b + j) - At(b + k)
          BY <1>2, <2>2, <2>7, <4>2, <5>3 DEF Min2
        <5>5. At(b + k) - At(b + k) = 0 /\ At(b + k) <= At(b + j) /\ At(b + j) <= end
          BY <1>2, <2>2, <2>6, <2>7, <4>2, <5>3
        <5> QED BY <2>6, <3>1, <4>1, <4>2, <4>3, <4>4, <5>1, <5>4, <5>5
      <4> QED BY <4>5, <4>6
    <3> QED BY <3>2, <3>3
  <2>13. m \in Nat \ {0}
    BY <2>4
  <2> HIDE DEF m
  <2>14. Covers(pieces, s, m, at, first, offset, end)
    BY <2>10, <2>11, <2>12, <2>13 DEF Covers, n
  <2> QED BY <2>14 DEF end, pieces, first
<1>9. isLast \/ len <= ChunkSize - skip \/ len > ChunkSize - skip
  BY <1>2
<1> QED BY <1>7, <1>8, <1>9

(* What write() reported as written, read() returns: any range inside the  *)
(* file comes back as the caller passed it, over any number of chunks and  *)
(* with other files' chunks in between, and its first bytes if the data    *)
(* file cannot be read to the end (read, EdgeFS.cpp:555-680).              *)
THEOREM ReadsBack == ASSUME Faultless PROVE Spec => []ReadBack
<1>1. ASSUME IInv, InPlace PROVE ReadBack
  <2> SUFFICES ASSUME pc = "ready", NEW f \in Files, NEW offset \in 0 .. NumChunks * ChunkSize,
                      NEW len \in 0 .. acked[f] - offset, offset < acked[f]
               PROVE  /\ Read(f, len, offset) = Expected(f, offset, len)
                      /\ \A n \in 0 .. Len(ReadInfo(f, len, offset)) - 1 :
                           LET got == ReadBefore(f, len, offset, n)
                           IN  got = Expected(f, offset, Len(got))
    BY DEF ReadBack
  <2>1. PICK rank : Layout(rank) /\ Stored(rank)
    BY <1>1 DEF InPlace
  <2>2. PICK s : s = ReadChunkids(f)
    OBVIOUS
  <2>3. ChunksOf(f, s, rank)
    BY <1>1, <2>1, <2>2, ReadChunks
  <2>4. Total(f) = acked[f] /\ acked[f] \in Nat
    <3>1. op = NoOp /\ acked[f] \in Nat
      BY <1>1, <2>1 DEF Stored, PendingBytes, IInv, TypeOK
    <3> QED BY <3>1 DEF Total, NoOp
  <2>5. offset \in Nat /\ len \in Nat /\ offset + len <= Total(f) /\ offset < Total(f)
        /\ offset + len - offset = len
    BY <2>4
  <2> DEFINE pieces == ReadInfo(f, len, offset)
             first == offset \div ChunkSize
  <2>6. PICK m, at : Covers(pieces, s, m, at, first, offset, offset + len)
    BY <1>1, <2>1, <2>2, <2>3, <2>5, ReadInfoCovers
  <2>7. first \in Nat
    BY <2>5, AtDivision
  <2> HIDE DEF pieces, first
  <2>8. ASSUME NEW i \in 1 .. m
        PROVE  /\ at[i] <= at[i + 1]
               /\ BytesAt(pieces[i]) = Expected(f, at[i], at[i + 1] - at[i])
    <3>1. /\ first + i \in 1 .. Len(s)
          /\ At(first + i - 1) <= at[i] /\ at[i] <= at[i + 1]
          /\ at[i + 1] <= At(first + i) /\ at[i + 1] <= offset + len
          /\ pieces[i] = <<s[first + i], at[i] - At(first + i - 1), at[i + 1] - at[i]>>
      BY <2>6, <2>8 DEF Covers
    <3>2. at[i] \in Nat /\ at[i + 1] \in Nat
      <4>1. m \in Nat /\ at \in [1 .. m + 1 -> Nat]
        BY <2>6 DEF Covers
      <4>2. i \in 1 .. m + 1 /\ i + 1 \in 1 .. m + 1
        BY <4>1
      <4> QED BY <4>1, <4>2
    <3>3. at[i + 1] <= Total(f)
      BY <2>4, <2>5, <3>1, <3>2
    <3>4. BytesAt(<<s[first + i], at[i] - At(first + i - 1), at[i + 1] - at[i]>>)
            = Expected(f, at[i], at[i + 1] - at[i])
      <4>1. PICK k : k = first + i /\ k - 1 = first + i - 1
        BY <2>7
      <4>2. PICK p, q : p = at[i] /\ q = at[i + 1]
        OBVIOUS
      <4>3. k \in 1 .. Len(s) /\ At(k - 1) <= p /\ p <= q /\ q <= At(k) /\ q <= Total(f)
            /\ p \in Nat /\ q \in Nat
        BY <3>1, <3>2, <3>3, <4>1, <4>2
      <4>4. BytesAt(<<s[k], p - At(k - 1), q - p>>) = Expected(f, p, q - p)
        BY <1>1, <2>1, <2>3, <4>3, PieceOfFile
      <4> QED BY <4>1, <4>2, <4>4
    <3> QED BY <3>1, <3>4
  <2>9. m \in Nat /\ Len(pieces) = m /\ at \in [1 .. m + 1 -> Nat]
        /\ at[1] = offset /\ at[m + 1] = offset + len
    BY <2>6 DEF Covers
  <2>10. Joined(pieces) = Expected(f, at[1], at[m + 1] - at[1])
    BY <2>8, <2>9, JoinedRuns
  <2>11. Joined(pieces) = Expected(f, offset, len)
    BY <2>5, <2>9, <2>10
  <2>12. ASSUME NEW n \in 0 .. Len(pieces) - 1, NEW got, got = Joined([i \in 1 .. n |-> pieces[i]])
         PROVE  got = Expected(f, offset, Len(got))
    <3>1. PICK q : q = [i \in 1 .. n |-> pieces[i]]
      OBVIOUS
    <3>2. PICK cut : cut = [i \in 1 .. n + 1 |-> at[i]]
      OBVIOUS
    <3>3. /\ n \in Nat /\ n <= m - 1 /\ Len(q) = n /\ \A i \in 1 .. n : q[i] = pieces[i]
          /\ DOMAIN cut = 1 .. n + 1 /\ \A i \in 1 .. n + 1 : cut[i] = at[i]
      <4>1. n \in Nat /\ n <= m - 1
        BY <2>9, <2>12
      <4>2. Len(q) = n /\ \A i \in 1 .. n : q[i] = pieces[i]
        BY <3>1, <4>1
      <4> QED BY <3>2, <4>1, <4>2
    <3>4. cut \in [1 .. n + 1 -> Nat]
      <4>1. \A i \in 1 .. n + 1 : i \in 1 .. m + 1 /\ at[i] \in Nat
        BY <2>9, <3>3
      <4> QED BY <3>2, <4>1
    <3>5. \A i \in 1 .. n : /\ cut[i] <= cut[i + 1]
                            /\ BytesAt(q[i]) = Expected(f, cut[i], cut[i + 1] - cut[i])
      <4> SUFFICES ASSUME NEW i \in 1 .. n
                   PROVE  /\ cut[i] <= cut[i + 1]
                          /\ BytesAt(q[i]) = Expected(f, cut[i], cut[i + 1] - cut[i])
        OBVIOUS
      <4>1. m \in Nat /\ n \in Nat /\ n <= m - 1
        BY <2>9, <3>3
      <4>2. i \in 1 .. m /\ i \in 1 .. n + 1 /\ i + 1 \in 1 .. n + 1
        BY <4>1
      <4>3. q[i] = pieces[i] /\ cut[i] = at[i] /\ cut[i + 1] = at[i + 1]
        BY <3>3, <4>2
      <4> QED BY <2>8, <4>2, <4>3
    <3>6. Joined(q) = Expected(f, cut[1], cut[n + 1] - cut[1]) /\ cut[1] <= cut[n + 1]
      <4>1. n \in Nat /\ Len(q) = n
        BY <3>3
      <4> QED BY <3>4, <3>5, <4>1, JoinedRuns, Zenon
    <3>7. cut[1] = offset /\ cut[n + 1] \in Nat
      BY <2>9, <3>3, <3>4
    <3>8. cut[n + 1] - offset \in Nat
      BY <2>5, <3>6, <3>7
    <3>9. got = Expected(f, offset, cut[n + 1] - offset)
      BY <2>12, <3>1, <3>6, <3>7
    <3>10. Len(got) = cut[n + 1] - offset
      BY <2>5, <3>8, <3>9, ExpectedSeq
    <3> QED BY <3>9, <3>10
  <2> QED BY <2>11, <2>12 DEF Read, ReadBefore, pieces
<1> QED BY <1>1, InPlaceKept, Invariance, PTL
---------------------------------------------------------------------------
(* What a reader sees of each file: the bytes written so far.              *)
Contents == [f \in Files |-> Content(f)]
SeesTotal == \A f \in Files : Content(f) = Expected(f, 0, Total(f))

(* The locals with which write() starts.                                   *)
LEMMA BeginWriteOp ==
  ASSUME IInv, NEW f \in Files, NEW len \in WriteLens, BeginWrite(f, len)
  PROVE  op'.file = f /\ op'.remain = len /\ op'.real \in {0, -1}
<1> DEFINE refused == [NoOp EXCEPT !.file = f, !.remain = len, !.real = -1]
           Started(t, ct, first, last, ids) ==
             [file |-> f, tail |-> t, chunkTail |-> ct, firstWriteLen |-> first,
              lastChunkWriteLen |-> last, ids |-> ids, i |-> 1, remain |-> len, real |-> 0]
<1>1. op' = refused \/ \E t, ct, first, last, ids : op' = Started(t, ct, first, last, ids)
  <2>1. PICK t \in Chunks \cup {kInvalidChunkid}, ct \in Chunks :
          LET first == FirstWriteLen(t, len)
              rest == len - first
              need == NeedChunkNum(rest)
          IN /\ FileTailIs(f, t) /\ ChunkTailIs(HashKey[f], ct)
             /\ first \in 0..ChunkSize /\ first <= len
             /\ rest \in Nat /\ need \in Nat
             /\ \E ids \in IF need = 0 THEN {<<>>} ELSE IdleChunkidChoices(t, need) :
                  IF ids = <<>> /\ need # 0
                  THEN /\ pc' = "return"
                       /\ op' = [NoOp EXCEPT !.file = f, !.remain = len, !.real = -1]
                  ELSE /\ pc' = "first"
                       /\ op' = [file |-> f, tail |-> t, chunkTail |-> ct,
                                 firstWriteLen |-> first,
                                 lastChunkWriteLen |-> LastChunkWriteLen(rest),
                                 ids |-> ids, i |-> 1, remain |-> len, real |-> 0]
    BY BeginWriteOutcome
  <2>2. op' = refused \/ \E ids : op' = Started(t, ct, FirstWriteLen(t, len),
                                   LastChunkWriteLen(len - FirstWriteLen(t, len)), ids)
    BY <2>1
  <2> HIDE DEF refused, Started
  <2> QED BY <2>2
<1>2. refused.file = f /\ refused.remain = len /\ refused.real = -1
  BY DEF NoOp
<1>3. \A t, ct, first, last, ids :
        /\ Started(t, ct, first, last, ids).file = f
        /\ Started(t, ct, first, last, ids).remain = len
        /\ Started(t, ct, first, last, ids).real = 0
  OBVIOUS
<1> HIDE DEF refused, Started
<1> QED BY <1>1, <1>2, <1>3

LEMMA SameContents ==
  ASSUME SeesTotal, SeesTotal', \A f \in Files : Total(f)' = Total(f)
  PROVE  Contents' = Contents
<1>1. \A f \in Files : Content(f)' = Content(f)
  BY DEF SeesTotal
<1> QED BY <1>1 DEF Contents

(* The bytes that follow the first t of a file.                            *)
LEMMA ExpectedAppend ==
  ASSUME NEW f, NEW t \in Nat, NEW n \in Nat
  PROVE  Expected(f, 0, t) \o Expected(f, t, n) = Expected(f, 0, t + n)
<1>1. PICK z \in Nat : z = 0
  OBVIOUS
<1>2. PICK e \in Nat : e = t + n
  OBVIOUS
<1>3. z <= t /\ t <= e
  BY <1>1, <1>2
<1>4. Expected(f, z, t - z) \o Expected(f, t, e - t) = Expected(f, z, e - z)
  BY <1>3, ExpectedConcat
<1>5. t - z = t /\ e - t = n /\ e - z = e
  BY <1>1, <1>2
<1> QED BY <1>1, <1>2, <1>4, <1>5

(* A step of write() that places n bytes of a file appends them.           *)
LEMMA ExtendStep ==
  ASSUME SeesTotal, SeesTotal', NEW f \in Files, op.file = f, NEW n \in 1 .. op.remain,
         op.remain \in Nat, Total(f) \in Nat, Total(f)' = Total(f) + n,
         \A g \in Files : g # f => Total(g)' = Total(g),
         op'.file = f, op'.remain = op.remain - n, acked' = acked
  PROVE  Store!Extend
<1>1. PICK t : t = Total(f)
  OBVIOUS
<1>2. PICK c : c = Contents
  OBVIOUS
<1>3. PICK d : d = Contents'
  OBVIOUS
<1>4. /\ c = [g \in Files |-> c[g]] /\ d = [g \in Files |-> d[g]]
      /\ c[f] = Expected(f, 0, t) /\ d[f] = Expected(f, 0, t + n)
      /\ \A g \in Files : g # f => d[g] = c[g]
  BY <1>1, <1>2, <1>3 DEF Contents, SeesTotal
<1>5. t \in Nat /\ n \in Nat /\ t + n \in Nat
  BY <1>1
<1>6. Len(c[f]) = t
  <2>1. Len(Expected(f, 0, t)) = t
    BY <1>5 DEF Expected
  <2> QED BY <1>4, <2>1
<1>7. d[f] = c[f] \o Expected(f, t, n)
  <2>1. Expected(f, 0, t) \o Expected(f, t, n) = Expected(f, 0, t + n)
    BY <1>5, ExpectedAppend
  <2> QED BY <1>4, <2>1
<1>8. Store!BytesOf(f, Len(c[f]), n) = Expected(f, t, n)
  BY <1>6 DEF Store!BytesOf, Expected
<1>9. d = [c EXCEPT ![f] = @ \o Store!BytesOf(f, Len(c[f]), n)]
  <2>1. PICK b : b = c[f] \o Store!BytesOf(f, Len(c[f]), n)
    OBVIOUS
  <2>2. d[f] = b
    BY <1>7, <1>8, <2>1
  <2>3. d = [c EXCEPT ![f] = b]
    BY <1>4, <2>2
  <2> QED BY <2>1, <2>3
<1>10. f # NoFile
  BY FilesAssumption
<1>11. /\ op.file # NoFile
       /\ Contents' = [Contents EXCEPT
                         ![op.file] = @ \o Store!BytesOf(op.file, Len(Contents[op.file]), n)]
       /\ op'.file = op.file /\ op'.remain = op.remain - n /\ acked' = acked
  BY <1>2, <1>3, <1>9, <1>10
<1> QED BY <1>11 DEF Store!Extend, Contents

(* EdgeFS.write() implements the append-only store.                        *)
THEOREM AppendsOnly == ASSUME Faultless PROVE Spec => ImplementsAppendStore
<1>1. IInv /\ InPlace => SeesTotal
  BY ContentIs DEF InPlace, SeesTotal
<1>2. Init /\ SeesTotal => Store!Init
  <2> SUFFICES ASSUME Init, SeesTotal PROVE Store!Init
    OBVIOUS
  <2>1. op = NoOp /\ acked = [f \in Files |-> 0]
    BY DEF Init
  <2>2. op.file = NoFile /\ op.remain = 0 /\ op.real = 0
    BY <2>1 DEF NoOp
  <2>3. \A f \in Files : Content(f) = <<>>
    <3>1. \A f \in Files : Total(f) = 0
      BY <2>1, <2>2 DEF Total
    <3>2. \A f \in Files : Expected(f, 0, 0) = <<>>
      BY DEF Expected
    <3> QED BY <3>1, <3>2 DEF SeesTotal
  <2> QED BY <2>1, <2>2, <2>3 DEF Store!Init
<1>3. IInv /\ InPlace /\ SeesTotal /\ SeesTotal' /\ [Next]_vars => [Store!Next]_(Store!vars)
  <2> SUFFICES ASSUME IInv, InPlace, SeesTotal, SeesTotal', [Next]_vars
               PROVE  Store!Next \/ UNCHANGED <<Contents, op.file, op.remain, acked>>
    BY DEF Store!vars, Contents
  <2>1. PICK rank : Layout(rank) /\ Stored(rank)
    BY DEF InPlace
  <2>2. acked \in [Files -> Nat] /\ op \in Ops /\ \A f \in Files : Total(f) \in Nat
    BY StoredTypes DEF IInv, TypeOK
  <2>3. ASSUME NEW f \in Files, NEW len \in WriteLens, BeginWrite(f, len) PROVE Store!Request(f, len)
    <3>1. op = NoOp /\ acked' = acked
      BY <2>1, <2>3 DEF BeginWrite, Stored, PendingBytes
    <3>2. op'.file = f /\ op'.remain = len /\ op'.real \in {0, -1}
      BY <2>3, BeginWriteOp
    <3>3. \A g \in Files : Total(g)' = Total(g)
      BY <3>1, <3>2 DEF Total, NoOp
    <3>4. Contents' = Contents
      BY <3>3, SameContents
    <3>5. op.file = NoFile
      BY <3>1 DEF NoOp
    <3> QED BY <3>1, <3>2, <3>4, <3>5 DEF Store!Request, Contents
  <2>4. CASE FillTail
    <3>1. PICK f, n : f = op.file /\ n = op.firstWriteLen
      OBVIOUS
    <3>2. /\ pc = "first" /\ n # 0 /\ acked' = acked
          /\ op' = [op EXCEPT !.real = @ + n, !.remain = @ - n]
      BY <2>4, <3>1 DEF FillTail
    <3>3. /\ f \in Files /\ n \in 1 .. op.remain /\ op.real = 0 /\ op.remain \in Nat
      BY <2>1, <2>2, <3>1, <3>2, SizeAssumption DEF Ops, IInv, WriterOwnsTargets, Stored, PendingBytes
    <3>4. op'.file = f /\ op'.real = n /\ op'.remain = op.remain - n
      BY <2>2, <3>1, <3>2, <3>3 DEF Ops
    <3>5. Total(f)' = Total(f) + n /\ \A g \in Files : g # f => Total(g)' = Total(g)
      BY <2>2, <3>1, <3>2, <3>3, <3>4 DEF Total
    <3>6. Store!Extend
      BY <2>2, <3>1, <3>2, <3>3, <3>4, <3>5, ExtendStep
    <3> QED BY <3>6 DEF Store!Next
  <2>5. CASE WriteChunk
    <3>1. PICK f, n : f = op.file /\ n = ChunkWriteLen
      OBVIOUS
    <3>2. /\ pc = "chunks" /\ acked' = acked
          /\ op' = [op EXCEPT !.real = @ + n, !.remain = @ - n, !.i = @ + 1]
      BY <2>5, <3>1 DEF WriteChunk
    <3>3. /\ f \in Files /\ op.real \in Nat /\ op.remain \in Nat /\ n = op.remain /\ n > 0
      <4>1. f \in Files /\ op.real \in Nat /\ op.remain \in Nat
            /\ op.lastChunkWriteLen \in 0 .. ChunkSize
        BY <2>2, <3>1, <3>2 DEF IInv, WriterOwnsTargets, Ops
      <4>2. op.remain = op.lastChunkWriteLen /\ op.lastChunkWriteLen > 0
        BY <2>1, <3>2 DEF Stored, PendingBytes
      <4> QED BY <3>1, <4>1, <4>2, SizeAssumption DEF ChunkWriteLen, Min2
    <3>4. op'.file = f /\ op'.real = op.real + n /\ op'.remain = op.remain - n
      BY <2>2, <3>1, <3>2 DEF Ops
    <3>5. Total(f)' = Total(f) + n /\ \A g \in Files : g # f => Total(g)' = Total(g)
      BY <2>2, <3>1, <3>2, <3>3, <3>4 DEF Total
    <3>6. Store!Extend
      BY <2>2, <3>1, <3>2, <3>3, <3>4, <3>5, ExtendStep
    <3> QED BY <3>6 DEF Store!Next
  <2>6. CASE LinkFirst \/ UNCHANGED vars
    <3>1. op' = op /\ acked' = acked
      BY <2>6 DEF LinkFirst, vars
    <3>2. \A f \in Files : Total(f)' = Total(f)
      BY <3>1 DEF Total
    <3>3. Contents' = Contents
      BY <3>2, SameContents
    <3> QED BY <3>1, <3>3
  <2>7. CASE Return
    <3>1. PICK f, n : f = op.file /\ n = op.real
      OBVIOUS
    <3>2. /\ pc = "return" /\ op' = NoOp
          /\ acked' = IF n > 0 THEN [acked EXCEPT ![f] = @ + n] ELSE acked
      BY <2>7, <3>1 DEF Return
    <3>3. f \in Files /\ f # NoFile /\ (n = -1 \/ (n \in Nat /\ op.remain = 0))
      BY <2>1, <3>1, <3>2, FilesAssumption DEF Stored, PendingBytes
    <3>4. op'.file = NoFile /\ op'.remain = 0 /\ op'.real = 0
      BY <3>2 DEF NoOp
    <3>5. \A g \in Files : Total(g)' = Total(g)
      <4> SUFFICES ASSUME NEW g \in Files PROVE acked'[g] = Total(g)
        BY <2>2, <3>2, <3>3, <3>4 DEF Total
      <4> QED BY <2>2, <3>1, <3>2, <3>3 DEF Total
    <3>6. Contents' = Contents
      BY <3>5, SameContents
    <3>7. Len(Contents[f]) = Total(f)
      <4>1. PICK t : t = Total(f) /\ t \in Nat
        BY <2>2, <3>3
      <4>2. Contents[f] = Expected(f, 0, t)
        BY <3>3, <4>1 DEF Contents, SeesTotal
      <4>3. Len(Expected(f, 0, t)) = t
        BY <4>1 DEF Expected
      <4> QED BY <4>1, <4>2, <4>3
    <3>8. CASE n = -1
      <4>1. Len(Contents[f]) = acked[f] /\ acked' = acked
        BY <2>2, <3>1, <3>2, <3>3, <3>7, <3>8 DEF Total
      <4>2. Store!Refuse
        BY <3>1, <3>3, <3>4, <3>6, <4>1 DEF Store!Refuse, Contents
      <4> QED BY <4>2 DEF Store!Next
    <3>9. CASE n \in Nat /\ op.remain = 0
      <4>1. acked' = [acked EXCEPT ![f] = Len(Contents[f])]
        <5>1. Len(Contents[f]) = acked[f] + n
          BY <2>2, <3>1, <3>3, <3>7, <3>9 DEF Total
        <5>2. PICK l : l = Len(Contents[f])
          OBVIOUS
        <5>3. acked' = [acked EXCEPT ![f] = l]
          <6>1. CASE n > 0
            BY <2>2, <3>2, <3>3, <5>1, <5>2, <6>1
          <6>2. CASE n = 0
            <7>1. acked' = acked /\ l = acked[f] /\ f \in Files
              BY <2>2, <3>2, <3>3, <5>1, <5>2, <6>2
            <7> QED BY <2>2, <7>1
          <6> QED BY <3>9, <6>1, <6>2
        <5> QED BY <5>2, <5>3
      <4>2. Store!Done
        BY <3>1, <3>3, <3>4, <3>6, <3>9, <4>1 DEF Store!Done, Contents
      <4> QED BY <4>2 DEF Store!Next
    <3> QED BY <3>3, <3>8, <3>9
  <2> QED BY <2>3, <2>4, <2>5, <2>6, <2>7, FaultlessSteps DEF Store!Next
<1> QED BY <1>1, <1>2, <1>3, Invariance, InPlaceKept, PTL DEF Spec, ImplementsAppendStore, Store!Spec
===========================================================================
