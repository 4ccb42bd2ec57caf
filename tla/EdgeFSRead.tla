---------------------------- MODULE EdgeFSRead ----------------------------
(***************************************************************************)
(* The read path of EdgeFS over the state of module EdgeFS, and what       *)
(* readers may expect of it.  read() changes no stored state, so it is a   *)
(* set of operators; the properties quantify over every call.              *)
(***************************************************************************)
EXTENDS EdgeFS, SequencesExt

(* generateReadChunkids: Gathered(w, f)[i] holds the chunks of f among the *)
(* first i chunks of the list w.                                           *)
Gathered(w, f) ==
  LET ids[i \in 0..NumChunks] ==
        IF i = 0 THEN <<>>
        ELSE IF w[i-1] \in Chunks /\ sha1[w[i-1]] = f THEN Append(ids[i-1], w[i-1])
        ELSE ids[i-1]
  IN ids

ReadChunkids(f) ==
  IF isUsed[HashKey[f]] THEN Gathered(Walk(HashKey[f]), f)[NumChunks] ELSE <<>>

(* m_chunkSize - m_idleLen                                                 *)
WrittenLen(c) == ChunkSize - idleLen[c]

WriteTotalLen(f) ==
  FoldLeft(LAMBDA n, c : n + WrittenLen(c), 0, ReadChunkids(f))

(* calcReadVariable: the pieces <<chunk, offset in it, length>> to read,   *)
(* for an offset that lies in one of the file's chunks.                    *)
ReadInfo(f, len, offset) ==
  LET ids == ReadChunkids(f)
      first == offset \div ChunkSize
      skip == offset % ChunkSize
      isLast == first + 1 = Len(ids)
      firstLen == Min2((IF isLast THEN WrittenLen(ids[first + 1]) ELSE ChunkSize) - skip, len)
      rest == len - firstLen
      more == Min2(NeedChunkNum(rest), Len(ids) - first - 1)
  IN <<<<ids[first + 1], skip, firstLen>>>> \o
     (IF isLast THEN <<>>
      ELSE [i \in 1..more |-> <<ids[first + 1 + i], 0, Min2(ChunkSize, rest - (i-1) * ChunkSize)>>])

(* read(): the bytes placed in the caller's buffer when no read of the     *)
(* data file fails.                                                        *)
BytesAt(piece) == [k \in 1..piece[3] |-> disk[piece[1]][piece[2] + k - 1]]

Joined(pieces) ==
  LET got[i \in 0 .. Len(pieces)] ==
        IF i = 0 THEN <<>> ELSE got[i-1] \o BytesAt(pieces[i])
  IN got[Len(pieces)]

Read(f, len, offset) == Joined(ReadInfo(f, len, offset))

(* read() when the read of piece n + 1 fails: it returns what it has.      *)
ReadBefore(f, len, offset, n) ==
  LET pieces == ReadInfo(f, len, offset) IN Joined([i \in 1..n |-> pieces[i]])

(* The bytes of f from position offset on, as the caller passed them.      *)
Expected(f, offset, n) == [k \in 1..n |-> <<f, offset + k - 1>>]
---------------------------------------------------------------------------
(* While write() runs the list may lead to the chunk it is about to fill,  *)
(* which has no link of its own yet: the bytes written so far are those of *)
(* the list up to the first chunk nobody uses.                             *)
UsedWalk(h) == LET w[i \in 0..NumChunks] ==
                     IF i = 0 THEN h
                     ELSE IF w[i-1] \in Chunks /\ isUsed[w[i-1]] THEN nextChunkid[w[i-1]]
                     ELSE kInvalidChunkid
               IN w

Content(f) ==
  LET ids == Gathered(UsedWalk(HashKey[f]), f)[NumChunks]
  IN Joined([i \in 1 .. Len(ids) |-> <<ids[i], 0, WrittenLen(ids[i])>>])

Store == INSTANCE AppendStore WITH
           content <- [f \in Files |-> Content(f)],
           busy <- op.file,
           owed <- op.remain,
           reported <- acked

(* EdgeFS.write() implements the append-only store: whatever the layout of *)
(* the lists, a reader sees each file grow at its end by exactly the bytes *)
(* of the write in progress, all of them or, on a full disk, none.         *)
ImplementsAppendStore == Store!Spec
---------------------------------------------------------------------------
(* Every list of a file ends: read() and the lookups of write() follow     *)
(* m_nextChunkid until kInvalidChunkid (EdgeFS.cpp:329, 617) and never     *)
(* return from a cycle.                                                    *)
ListsEnd == pc = "ready" => \A f \in Files : WalkEnds(HashKey[f])

(* What write() reported as written, read() returns: any range inside the  *)
(* file, across chunks and with other files' chunks in between, comes back *)
(* as the caller passed it (the demos' append, read back, compare md5).    *)
(* A read of the data file that fails cuts the answer at its end only: the *)
(* bytes counted are the first of the range.                               *)
ReadBack ==
  pc = "ready" => \A f \in Files, offset \in 0 .. NumChunks * ChunkSize :
    \A len \in 0 .. acked[f] - offset : offset < acked[f] =>
      /\ Read(f, len, offset) = Expected(f, offset, len)
      /\ \A n \in 0 .. Len(ReadInfo(f, len, offset)) - 1 :
           LET got == ReadBefore(f, len, offset, n) IN got = Expected(f, offset, Len(got))

(* Every byte write() reported is stored in some chunk of the file         *)
(* (IEdgeFS.h:33: the count returned is the bytes written successfully).   *)
ReportedBytesStored ==
  pc = "ready" => \A f \in Files :
    WalkEnds(HashKey[f]) => WriteTotalLen(f) = acked[f]

(* A list leads only to chunks that were written: the metadata is updated  *)
(* after a successful write (EdgeFS.cpp:501).                              *)
ListedChunksWritten ==
  pc = "ready" => \A f \in Files, i \in 0 .. NumChunks - 1 :
    LET c == Walk(HashKey[f])[i]
    IN isUsed[HashKey[f]] /\ c \in Chunks => isUsed[c]

(* read()'s length argument beyond the end of the file is cut at the end   *)
(* (EdgeFS.cpp:669 computes the bytes written to the last chunk).          *)
ReadStaysInFile ==
  pc = "ready" => \A f \in Files, offset \in 0 .. NumChunks * ChunkSize :
    \A len \in 1 .. NumChunks * ChunkSize :
      offset < acked[f] =>
        Len(Read(f, len, offset)) = Min2(len, acked[f] - offset)
---------------------------------------------------------------------------
(* Only the last chunk of a file has room: read() turns an offset into an  *)
(* index by dividing by the chunk size, which is right only then.          *)
OnlyLastChunkPartial ==
  pc = "ready" => \A f \in Files :
    LET ids == ReadChunkids(f)
    IN \A i \in 1 .. Len(ids) - 1 : idleLen[ids[i]] = 0

(* No chunk is lost: every chunk the allocator regards as taken is a chunk *)
(* of the one file that can reach it.                                      *)
EveryTakenChunkReachable ==
  pc = "ready" => \A c \in bitmap :
    \E f \in Files : \E i \in DOMAIN ReadChunkids(f) : ReadChunkids(f)[i] = c

(* write() answers -1 only when the disk has fewer free chunks than the    *)
(* request needs, whatever the random search of the allocator hit.         *)
RefusedOnlyWhenFull ==
  pc = "return" /\ op.real = -1 =>
    Cardinality(Chunks \ bitmap) < NeedChunkNum(op.remain)
============================================================================
