------------------------- MODULE EdgeFSInitProofs -------------------------
(***************************************************************************)
(* Proofs about the start of EdgeFS, for every set of configurations, all  *)
(* sizes and word widths, and any number of failing calls and deaths.      *)
(***************************************************************************)
EXTENDS EdgeFSInit, TLAPS

(* A start that has begun has an accepted configuration, and has counted   *)
(* it.                                                                     *)
StartCounted ==
  /\ \A i \in hist.infos : Accepted(i)
  /\ pc \notin {"off", "refused"} => info \in hist.infos

(* The data file is there and has the size of the configuration from the   *)
(* step that makes it so.                                                  *)
DataReady ==
  /\ pc = "truncData" => data.exists
  /\ pc \in {"openIdx", "truncIdx", "mapNew", "storeHead", "mapOld", "checkHead", "mounted"} =>
       data.exists /\ data.size = Sizes(info).diskSize

(* The index file grows in the order of initFS: it is there, it has its    *)
(* size, its header has its first fields.                                  *)
IdxReady ==
  /\ ~idx.exists => idx = NoIdx
  /\ pc \in {"truncIdx", "mapNew", "storeHead", "mapOld", "checkHead", "mounted"} => idx.exists
  /\ pc \in {"truncIdx", "mapNew"} => idx.head = NoHead
  /\ pc \in {"mapNew", "storeHead"} => idx.size = Sizes(info).mmapSize
  /\ pc = "storeHead" =>
       \A k \in 1..Len(Fields) :
         idx.head[Fields[k]] = IF k < field THEN HeadOf(info)[Fields[k]] ELSE 0
  /\ pc = "mounted" => idx.head = HeadOf(info)

(* bitmapSize is the last field stored and never 0: with it the header is  *)
(* whole and describes the file it is in; without it nothing was stored.   *)
HeadWhole == idx.head.bitmapSize # 0

HeadTells ==
  /\ HeadWhole => /\ idx.exists /\ idx.size = idx.head.usableMemory
                  /\ idx.bytes <= idx.head.coverableDiskSize
                  /\ \E i \in hist.infos : idx.head = HeadOf(i)
  /\ ~HeadWhole => idx.bytes = 0

(* A roll-back has a cause.                                                *)
RollBackCaused ==
  /\ pc = "unlinkDataOnly" => hist.dataFails > 0
  /\ pc \in {"unlinkData", "unlinkIdx"} =>
       idx.bytes = 0 \/ hist.idxFails > 0 \/ ~OneConfiguration

(* Without a cause nothing is lost.                                        *)
Undisturbed == OneConfiguration /\ hist.dataFails = 0 /\ hist.idxFails = 0

Kept == Undisturbed => idx.bytes = hist.stored /\ data.bytes = hist.stored

(* Bytes the data file has lost and the index file has not: the causes of  *)
(* NoSilentLoss, or a start that will still be refused or is rolling back. *)
LossAccounted ==
  data.bytes < idx.bytes =>
    \/ hist.dataFails > 0
    \/ hist.crashes > 0 /\ (hist.idxFails > 0 \/ ~OneConfiguration)
    \/ pc \in {"openIdx", "mapOld", "checkHead"} /\ idx.head # HeadOf(info) /\ ~OneConfiguration
    \/ pc \in {"unlinkData", "unlinkIdx"} /\ (hist.idxFails > 0 \/ ~OneConfiguration)

IInv == /\ TypeOK /\ StartCounted /\ DataReady /\ IdxReady /\ HeadTells
        /\ RollBackCaused /\ Kept /\ LossAccounted

---------------------------------------------------------------------------
(* The sizes of an accepted configuration are positive numbers, and a      *)
(* chunk fits the data file.                                               *)
LEMMA SizesType ==
  ASSUME NEW i \in Infos, Accepted(i)
  PROVE  /\ Sizes(i).chunkNum \in Nat \ {0} /\ Sizes(i).chunkSize \in Nat \ {0}
         /\ Sizes(i).bitmapSize \in Nat \ {0}
         /\ Sizes(i).diskSize \in Nat /\ Sizes(i).mmapSize \in Nat \ {0}
         /\ MinChunk <= Sizes(i).chunkSize
         /\ Sizes(i).chunkSize <= Sizes(i).diskSize
<1> DEFINE q == (i.memory - HeadSize) \div MetaSize
           n0 == FirstChunkNum(i)
           d == i.disk \div n0
           c == d % Word
           s == ChunkSizeOf(i)
           n == ChunkNum(i)
           b == ((n + 7) % Word) \div 8
<1>1. i.memory \in Nat /\ i.disk \in Nat /\ i.memory > MinMemory
  BY InfosAssumption DEF Accepted
<1>2. i.memory - HeadSize \in Nat
  BY <1>1, UnitsAssumption DEF MinMemory
<1>3. n0 \in Nat \ {0}
  <2>1. q \in Nat
    BY <1>2, UnitsAssumption, SMT
  <2>2. q % Word \in Nat
    BY <2>1, UnitsAssumption, SMT
  <2> QED BY <2>2 DEF FirstChunkNum, Accepted
<1>4. d \in Nat
  <2> HIDE DEF n0
  <2> QED BY <1>1, <1>3, SMT
<1>5. c - (c % AlignSize) \in Nat
  <2>1. c \in Nat
    <3> HIDE DEF d
    <3> QED BY <1>4, UnitsAssumption, SMT
  <2>2. c % AlignSize \in Nat /\ c % AlignSize <= c
    <3> HIDE DEF c
    <3> QED BY <2>1, UnitsAssumption, SMT
  <2> HIDE DEF c
  <2> QED BY <2>1, <2>2
<1>6. s \in Nat \ {0} /\ MinChunk <= s
  <2>1. s = Clamp(c - (c % AlignSize))
    BY DEF ChunkSizeOf
  <2> HIDE DEF c
  <2> QED BY <1>5, <2>1, UnitsAssumption DEF Clamp
<1>7. n \in Nat \ {0}
  <2>1. i.disk \div s \in Nat
    <3> HIDE DEF s
    <3> QED BY <1>1, <1>6, SMT
  <2>2. (i.disk \div s) % Word \in Nat
    <3> HIDE DEF s
    <3> QED BY <2>1, UnitsAssumption, SMT
  <2>3. Sizes(i).chunkNum = n
    BY DEF Sizes
  <2> QED BY <2>2, <2>3 DEF ChunkNum, Accepted
<1>8. b \in Nat
  <2> HIDE DEF n
  <2> QED BY <1>7, UnitsAssumption, SMT
<1>9. Sizes(i) = [chunkNum |-> n, chunkSize |-> s, bitmapSize |-> b,
                  diskSize |-> n * s, mmapSize |-> HeadSize + b + n * MetaSize]
  BY DEF Sizes
<1>10. n * s \in Nat /\ s <= n * s /\ n * MetaSize \in Nat
  <2> HIDE DEF n, s
  <2> QED BY <1>6, <1>7, UnitsAssumption, SMT
<1>11. b # 0
  BY <1>9 DEF Accepted
<1> HIDE DEF n, s, b
<1> QED BY <1>6, <1>7, <1>8, <1>9, <1>10, <1>11, UnitsAssumption

(* The header of an accepted configuration is one, and its last field is   *)
(* not 0.                                                                  *)
LEMMA HeadOfType ==
  ASSUME NEW i \in Infos, Accepted(i)
  PROVE  /\ HeadOf(i) \in Heads
         /\ HeadOf(i).bitmapSize # 0
         /\ HeadOf(i).usableMemory = Sizes(i).mmapSize
         /\ HeadOf(i).coverableDiskSize = Sizes(i).diskSize
<1>1. /\ Sizes(i).chunkNum \in Nat /\ Sizes(i).chunkSize \in Nat
      /\ Sizes(i).bitmapSize \in Nat \ {0}
      /\ Sizes(i).diskSize \in Nat /\ Sizes(i).mmapSize \in Nat
  BY SizesType
<1> QED BY <1>1 DEF HeadOf, Heads, FieldNames

(* The empty header.                                                       *)
LEMMA NoHeadType == NoHead \in Heads /\ NoHead.bitmapSize = 0
BY DEF NoHead, Heads, FieldNames

(* Fields lists the names.                                                 *)
LEMMA FieldsType ==
  /\ Len(Fields) = 6
  /\ \A k \in 1..6 : Fields[k] \in FieldNames
  /\ Fields[6] = "bitmapSize"
  /\ \A x \in FieldNames : \E k \in 1..6 : x = Fields[k]
  /\ \A k, l \in 1..6 : Fields[k] = Fields[l] => k = l
BY DEF Fields, FieldNames
---------------------------------------------------------------------------
(* The initial state satisfies the invariant.                              *)
LEMMA InitInv == Init => IInv
<1> SUFFICES ASSUME Init PROVE IInv
  OBVIOUS
<1> USE DEF Init
<1>1. TypeOK
  BY NoHeadType, FieldsType, FaultBounds DEF TypeOK, NoData, NoIdx
<1>2. StartCounted /\ DataReady /\ IdxReady
  BY DEF StartCounted, DataReady, IdxReady
<1>3. HeadTells
  BY NoHeadType DEF HeadTells, HeadWhole, NoIdx
<1>4. RollBackCaused /\ Kept /\ LossAccounted
  BY DEF RollBackCaused, Kept, LossAccounted, NoIdx, NoData
<1> QED BY <1>1, <1>2, <1>3, <1>4 DEF IInv
---------------------------------------------------------------------------
(* What the invariant says of the configuration of a running start.        *)
LEMMA InfoFacts ==
  ASSUME IInv, pc \notin {"off", "refused"}
  PROVE  /\ info \in Infos /\ info \in hist.infos /\ Accepted(info)
         /\ Sizes(info).diskSize \in Nat /\ Sizes(info).mmapSize \in Nat \ {0}
         /\ Sizes(info).chunkSize \in Nat
         /\ Sizes(info).chunkSize <= Sizes(info).diskSize
         /\ HeadOf(info) \in Heads /\ HeadOf(info).bitmapSize # 0
         /\ HeadOf(info).usableMemory = Sizes(info).mmapSize
         /\ HeadOf(info).coverableDiskSize = Sizes(info).diskSize
<1>1. info \in Infos /\ info \in hist.infos /\ Accepted(info)
  BY DEF IInv, TypeOK, StartCounted
<1> QED BY <1>1, SizesType, HeadOfType

(* A whole header is that of a configuration started with, and the file    *)
(* behind it is not empty.                                                 *)
LEMMA WholeHeadFacts ==
  ASSUME IInv, HeadWhole
  PROVE  /\ idx.size # 0
         /\ \E i \in hist.infos : idx.head = HeadOf(i)
<1>1. PICK i \in hist.infos : idx.head = HeadOf(i)
  BY DEF IInv, HeadTells
<1>2. i \in Infos /\ Accepted(i)
  BY DEF IInv, TypeOK, StartCounted
<1>3. HeadOf(i).usableMemory # 0
  BY <1>2, HeadOfType, SizesType
<1> QED BY <1>1, <1>3 DEF IInv, HeadTells

(* Stored bytes without a whole header do not exist.                       *)
LEMMA BytesNeedHead ==
  ASSUME IInv, idx.bytes # 0
  PROVE  HeadWhole
BY DEF IInv, HeadTells

(* With one configuration, a whole header is that of the running start.    *)
LEMMA OneHead ==
  ASSUME IInv, HeadWhole, OneConfiguration, pc \notin {"off", "refused"}
  PROVE  idx.head = HeadOf(info)
<1>1. PICK i \in hist.infos : idx.head = HeadOf(i)
  BY WholeHeadFacts
<1> QED BY <1>1, InfoFacts DEF OneConfiguration

(* The quotient of a division of naturals, from below and above.           *)
LEMMA Division ==
  ASSUME NEW a \in Nat, NEW b \in Nat \ {0}
  PROVE  a \div b \in Nat /\ b * (a \div b) <= a /\ a < b * ((a \div b) + 1)
<1>1. b \in Int /\ b > 0 /\ a \in Int
  OBVIOUS
<1>2. a \div b \in Nat
  BY <1>1, SMT
<1>3. b * (a \div b) <= a
  BY <1>1, SMT
<1>4. a < b * ((a \div b) + 1)
  BY <1>1, SMT
<1> QED BY <1>2, <1>3, <1>4

(* A larger divisor does not give a larger quotient.                       *)
LEMMA DivisionAntitone ==
  ASSUME NEW a \in Nat, NEW b \in Nat \ {0}, NEW c \in Nat, b <= c
  PROVE  a \div c <= a \div b
<1> DEFINE x == a \div b  y == a \div c
<1>1. x \in Nat /\ y \in Nat /\ a < b * (x + 1) /\ c * y <= a
  BY Division
<1> HIDE DEF x, y
<1>2. b * y <= c * y /\ b * y \in Nat /\ c * y \in Nat /\ b * (x + 1) \in Nat
  BY <1>1, SMT
<1>3. b * y < b * (x + 1)
  BY <1>1, <1>2
<1>4. y < x + 1
  BY <1>1, <1>3, SMT
<1> QED BY <1>1, <1>4 DEF x, y

(* The chunks of an accepted configuration cover its disk up to less than  *)
(* one chunk, when their number fits the word (initFSCalcVariable).        *)
LEMMA DiskCovered ==
  ASSUME NEW i \in Infos, Accepted(i), i.disk \div MinChunk < Word
  PROVE  i.disk - Sizes(i).diskSize < Sizes(i).chunkSize
<1> DEFINE c == ChunkSizeOf(i)  d == i.disk
<1>1. c \in Nat \ {0} /\ d \in Nat /\ Sizes(i).chunkSize = c
  BY SizesType, InfosAssumption DEF Sizes
<1>2. MinChunk <= c
  BY <1>1, SizesType
<1>3. d \div c \in Nat /\ d < c * ((d \div c) + 1)
  <2> HIDE DEF c, d
  <2> QED BY <1>1, Division
<1>4. d \div c < Word
  <2>1. d \div MinChunk \in Nat /\ d \div c <= d \div MinChunk
    <3> HIDE DEF c, d
    <3> QED BY <1>1, <1>2, UnitsAssumption, Division, DivisionAntitone
  <2>2. d \div MinChunk < Word
    OBVIOUS
  <2> HIDE DEF c, d
  <2> QED BY <1>3, <2>1, <2>2, UnitsAssumption
<1>5. (d \div c) % Word = d \div c
  <2> DEFINE q == d \div c
  <2> HIDE DEF q
  <2>1. q \in Nat /\ q < Word /\ Word \in Nat
    BY <1>3, <1>4, UnitsAssumption DEF q
  <2>2. q % Word = q
    BY <2>1, SMT
  <2> QED BY <2>2 DEF q
<1>6. Sizes(i).diskSize = (d \div c) * c
  BY <1>5 DEF Sizes, ChunkNum
<1>7. c * ((d \div c) + 1) = (d \div c) * c + c /\ (d \div c) * c \in Nat
  <2> DEFINE q == d \div c
  <2> HIDE DEF q, c, d
  <2>1. c * (q + 1) = q * c + c /\ q * c \in Nat
    BY <1>1, <1>3, SMT DEF q
  <2> QED BY <2>1 DEF q
<1> HIDE DEF c, d
<1>8. d - Sizes(i).diskSize < c
  BY <1>1, <1>3, <1>6, <1>7
<1> QED BY <1>1, <1>8 DEF d
---------------------------------------------------------------------------
(* One lemma per action: each keeps every part of the invariant.             *)

(* A refused start.                                                        *)
LEMMA StartRefusedStep ==
  ASSUME NEW i \in Infos, IInv, StartRefused(i)
  PROVE  IInv'
<1> USE DEF IInv, StartRefused
<1>1. TypeOK'
  BY DEF TypeOK
<1>2. StartCounted'
  BY DEF StartCounted, TypeOK
<1>3. DataReady'
  BY DEF DataReady, TypeOK
<1>4. IdxReady'
  BY DEF IdxReady, TypeOK
<1>5. HeadTells'
  BY DEF HeadTells, TypeOK, HeadWhole
<1>6. RollBackCaused'
  BY DEF RollBackCaused, TypeOK, OneConfiguration
<1>7. Kept'
  BY DEF Kept, TypeOK, Undisturbed, OneConfiguration
<1>8. LossAccounted'
  BY DEF LossAccounted, TypeOK, OneConfiguration
<1> QED BY <1>1, <1>2, <1>3, <1>4, <1>5, <1>6, <1>7, <1>8

(* An accepted start.                                                      *)
LEMMA StartStep ==
  ASSUME NEW i \in Infos, IInv, Start(i)
  PROVE  IInv'
<1> USE DEF IInv, Start
<1>1. TypeOK'
  BY DEF TypeOK
<1>2. StartCounted'
  BY DEF StartCounted, TypeOK
<1>3. DataReady'
  BY DEF DataReady, TypeOK
<1>4. IdxReady'
  BY DEF IdxReady, TypeOK
<1>5. HeadTells'
  BY DEF HeadTells, TypeOK, HeadWhole
<1>6. RollBackCaused'
  BY DEF RollBackCaused, TypeOK, OneConfiguration
<1>7. Kept'
  BY DEF Kept, TypeOK, Undisturbed, OneConfiguration
<1>8. LossAccounted'
  BY DEF LossAccounted, TypeOK, OneConfiguration
<1> QED BY <1>1, <1>2, <1>3, <1>4, <1>5, <1>6, <1>7, <1>8

(* Opening the data file.                                                  *)
LEMMA OpenDataStep ==
  ASSUME IInv, OpenData
  PROVE  IInv'
<1> USE DEF IInv, OpenData
<1>1. TypeOK'
  BY DEF TypeOK
<1>2. StartCounted'
  BY DEF StartCounted, TypeOK
<1>3. DataReady'
  BY DEF DataReady, TypeOK
<1>4. IdxReady'
  BY DEF IdxReady, TypeOK
<1>5. HeadTells'
  BY DEF HeadTells, TypeOK, HeadWhole
<1>6. RollBackCaused'
  BY DEF RollBackCaused, TypeOK, OneConfiguration
<1>7. Kept'
  BY DEF Kept, TypeOK, Undisturbed, OneConfiguration
<1>8. LossAccounted'
  BY DEF LossAccounted, TypeOK, OneConfiguration
<1> QED BY <1>1, <1>2, <1>3, <1>4, <1>5, <1>6, <1>7, <1>8

(* Giving the data file its size.                                          *)
LEMMA TruncDataStep ==
  ASSUME IInv, TruncData
  PROVE  IInv'
<1> USE DEF IInv, TruncData
<1>a. /\ data'.bytes = SmallerOf(data.bytes, Sizes(info).diskSize)
      /\ data.bytes \in Nat /\ idx.bytes \in Nat /\ UNCHANGED <<idx, info, hist>>
      /\ pc = "truncData" /\ pc' = "openIdx"
  BY DEF TypeOK
<1>b. ASSUME HeadWhole, OneConfiguration
      PROVE  idx.bytes <= Sizes(info).diskSize
  BY <1>a, <1>b, OneHead, InfoFacts DEF HeadTells
<1>1. TypeOK'
  BY InfoFacts DEF TypeOK, SmallerOf
<1>2. StartCounted'
  BY DEF StartCounted, TypeOK
<1>3. DataReady'
  BY DEF DataReady, TypeOK
<1>4. IdxReady'
  BY DEF IdxReady, TypeOK
<1>5. HeadTells'
  BY DEF HeadTells, TypeOK, HeadWhole
<1>6. RollBackCaused'
  BY DEF RollBackCaused, TypeOK, OneConfiguration
<1>7. Kept'
  <2> SUFFICES ASSUME Undisturbed
               PROVE  data'.bytes = data.bytes
    BY <1>a DEF Kept, Undisturbed, OneConfiguration
  <2>1. data.bytes = idx.bytes
    BY DEF Kept
  <2>2. idx.bytes <= Sizes(info).diskSize
    BY <1>a, <1>b, BytesNeedHead, InfoFacts DEF Undisturbed
  <2> QED BY <1>a, <2>1, <2>2, InfoFacts DEF SmallerOf
<1>8. LossAccounted'
  <2>1. CASE data.bytes < idx.bytes
    BY <1>a, <2>1 DEF LossAccounted, OneConfiguration
  <2>2. CASE ~(data.bytes < idx.bytes)
    <3> SUFFICES ASSUME data'.bytes < idx.bytes
                 PROVE  idx.head # HeadOf(info) /\ ~OneConfiguration
      BY <1>a DEF LossAccounted, OneConfiguration
    <3>1. Sizes(info).diskSize \in Nat /\ Sizes(info).diskSize < idx.bytes
      BY <1>a, <2>2, InfoFacts DEF SmallerOf
    <3>2. HeadWhole
      BY <1>a, <3>1, BytesNeedHead
    <3>3. ~OneConfiguration
      BY <1>a, <1>b, <3>1, <3>2
    <3>4. idx.head # HeadOf(info)
      BY <1>a, <3>1, <3>2, InfoFacts DEF HeadTells
    <3> QED BY <3>3, <3>4
  <2> QED BY <2>1, <2>2
<1> QED BY <1>1, <1>2, <1>3, <1>4, <1>5, <1>6, <1>7, <1>8

(* Opening or truncating the data file fails.                              *)
LEMMA DataCallFailsStep ==
  ASSUME IInv, DataCallFails
  PROVE  IInv'
<1> USE DEF IInv, DataCallFails
<1>1. TypeOK'
  <2>1. hist.dataFails + 1 \in 0..MaxFails
    BY FaultBounds DEF TypeOK
  <2>2. hist' \in [dataFails : 0..MaxFails, idxFails : 0..MaxFails, crashes : 0..MaxCrashes,
                   infos : SUBSET Infos, stored : Nat]
    BY <2>1 DEF TypeOK
  <2> QED BY <2>2 DEF TypeOK
<1>2. StartCounted'
  BY DEF StartCounted, TypeOK
<1>3. DataReady'
  BY DEF DataReady, TypeOK
<1>4. IdxReady'
  BY DEF IdxReady, TypeOK
<1>5. HeadTells'
  BY DEF HeadTells, TypeOK, HeadWhole
<1>6. RollBackCaused'
  BY DEF RollBackCaused, TypeOK, OneConfiguration
<1>7. Kept'
  BY DEF Kept, TypeOK, Undisturbed, OneConfiguration
<1>8. LossAccounted'
  BY DEF LossAccounted, TypeOK, OneConfiguration
<1> QED BY <1>1, <1>2, <1>3, <1>4, <1>5, <1>6, <1>7, <1>8

(* Opening the index file.                                                 *)
LEMMA OpenIdxStep ==
  ASSUME IInv, OpenIdx
  PROVE  IInv'
<1> USE DEF IInv, OpenIdx
<1>a. /\ idx'.head = idx.head /\ idx'.bytes = idx.bytes /\ idx'.size = idx.size
      /\ idx'.exists = TRUE /\ UNCHANGED <<data, info, hist>>
      /\ pc = "openIdx" /\ pc' = IF idx.exists THEN "mapOld" ELSE "truncIdx"
      /\ data.bytes \in Nat
  BY DEF TypeOK
<1>b. ~idx.exists => idx.head = NoHead /\ idx.bytes = 0
  BY DEF IdxReady, NoIdx
<1>1. TypeOK'
  BY DEF TypeOK
<1>2. StartCounted'
  BY DEF StartCounted, TypeOK
<1>3. DataReady'
  BY DEF DataReady, TypeOK
<1>4. IdxReady'
  BY <1>a, <1>b DEF IdxReady
<1>5. HeadTells'
  BY DEF HeadTells, TypeOK, HeadWhole
<1>6. RollBackCaused'
  BY DEF RollBackCaused, TypeOK, OneConfiguration
<1>7. Kept'
  BY DEF Kept, TypeOK, Undisturbed, OneConfiguration
<1>8. LossAccounted'
  BY <1>a, <1>b DEF LossAccounted, OneConfiguration
<1> QED BY <1>1, <1>2, <1>3, <1>4, <1>5, <1>6, <1>7, <1>8

(* Giving a new index file its size.                                       *)
LEMMA TruncIdxStep ==
  ASSUME IInv, TruncIdx
  PROVE  IInv'
<1> USE DEF IInv, TruncIdx
<1>a. /\ idx.head = NoHead /\ idx'.head = idx.head /\ idx'.bytes = idx.bytes
      /\ UNCHANGED hist
  BY DEF TypeOK, IdxReady
<1>1. TypeOK'
  BY InfoFacts DEF TypeOK
<1>2. StartCounted'
  BY DEF StartCounted, TypeOK
<1>3. DataReady'
  BY DEF DataReady, TypeOK
<1>4. IdxReady'
  BY DEF IdxReady, TypeOK
<1>5. HeadTells'
  BY <1>a, NoHeadType DEF HeadTells, HeadWhole
<1>6. RollBackCaused'
  BY DEF RollBackCaused, TypeOK, OneConfiguration
<1>7. Kept'
  BY DEF Kept, TypeOK, Undisturbed, OneConfiguration
<1>8. LossAccounted'
  BY DEF LossAccounted, TypeOK, OneConfiguration
<1> QED BY <1>1, <1>2, <1>3, <1>4, <1>5, <1>6, <1>7, <1>8

(* A call on the index file fails.                                         *)
LEMMA IdxCallFailsStep ==
  ASSUME IInv, IdxCallFails
  PROVE  IInv'
<1> USE DEF IInv, IdxCallFails
<1>1. TypeOK'
  <2>1. hist.idxFails + 1 \in 0..MaxFails
    BY FaultBounds DEF TypeOK
  <2>2. hist' \in [dataFails : 0..MaxFails, idxFails : 0..MaxFails, crashes : 0..MaxCrashes,
                   infos : SUBSET Infos, stored : Nat]
    BY <2>1 DEF TypeOK
  <2> QED BY <2>2 DEF TypeOK
<1>2. StartCounted'
  BY DEF StartCounted, TypeOK
<1>3. DataReady'
  BY DEF DataReady, TypeOK
<1>4. IdxReady'
  BY DEF IdxReady, TypeOK
<1>5. HeadTells'
  BY DEF HeadTells, TypeOK, HeadWhole
<1>6. RollBackCaused'
  BY DEF RollBackCaused, TypeOK, OneConfiguration
<1>7. Kept'
  BY DEF Kept, TypeOK, Undisturbed, OneConfiguration
<1>8. LossAccounted'
  BY DEF LossAccounted, TypeOK, OneConfiguration
<1> QED BY <1>1, <1>2, <1>3, <1>4, <1>5, <1>6, <1>7, <1>8

(* Mapping a new index file.                                               *)
LEMMA MapNewStep ==
  ASSUME IInv, MapNew
  PROVE  IInv'
<1> USE DEF IInv, MapNew
<1>a. /\ idx'.head = NoHead /\ idx'.bytes = 0 /\ idx'.size = idx.size /\ idx'.exists = idx.exists
      /\ UNCHANGED <<data, info, hist>>
      /\ pc = "mapNew" /\ pc' = "storeHead" /\ field' = 1
      /\ idx.bytes = 0 /\ data.bytes \in Nat
  BY NoHeadType DEF TypeOK, IdxReady, HeadTells, HeadWhole
<1>1. TypeOK'
  <2>1. idx' \in [exists : BOOLEAN, size : Nat, head : Heads, bytes : Nat]
    BY NoHeadType DEF TypeOK
  <2>2. field' \in 1..Len(Fields)
    BY <1>a, FieldsType
  <2> QED BY <1>a, <2>1, <2>2 DEF TypeOK
<1>2. StartCounted'
  BY DEF StartCounted, TypeOK
<1>3. DataReady'
  BY DEF DataReady, TypeOK
<1>4. IdxReady'
  <2>1. \A k \in 1..Len(Fields) : NoHead[Fields[k]] = 0 /\ ~(k < 1)
    BY FieldsType DEF NoHead
  <2> QED BY <1>a, <2>1 DEF IdxReady
<1>5. HeadTells'
  BY <1>a, NoHeadType DEF HeadTells, HeadWhole
<1>6. RollBackCaused'
  BY DEF RollBackCaused, TypeOK, OneConfiguration
<1>7. Kept'
  BY <1>a DEF Kept, Undisturbed, OneConfiguration
<1>8. LossAccounted'
  BY <1>a DEF LossAccounted, OneConfiguration
<1> QED BY <1>1, <1>2, <1>3, <1>4, <1>5, <1>6, <1>7, <1>8

(* Storing a field of the header.                                          *)
LEMMA StoreHeadStep ==
  ASSUME IInv, StoreHead
  PROVE  IInv'
<1> USE DEF IInv, StoreHead
<1>a. /\ idx'.bytes = idx.bytes /\ idx'.size = idx.size /\ idx'.exists = idx.exists
      /\ UNCHANGED <<data, info, hist>>
      /\ pc = "storeHead" /\ pc' = IF field = 6 THEN "mounted" ELSE "storeHead"
      /\ field' = IF field = 6 THEN 1 ELSE field + 1
      /\ field \in 1..6 /\ idx.head \in Heads
      /\ idx'.head = [idx.head EXCEPT ![Fields[field]] = HeadOf(info)[Fields[field]]]
      /\ HeadOf(info) \in Heads
  BY InfoFacts, FieldsType DEF TypeOK
<1>b. idx'.head \in Heads
  BY <1>a, FieldsType DEF Heads
<1>c. \A k \in 1..6 : idx'.head[Fields[k]] =
        IF k = field THEN HeadOf(info)[Fields[k]] ELSE idx.head[Fields[k]]
  BY <1>a, FieldsType DEF Heads
<1>d. \A k \in 1..6 : idx'.head[Fields[k]] =
        IF k < field + 1 THEN HeadOf(info)[Fields[k]] ELSE 0
  BY <1>a, <1>c, FieldsType DEF IdxReady
<1>e. field = 6 => idx'.head = HeadOf(info)
  <2> SUFFICES ASSUME field = 6
               PROVE  \A x \in FieldNames : idx'.head[x] = HeadOf(info)[x]
    BY <1>a, <1>b DEF Heads
  <2>1. \A k \in 1..6 : idx'.head[Fields[k]] = HeadOf(info)[Fields[k]]
    BY <1>d
  <2> QED BY <2>1, FieldsType
<1>f. field # 6 => idx'.head.bitmapSize = 0
  BY <1>a, <1>d, FieldsType
<1>g. idx.head.bitmapSize = 0
  BY <1>a, FieldsType DEF IdxReady
<1>1. TypeOK'
  BY <1>a, <1>b, FieldsType DEF TypeOK
<1>2. StartCounted'
  BY DEF StartCounted, TypeOK
<1>3. DataReady'
  BY DEF DataReady, TypeOK
<1>4. IdxReady'
  BY <1>a, <1>d, <1>e, FieldsType DEF IdxReady
<1>5. HeadTells'
  <2>1. idx.bytes = 0
    BY <1>g DEF HeadTells, HeadWhole
  <2>2. CASE field # 6
    BY <1>a, <1>f, <2>1, <2>2 DEF HeadTells, HeadWhole
  <2>3. CASE field = 6
    <3>1. idx.exists /\ idx.size = Sizes(info).mmapSize
      BY <1>a DEF IdxReady
    <3>2. /\ idx'.head.usableMemory = Sizes(info).mmapSize
          /\ idx'.head.coverableDiskSize \in Nat
          /\ info \in hist.infos
      BY <1>a, <1>e, <2>3, InfoFacts
    <3>3. \E i \in hist'.infos : idx'.head = HeadOf(i)
      BY <1>a, <1>e, <2>3, <3>2
    <3> QED BY <1>a, <2>1, <3>1, <3>2, <3>3 DEF HeadTells, HeadWhole
  <2> QED BY <2>2, <2>3
<1>6. RollBackCaused'
  BY DEF RollBackCaused, TypeOK, OneConfiguration
<1>7. Kept'
  BY DEF Kept, TypeOK, Undisturbed, OneConfiguration
<1>8. LossAccounted'
  BY DEF LossAccounted, TypeOK, OneConfiguration
<1> QED BY <1>1, <1>2, <1>3, <1>4, <1>5, <1>6, <1>7, <1>8

(* Mapping an index file found.                                            *)
LEMMA MapOldStep ==
  ASSUME IInv, MapOld
  PROVE  IInv'
<1> USE DEF IInv, MapOld
<1>1. TypeOK'
  BY DEF TypeOK
<1>2. StartCounted'
  BY DEF StartCounted, TypeOK
<1>3. DataReady'
  BY DEF DataReady, TypeOK
<1>4. IdxReady'
  BY DEF IdxReady, TypeOK
<1>5. HeadTells'
  BY DEF HeadTells, TypeOK, HeadWhole
<1>6. RollBackCaused'
  BY DEF RollBackCaused, TypeOK, OneConfiguration
<1>7. Kept'
  BY DEF Kept, TypeOK, Undisturbed, OneConfiguration
<1>8. LossAccounted'
  BY DEF LossAccounted, TypeOK, OneConfiguration
<1> QED BY <1>1, <1>2, <1>3, <1>4, <1>5, <1>6, <1>7, <1>8

(* Comparing the header.                                                   *)
LEMMA CheckHeadStep ==
  ASSUME IInv, CheckHead
  PROVE  IInv'
<1> USE DEF IInv, CheckHead
<1>a. /\ UNCHANGED <<data, idx, info, hist>>
      /\ pc = "checkHead" /\ pc' = IF idx.head = HeadOf(info) THEN "mounted" ELSE "unlinkData"
      /\ data.bytes \in Nat /\ idx.bytes \in Nat
  BY DEF TypeOK, HeadMatches
<1>b. idx.head = HeadOf(info) \/ idx.bytes = 0 \/ ~OneConfiguration
  BY <1>a, OneHead, BytesNeedHead
<1>1. TypeOK'
  BY DEF TypeOK
<1>2. StartCounted'
  BY DEF StartCounted, TypeOK
<1>3. DataReady'
  BY DEF DataReady, TypeOK
<1>4. IdxReady'
  BY <1>a DEF IdxReady
<1>5. HeadTells'
  BY DEF HeadTells, TypeOK, HeadWhole
<1>6. RollBackCaused'
  BY <1>a, <1>b DEF RollBackCaused, OneConfiguration
<1>7. Kept'
  BY DEF Kept, TypeOK, Undisturbed, OneConfiguration
<1>8. LossAccounted'
  BY <1>a DEF LossAccounted, OneConfiguration
<1> QED BY <1>1, <1>2, <1>3, <1>4, <1>5, <1>6, <1>7, <1>8

(* Reading the header of an empty file.                                    *)
LEMMA CheckHeadDiesStep ==
  ASSUME IInv, CheckHeadDies
  PROVE  IInv'
<1> USE DEF IInv, CheckHeadDies
<1>a. /\ UNCHANGED <<data, idx, info, hist>> /\ data.bytes \in Nat /\ idx.bytes = 0
  BY WholeHeadFacts, BytesNeedHead DEF TypeOK
<1>1. TypeOK'
  BY DEF TypeOK
<1>2. StartCounted'
  BY DEF StartCounted, TypeOK
<1>3. DataReady'
  BY DEF DataReady, TypeOK
<1>4. IdxReady'
  BY DEF IdxReady, TypeOK
<1>5. HeadTells'
  BY DEF HeadTells, TypeOK, HeadWhole
<1>6. RollBackCaused'
  BY DEF RollBackCaused, TypeOK, OneConfiguration
<1>7. Kept'
  BY DEF Kept, TypeOK, Undisturbed, OneConfiguration
<1>8. LossAccounted'
  BY <1>a DEF LossAccounted
<1> QED BY <1>1, <1>2, <1>3, <1>4, <1>5, <1>6, <1>7, <1>8

(* Unlinking the data file.                                                *)
LEMMA UnlinkDataStep ==
  ASSUME IInv, UnlinkData
  PROVE  IInv'
<1> USE DEF IInv, UnlinkData
<1>a. /\ UNCHANGED <<idx, info, hist>> /\ data'.bytes = 0
      /\ data' \in [exists : BOOLEAN, size : Nat, bytes : Nat]
      /\ idx.bytes \in Nat
      /\ \/ pc = "unlinkDataOnly" /\ pc' = "off" /\ hist.dataFails > 0
         \/ pc = "unlinkData" /\ pc' = "unlinkIdx"
      /\ hist.dataFails \in Nat /\ hist.idxFails \in Nat
  BY FaultBounds DEF TypeOK, NoData, RollBackCaused
<1>1. TypeOK'
  BY <1>a DEF TypeOK
<1>2. StartCounted'
  BY DEF StartCounted, TypeOK
<1>3. DataReady'
  BY DEF DataReady, TypeOK
<1>4. IdxReady'
  BY DEF IdxReady, TypeOK
<1>5. HeadTells'
  BY DEF HeadTells, TypeOK, HeadWhole
<1>6. RollBackCaused'
  BY DEF RollBackCaused, TypeOK, OneConfiguration
<1>7. Kept'
  BY <1>a DEF Kept, Undisturbed, OneConfiguration, RollBackCaused
<1>8. LossAccounted'
  BY <1>a DEF LossAccounted, OneConfiguration, RollBackCaused
<1> QED BY <1>1, <1>2, <1>3, <1>4, <1>5, <1>6, <1>7, <1>8

(* Unlinking the index file.                                               *)
LEMMA UnlinkIdxStep ==
  ASSUME IInv, UnlinkIdx
  PROVE  IInv'
<1> USE DEF IInv, UnlinkIdx
<1>a. /\ UNCHANGED <<data, info, hist>> /\ idx'.bytes = 0 /\ idx'.head = NoHead
      /\ idx' \in [exists : BOOLEAN, size : Nat, head : Heads, bytes : Nat]
      /\ data.bytes \in Nat /\ pc = "unlinkIdx"
      /\ hist.idxFails \in Nat
  BY NoHeadType, FaultBounds DEF TypeOK, NoIdx
<1>1. TypeOK'
  BY <1>a DEF TypeOK
<1>2. StartCounted'
  BY DEF StartCounted, TypeOK
<1>3. DataReady'
  BY DEF DataReady, TypeOK
<1>4. IdxReady'
  BY DEF IdxReady, TypeOK
<1>5. HeadTells'
  BY <1>a, NoHeadType DEF HeadTells, HeadWhole
<1>6. RollBackCaused'
  BY DEF RollBackCaused, TypeOK, OneConfiguration
<1>7. Kept'
  BY <1>a DEF Kept, Undisturbed, OneConfiguration, RollBackCaused
<1>8. LossAccounted'
  BY <1>a DEF LossAccounted
<1> QED BY <1>1, <1>2, <1>3, <1>4, <1>5, <1>6, <1>7, <1>8

(* A write to a mounted file system.                                       *)
LEMMA UserWritesStep ==
  ASSUME IInv, UserWrites
  PROVE  IInv'
<1> USE DEF IInv, UserWrites
<1>a. PICK n \in {Sizes(info).chunkSize, Sizes(info).diskSize} :
        /\ n > idx.bytes
        /\ data' = [data EXCEPT !.bytes = IF @ < idx.bytes THEN @ ELSE n]
        /\ idx' = [idx EXCEPT !.bytes = n]
        /\ hist' = [hist EXCEPT !.stored = n]
  OBVIOUS
<1>b. /\ n \in Nat /\ n <= Sizes(info).diskSize
      /\ UNCHANGED <<pc, info, field>> /\ pc = "mounted"
  BY <1>a, InfoFacts
<1>c. /\ data'.bytes = IF data.bytes < idx.bytes THEN data.bytes ELSE n
      /\ data'.exists = data.exists /\ data'.size = data.size
      /\ idx'.bytes = n /\ idx'.head = idx.head /\ idx'.exists = idx.exists /\ idx'.size = idx.size
      /\ hist'.stored = n /\ hist'.infos = hist.infos /\ hist'.crashes = hist.crashes
      /\ hist'.dataFails = hist.dataFails /\ hist'.idxFails = hist.idxFails
      /\ data.bytes \in Nat /\ idx.bytes \in Nat
  BY <1>a DEF TypeOK
<1>d. idx.head = HeadOf(info) /\ HeadWhole
  BY <1>b, InfoFacts DEF IdxReady, HeadWhole
<1>1. TypeOK'
  BY <1>a, <1>b, <1>c DEF TypeOK
<1>2. StartCounted'
  BY DEF StartCounted, TypeOK
<1>3. DataReady'
  BY DEF DataReady, TypeOK
<1>4. IdxReady'
  BY DEF IdxReady, TypeOK
<1>5. HeadTells'
  BY <1>b, <1>c, <1>d, InfoFacts DEF HeadTells, HeadWhole
<1>6. RollBackCaused'
  BY DEF RollBackCaused, TypeOK, OneConfiguration
<1>7. Kept'
  BY DEF Kept, TypeOK, Undisturbed, OneConfiguration
<1>8. LossAccounted'
  BY <1>b, <1>c DEF LossAccounted, OneConfiguration
<1> QED BY <1>1, <1>2, <1>3, <1>4, <1>5, <1>6, <1>7, <1>8

(* The end of the process.                                                 *)
LEMMA StopStep ==
  ASSUME IInv, Stop
  PROVE  IInv'
<1> USE DEF IInv, Stop
<1>1. TypeOK'
  BY DEF TypeOK
<1>2. StartCounted'
  BY DEF StartCounted, TypeOK
<1>3. DataReady'
  BY DEF DataReady, TypeOK
<1>4. IdxReady'
  BY DEF IdxReady, TypeOK
<1>5. HeadTells'
  BY DEF HeadTells, TypeOK, HeadWhole
<1>6. RollBackCaused'
  BY DEF RollBackCaused, TypeOK, OneConfiguration
<1>7. Kept'
  BY DEF Kept, TypeOK, Undisturbed, OneConfiguration
<1>8. LossAccounted'
  BY DEF LossAccounted, TypeOK, OneConfiguration
<1> QED BY <1>1, <1>2, <1>3, <1>4, <1>5, <1>6, <1>7, <1>8

(* Its death in initFS.                                                    *)
LEMMA CrashStep ==
  ASSUME IInv, Crash
  PROVE  IInv'
<1> USE DEF IInv, Crash
<1>1. TypeOK'
  <2>1. hist.crashes + 1 \in 0..MaxCrashes
    BY FaultBounds DEF TypeOK
  <2>2. hist' \in [dataFails : 0..MaxFails, idxFails : 0..MaxFails, crashes : 0..MaxCrashes,
                   infos : SUBSET Infos, stored : Nat]
    BY <2>1 DEF TypeOK
  <2> QED BY <2>2 DEF TypeOK
<1>2. StartCounted'
  BY DEF StartCounted, TypeOK
<1>3. DataReady'
  BY DEF DataReady, TypeOK
<1>4. IdxReady'
  BY DEF IdxReady, TypeOK
<1>5. HeadTells'
  BY DEF HeadTells, TypeOK, HeadWhole
<1>6. RollBackCaused'
  BY DEF RollBackCaused, TypeOK, OneConfiguration
<1>7. Kept'
  BY DEF Kept, TypeOK, Undisturbed, OneConfiguration
<1>8. LossAccounted'
  BY DEF LossAccounted, TypeOK, OneConfiguration
<1> QED BY <1>1, <1>2, <1>3, <1>4, <1>5, <1>6, <1>7, <1>8

(* A step that changes nothing.                                            *)
LEMMA StutterStep ==
  ASSUME IInv, UNCHANGED vars
  PROVE  IInv'
BY DEF IInv, vars, TypeOK, StartCounted, DataReady, IdxReady, HeadTells, HeadWhole,
       RollBackCaused, Kept, Undisturbed, LossAccounted, OneConfiguration

(* Every step keeps the invariant.                                         *)
LEMMA NextStep ==
  ASSUME IInv, [Next]_vars
  PROVE  IInv'
<1>1. CASE \E i \in Infos : StartRefused(i) \/ Start(i)
  BY <1>1, StartRefusedStep, StartStep
<1>2. CASE InitFSStep
  BY <1>2, OpenDataStep, TruncDataStep, OpenIdxStep, TruncIdxStep, MapNewStep, StoreHeadStep,
     MapOldStep, CheckHeadStep, CheckHeadDiesStep, UnlinkDataStep, UnlinkIdxStep DEF InitFSStep
<1>3. CASE DataCallFails \/ IdxCallFails \/ UserWrites \/ Stop \/ Crash
  BY <1>3, DataCallFailsStep, IdxCallFailsStep, UserWritesStep, StopStep, CrashStep
<1>4. CASE UNCHANGED vars
  BY <1>4, StutterStep
<1> QED BY <1>1, <1>2, <1>3, <1>4 DEF Next
---------------------------------------------------------------------------
(* The invariant holds in every state initFS can leave or be in.           *)
THEOREM StartInvariance == Spec => []IInv
<1>1. Init => IInv
  BY InitInv
<1>2. IInv /\ [Next]_vars => IInv'
  BY NextStep
<1> QED BY <1>1, <1>2, PTL DEF Spec

(* The sizes initFS computes and stores, the two files and the positions   *)
(* of a start stay in their types for all disk sizes and word widths.      *)
THEOREM StartTypeCorrect == Spec => []TypeOK
<1>1. IInv => TypeOK
  BY DEF IInv
<1> QED BY <1>1, StartInvariance, PTL

(* A start that succeeds has an index file and a data file of its own      *)
(* configuration, whatever earlier starts left (initFSCalcPointerAddr).    *)
THEOREM MountedFilesMatch == Spec => []MountedMatches
<1>1. IInv => MountedMatches
  <2> SUFFICES ASSUME IInv, pc = "mounted" PROVE MountedMatches
    BY DEF MountedMatches
  <2>1. idx.head = HeadOf(info) /\ idx.exists /\ data.exists /\ data.size = Sizes(info).diskSize
    BY DEF IInv, IdxReady, DataReady
  <2>2. idx.size = idx.head.usableMemory /\ idx.bytes <= idx.head.coverableDiskSize
    BY <2>1, InfoFacts DEF IInv, HeadTells, HeadWhole
  <2> QED BY <2>1, <2>2, InfoFacts DEF MountedMatches
<1> QED BY <1>1, StartInvariance, PTL

(* Deaths during initFS never cost stored data when the configuration      *)
(* stays and no call fails.                                                *)
THEOREM RestartKeeps == Spec => []RestartKeepsData
<1>1. IInv => RestartKeepsData
  BY DEF IInv, Kept, Undisturbed, RestartKeepsData
<1> QED BY <1>1, StartInvariance, PTL

(* A mounted index file stands for lost bytes only after the causes named: *)
(* the roll-back of initFS unlinks the data file first and, before the     *)
(* index file has a path, alone.                                           *)
THEOREM SilentLossCauses == Spec => []NoSilentLoss
<1>1. IInv => NoSilentLoss
  BY DEF IInv, LossAccounted, NoSilentLoss
<1> QED BY <1>1, StartInvariance, PTL

(* The chunks of a running start cover its disk up to less than one.       *)
THEOREM WholeDisk == Spec => []WholeDiskCovered
<1>1. IInv => WholeDiskCovered
  BY InfoFacts, DiskCovered DEF WholeDiskCovered
<1> QED BY <1>1, StartInvariance, PTL
===========================================================================
