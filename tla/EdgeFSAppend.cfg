CONSTANTS
  f1 = f1
  f2 = f2
  f3 = f3
  Files = {f1, f2, f3}
  NoFile = NoFile
  NumChunks = 4
  ChunkSize = 2
  HashKey <- TwoSlots
  WriteLens = {0, 1, 2}
  IoFails = FALSE
  MaxCrashes = 0
SPECIFICATION Spec
INVARIANTS
  ListsEnd
  ReadBack
  OnlyLastChunkPartial
  EveryTakenChunkReachable
  RefusedOnlyWhenFull
PROPERTIES
  ImplementsAppendStore
