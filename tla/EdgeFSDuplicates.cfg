CONSTANTS
  f1 = f1
  f2 = f2
  f3 = f3
  Files = {f1, f2}
  NoFile = NoFile
  NumChunks = 3
  ChunkSize = 2
  HashKey <- TwoFiles
  WriteLens = {1, 4}
  IoFails = FALSE
  MaxCrashes = 0
SPECIFICATION Spec
INVARIANTS
  ReportedBytesStored
CHECK_DEADLOCK FALSE
