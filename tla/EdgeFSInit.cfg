CONSTANTS
  Infos <- SomeInfos
  HeadSize = 2
  MetaSize = 2
  AlignSize = 2
  MinChunk = 2
  MaxChunk = 8
  Word = 64
  MaxFails = 1
  MaxCrashes = 2
SPECIFICATION Spec
INVARIANTS
  TypeOK
  MountedMatches
  RestartKeepsData
  NoSilentLoss
  WholeDiskCovered
PROPERTIES
  RestartMounts
