CONSTANTS
  Infos <- ManyInfos
  HeadSize = 2
  MetaSize = 2
  AlignSize = 2
  MinChunk = 2
  MaxChunk = 8
  Word = 64
  MaxFails = 0
  MaxCrashes = 0
SPECIFICATION Spec
INVARIANTS
  MemoryCoversDisk
