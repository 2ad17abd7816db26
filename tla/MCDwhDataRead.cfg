CONSTANTS
  Word = 4096
  RandMax = 31
  MaxInt = 31
  DefaultFile = 96
  Chunk = 10
  PageSize = 4
  MinSize = 2
  Scale = 4
  MemNumbers = {0}
  FileNumbers = {0}
  IONumbers = {8}
  Suffixes = {0}
SPECIFICATION DataSpec
INVARIANT ReadInOwnFile
