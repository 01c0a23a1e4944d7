CONSTANTS
  Letters <- MCLetters
  FileSystems <- MCFileSystems
  Main <- MCMain
  SearchPaths <- MCSearchPaths
  OutSize = 30
  MaxLoads = 3
  Lost = 5
  MaxLines = 3
  Lines <- FlatLines
  Raw <- RawLines

SPECIFICATION MCSpec

INVARIANTS
  TypeOK
  FailsOnlyWhenFull

PROPERTIES
  NothingTwice
  ExpansionRight
