CONSTANTS
  Letters <- MCLetters
  FileSystems <- MCFileSystems
  Main <- MCMain
  SearchPaths <- MCSearchPaths
  OutSize = 30
  MaxLoads = 3
  Lost = 5
  MaxLines = 1
  Lines = {}
  Raw <- NestedLines

SPECIFICATION MCSpec

INVARIANT EndifKnown
