CONSTANTS
  Names <- MCNames
  Attrs <- MCAttrs
  Symbols <- MCSymbols
  Tokens <- MCTokens
  VoidTags <- MCVoidTags
  MaxDepth = 2
  MaxItems = 4
  MaxAttrs = 1

SPECIFICATION Spec

CONSTRAINT Small

INVARIANTS
  TypeOK
  OnlyTopPending
  Balanced

PROPERTY IsEager

\* A failed assertion ends the program.
CHECK_DEADLOCK FALSE
