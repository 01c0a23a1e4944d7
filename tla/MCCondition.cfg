CONSTANTS
  Names <- MCNames
  Exprs <- MCExprs
  MaxTokens = 5
  MaxStack = 3
  Malformed = TRUE

SPECIFICATION Spec

INVARIANTS
  TypeOK
  ValueRight
  FailsOnlyWhenFull

PROPERTY Ends

\* An assertion or a write outside the statics ends the program.
CHECK_DEADLOCK FALSE
