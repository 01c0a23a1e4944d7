CONSTANTS
  Names <- MCNames
  Exprs <- MCExprs
  MaxTokens = 5
  MaxStack = 3
  Malformed = FALSE

SPECIFICATION Spec

INVARIANT NoAbortOnWellFormed

\* An assertion or a write outside the statics ends the program.
CHECK_DEADLOCK FALSE
