CONSTANTS
  Sources <- MCSources
  Alphabet <- MCAlphabet
  Words <- MCWords
  Keywords <- MCKeywords
  Digits <- MCDigits
  AnyLength = 3
  CommentLength = 6
  OperatorLength = 5
  DirectiveLength = 5

SPECIFICATION Spec

INVARIANTS
  TypeOK
  LinesRight
  ColumnsRight
  LossesExplained
  OverlapsOnlyAtEnd
  PlainSourceKept
  OperatorsWhole
  WordsWhole

PROPERTY Terminates

\* tokenize returns.
CHECK_DEADLOCK FALSE
