CONSTANTS
  Sources <- MCSources
  Alphabet <- MCAlphabet
  Words <- MCWords
  Keywords <- MCKeywords
  Digits <- MCDigits
  AnyLength = 3
  CommentLength = 6
  OperatorLength = 5
  DirectiveLength = 5

SPECIFICATION Spec

INVARIANT CommentsEndAtFirstClose

\* tokenize returns.
CHECK_DEADLOCK FALSE
