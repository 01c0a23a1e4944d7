CONSTANTS
  a = a
  b = b
  c = c
  d = d
  v = v
  w = w
  NULL = NULL
  Keys <- MCKeys
  Values <- MCValues
  Size = 2
  Hash <- MCHash

SPECIFICATION Spec

INVARIANTS
  TypeOK
  OneEntryPerKey

PROPERTY IsMap
