CONSTANTS
  Identifiers <- MCIdentifiers
  Sources <- MCSources
  Bodies <- ElseBodies
  Elements = {}
  Fragments = {}
  BodyFragments = {}
  MaxFragments = 1

SPECIFICATION MCSpec

INVARIANT ElseOnce
