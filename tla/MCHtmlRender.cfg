CONSTANTS
  Identifiers <- MCIdentifiers
  Sources <- MCSources
  Bodies <- AllBodies
  Elements <- AllElements
  Fragments <- SomeFragments
  BodyFragments <- SomeBodyFragments
  MaxFragments = 4

SPECIFICATION MCSpec

INVARIANTS
  ParserTypeOK
  PageRight
  WellFormedIsShown
  NothingTwice

PROPERTY ParseForward
