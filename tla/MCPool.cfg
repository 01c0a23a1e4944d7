CONSTANTS
  Width = 6
  Base = 16
  PoolSize = 10
  Requests <- MCRequests
  Programs <- MCPrograms

SPECIFICATION Spec

INVARIANTS
  TypeOK
  BlocksInPool
  BlocksDisjoint
  BlocksAligned
  AbortOnlyWhenFull
  FaultOnlyWhenBlind

\* The program ends: it exits, aborts or faults.
CHECK_DEADLOCK FALSE
