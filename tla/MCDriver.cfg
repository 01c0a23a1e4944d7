CONSTANTS
  Entries <- MCEntries
  Verdict <- MCVerdict
  Text <- MCText
  Long <- MCLong
  Expected <- MCExpected
  MaxRuns = 3

SPECIFICATION Spec

INVARIANTS
  TypeOK
  PassedIsShown
  PagesHaveStyles
  ExitZeroRepairs

PROPERTY OldPagesKept

\* The programs end.
CHECK_DEADLOCK FALSE
