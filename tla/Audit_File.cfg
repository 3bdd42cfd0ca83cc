SPECIFICATION FairSpec
CONSTANTS
  p1 = p1
  p2 = p2
  t1 = t1
  t2 = t2
  t3 = t3
  r1 = r1
  Nobody = Nobody
  Procs = {p1, p2}
  Threads = {t1, t2, t3}
  ProcOf <- TwoThreads
  Readers = {r1}
  Pieces = 2
  MaxRecords = 2
  Quota <- MCQuota
  MaxKills = 1
  MaxErrors = 1
INVARIANTS
  OneRecordPerLine
  AckedReadable
  OneLossPerKill
  LockedSnapshotTail
PROPERTIES
  ImplementsAppendLog
  NoWriterStuck
CHECK_DEADLOCK FALSE
