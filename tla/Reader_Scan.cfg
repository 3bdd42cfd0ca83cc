SPECIFICATION Spec
CONSTANTS
  Snapshots <- ShortSnapshots
  Filters <- MCFilters
  Limits <- MCLimits
  MaxRecordBytes = 2
  ChunkSize = 3
INVARIANTS
  CountersExact
  NewestReturned
CHECK_DEADLOCK FALSE
