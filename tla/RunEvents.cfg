\* A second is two milliseconds, a millisecond two microseconds; the cron job's
\* interval is a second and a half.
SPECIFICATION LiveSpec
CONSTANTS
  Plain = {e1, e2}
  Cron = {c1}
  Node = {n1, n2, n3, n4, n5, n6}
  None = None
  Delays = {0, 3}
  Interval = 3
  MsPerSec = 2
  UsPerMs = 2
  MaxLag = 1
  Budget = 4
  MaxStack = 6
INVARIANTS NoWildPointer HandlesTrue
PROPERTIES CronSpacing EventHappens CronRecurs DestroyEnds
CHECK_DEADLOCK FALSE
