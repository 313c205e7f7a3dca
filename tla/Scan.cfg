SPECIFICATION ScanSpec
CONSTANTS
  Absent = Absent
  Objects <- Four
  Severities = {0, 1}
  PageSize = 2
  Readings <- MCReadings
  MaxMoves = 3
INVARIANTS
  MissedWithinMoves
  QuietViewIsReach
CHECK_DEADLOCK FALSE
