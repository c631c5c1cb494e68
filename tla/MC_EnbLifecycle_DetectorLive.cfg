\* The process ends when main returns: terminal states are expected.
CONSTANTS
  PoolSize = 2
  MaxWindows = 3
  MaxTti = 2

SPECIFICATION LcSpec

CHECK_DEADLOCK FALSE

INVARIANT DetectorLive
