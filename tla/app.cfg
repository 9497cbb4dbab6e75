\* One detached session, the sensor and firmware workers and the D-Bus loop, from a
\* start that may fail at each step to the end of main().
SPECIFICATION FairSpec
CONSTANTS
  h1 = h1
  Buses = {"user"}
  Sessions = {h1}
  MaxEntries = 2
  MaxEvents = 3
  MaxSteps = 2
INVARIANTS
  LogKeepsNewest
  NothingStaleAtRest
  NothingRunsAtDestruction
  OnlyOutliversTouchDestroyed
PROPERTIES
  ShutdownCompletes
