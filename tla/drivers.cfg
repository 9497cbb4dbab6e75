\* Two users of the attributes, a process that polls, the timer; loading may fail at
\* each step, unload and load again.
SPECIFICATION FairSpec
CONSTANTS
  u1 = u1
  u2 = u2
  Users = {u1, u2}
  Faults = {"none", "link_down", "link_degraded", "correctable_error_spike",
            "nonfatal_error", "telemetry_timeout", "over_temperature", "over_power"}
  MaxSequence = 5
  MaxCount = 3
INVARIANTS
  ReleasedInOrder
  NoUseAfterFree
  TelemetryMatchesFault
PROPERTIES
  EventsReported
  UnloadCompletes
