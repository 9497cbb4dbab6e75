\* One PLDM sensor that comes and goes around its limit, one hwmon sensor, and up
\* to two InjectFault calls at any point of a polling cycle.
SPECIFICATION FairSpec
CONSTANTS
  NoLimit = NoLimit
  Absent = Absent
  Temp = Temp
  Fan = Fan
  OutsideLimits = OutsideLimits
  PcieDevice = PcieDevice
  SensorPaths <- MCSensors
  OtherPaths <- MCOther
  Bindings <- MCBindings
  Eid <- MCEid
  HwmonOrder <- MCHwmon
  DefaultLimits <- MCLimits
  PdrLimits <- MCPdr
  Initial <- MCInitial
  Readings <- MCReadings
  HwmonOutOfRange <- MCFanOutOfRange
  Rejected <- MCRejected
  PcieModule = TRUE
  HostDevices = TRUE
  Requests <- MCRequests
  Leftover = {}
  MaxCalls = 2
INVARIANTS
  HealthMatchesReading
  AggregateMatchesLog
PROPERTIES
  ImplementsBoard
  NoFlapping
  SignalledAlarmHasEntry
  ChangesAnnounced
  InjectAnswered
  StopCompletes
  FaultReflected
