\* A fault that the endpoint is said to have rejected, against sensor_manager.cpp
\* line 517.  The agent is prompt and stays up.
SPECIFICATION PromptSpec
CONSTANTS
  Commands = {"getSensorReading"}
  Faults = {"unsupported_command"}
  Backlog = 1
INVARIANT
  FailedIsNotInForce
