----------------------------- MODULE SensorManager -----------------------------
(***************************************************************************)
(* services/bmc-sensor-service of mini-openbmc-platform-service: the class *)
(* SensorManager with the DbusServer it publishes to and the main thread   *)
(* that runs both (app.cpp).                                               *)
(*                                                                         *)
(*   - the main thread initialises, discovers, serves D-Bus calls and      *)
(*     stops; a call of InjectFault runs in it with DbusServer's mutex     *)
(*     held, and may take mctpMutex_ and mutex_ under it;                  *)
(*   - the polling thread asks the endpoints one sensor at a time (with    *)
(*     mctpMutex_), reads the kernel drivers, evaluates all sensors under  *)
(*     mutex_ and publishes them (each with DbusServer's mutex).           *)
(***************************************************************************)
EXTENDS DbusServer, ThresholdEngine, Sequences, SequencesExt

CONSTANTS
  Bindings,         \* the PLDM sensors, in the order they are polled
  Eid,              \* the endpoint of each of them
  HwmonOrder,       \* the sensors behind mini_i2c_hwmon, in the order they are read
  PcieDevice,       \* the inventory object PCIeDevice0
  DefaultLimits,    \* the limits compiled in
  PdrLimits,        \* the limits an endpoint's PDR gives for a PLDM sensor
  Initial,          \* the reading each sensor starts with
  Readings,         \* what a PLDM sensor may be found at
  HwmonOutOfRange,  \* what an hwmon sensor shows under its out_of_range fault
  Rejected,         \* a value outside the validation limits of the backend
  PcieModule,       \* whether mini_pcie_telemetry is loaded
  HostDevices,      \* whether the host has a readable PCI device
  Requests,         \* what clients ask of InjectFault: pairs of a target and a fault
  Leftover,         \* those that an earlier life of the service may have left
  MaxCalls          \* bound on the number of InjectFault calls

PldmSensors == Range(Bindings)
HwmonSensors == Range(HwmonOrder)
Sensors == PldmSensors \cup HwmonSensors
Entry(s) == <<"entry", s>>
Targets == Sensors \cup {PcieDevice}

PldmFaults  == {"packet_loss", "out_of_order_packet", "sequence_mismatch",
                "timeout_before_eom", "unsupported_command", "bad_completion_code",
                "malformed_response", "sensor_unavailable"}
HwmonFaults == {"read_timeout", "device_disappeared", "stuck_value",
                "out_of_range", "invalid_reading"}
PcieFaults  == {"link_down", "link_degraded", "correctable_error_spike",
                "nonfatal_error", "telemetry_timeout", "over_temperature", "over_power"}
AllFaults   == PldmFaults \cup HwmonFaults \cup PcieFaults

\* What a sensor's object shows.
Shown == [reading : Int, state : {"Enabled", "Unavailable"},
          health : {"OK", "Warning", "Critical", "Unknown"}]

ASSUME ManagerAssumption ==
  /\ Bindings \in Seq(PldmSensors) /\ Bindings # <<>>
  /\ HwmonOrder \in Seq(HwmonSensors)
  /\ PldmSensors \cap HwmonSensors = {}
  /\ SensorPaths = Sensors
  /\ OtherPaths = {PcieDevice} \cup {Entry(s) : s \in Sensors}
  /\ PcieDevice \notin {Entry(s) : s \in Sensors}
  /\ Absent \notin Shown \cup {"asserted", "recovered"}
  /\ DefaultLimits \in [Sensors -> Limits]
  /\ PdrLimits \in [PldmSensors -> Limits]
  /\ Initial \in [Sensors -> Int]
  /\ Readings \in [PldmSensors -> SUBSET Int]
  /\ \A s \in HwmonSensors : HwmonOutOfRange[s] = Rejected \/ HwmonOutOfRange[s] \in Int
  /\ Requests \subseteq Targets \X AllFaults
  /\ Leftover \subseteq AllFaults
  /\ MaxCalls \in Nat

Beyond(l, r) == ExceedsUpper(l, r) \/ BelowLower(l, r)

\* The initial readings are harmless (sensor_manager.cpp:73 to 90).
ASSUME InitialAssumption ==
  \A s \in Sensors :
    /\ ~Beyond(DefaultLimits[s], Initial[s])
    /\ s \in PldmSensors => ~Beyond(PdrLimits[s], Initial[s])

VARIABLES
  main,           \* where the main thread is
  call,           \* the InjectFault call it executes
  calls,          \* how many it has taken (bounds the model)
  poll,           \* where the polling thread is
  pending,        \* the sensors it still has to go through
  fetched,        \* the hwmon inputs it has read in this cycle
  pcieStatus,     \* what it has read of the PCIe device
  mctpMutex,      \* the thread that holds mctpMutex_
  stopping,       \* member stopping_
  sensors,        \* member sensors_, limits apart
  limits,         \* their thresholds
  level,          \* ThresholdEventEngine::activeFaults_
  newEvents,      \* sensors whose new event is not published yet
  injectedFaults, \* member injectedFaults_
  endpointFault,  \* the fault in force at the GPU endpoint, EID 8
  hwmonFault,     \* the fault in force in mini_i2c_hwmon
  pcieFault       \* the fault in force in mini_pcie_telemetry

mainVars   == <<main, call, calls, stopping>>
pollVars   == <<poll, pending, fetched, pcieStatus, newEvents>>
sensorVars == <<sensors, limits, level>>
faultVars  == <<injectedFaults, endpointFault, hwmonFault, pcieFault>>
vars == <<mainVars, pollVars, sensorVars, faultVars, mctpMutex, dbusVars>>

NoCall == [target |-> PcieDevice, fault |-> "none", enabled |-> FALSE]

\* What PCIeDevice0 shows when a PCI device of the host stands in for it.
HostStatus == [source |-> "host", health |-> "OK"]

AllSensors == Bindings \o HwmonOrder

-----------------------------------------------------------------------------
(* The locks.  mutex_ is only ever held within one action of this model,    *)
(* but by initializeObjects(), which runs alone.                            *)

Handling == main \in {"apply", "mctp", "exchange", "record"}

\* Mutation of DbusFree: process() releases the mutex before it calls a handler.
DbusFreeInHandler == main # "dispatch"

\* The polling thread can enter upsertObject().
DbusFree == main # "dispatch" /\ ~Handling

-----------------------------------------------------------------------------
Init ==
  /\ main = "init" /\ call = NoCall /\ calls = 0 /\ stopping = FALSE
  /\ poll = "absent" /\ pending = <<>> /\ newEvents = {}
  /\ fetched = [s \in HwmonSensors |-> Initial[s]]
  /\ pcieStatus = HostStatus
  /\ mctpMutex = "free"
  /\ sensors = [s \in Sensors |-> [reading |-> Initial[s], state |-> "Enabled",
                                   health |-> "OK"]]
  /\ limits = DefaultLimits
  /\ level = [s \in Sensors |-> "none"]
  /\ injectedFaults = [t \in Targets |-> "none"]
  \* The endpoint agent and the drivers outlive this service and keep faults.
  /\ endpointFault \in {"none"} \cup (Leftover \cap PldmFaults)
  /\ hwmonFault \in {"none"} \cup (Leftover \cap HwmonFaults)
  /\ pcieFault \in {"none"} \cup (Leftover \cap PcieFaults)
  /\ DbusInit

-----------------------------------------------------------------------------
(* The main thread.                                                         *)

\* initializeObjects().
Initialize ==
  /\ main = "init"
  /\ objects' = [p \in Paths |-> IF p \in Sensors THEN sensors[p] ELSE objects[p]]
  /\ pendingAdds' = Sensors
  /\ main' = "discover"
  /\ UNCHANGED <<call, calls, stopping, pollVars, sensorVars, faultVars, mctpMutex,
                 pendingChanges, unannounced>>

\* discoverPldm(): along each endpoint's chain of PDRs, until an answer is bad.
Discover ==
  /\ main = "discover"
  /\ \E length \in [Range(Eid) -> 0..Len(Bindings)] :
       limits' = [s \in Sensors |->
                    IF \E i \in 1..Len(Bindings) : s = Bindings[i]
                         /\ Cardinality({j \in 1..i : Eid[Bindings[j]] = Eid[s]})
                              <= length[Eid[s]]
                    THEN PdrLimits[s] ELSE limits[s]]
  /\ main' = "wait"
  /\ poll' = "loop"
  /\ UNCHANGED <<call, calls, stopping, pending, fetched, pcieStatus, newEvents, sensors,
                 level, faultVars, mctpMutex, dbusVars>>

\* One turn of run(): process() without an incoming call.
Process ==
  /\ main = "wait"
  /\ ProcessPending
  /\ UNCHANGED <<mainVars, pollVars, sensorVars, faultVars, mctpMutex>>

\* injectFault(): the target is checked, then the fault decides who is told.
Called ==
  /\ calls < MaxCalls
  /\ calls' = calls + 1
  /\ \E request \in Requests, e \in BOOLEAN :
       call' = [target |-> request[1], fault |-> request[2], enabled |-> e]
  /\ main' = "apply"

\* process() with a call: everything that is pending is published first, then
\* the mutex stays held until all calls are handled.
ProcessCall ==
  /\ main = "wait"
  /\ ProcessPending
  /\ Called
  /\ UNCHANGED <<stopping, pollVars, sensorVars, faultVars, mctpMutex>>

\* sd_bus_process returned 1: there is another message.
ProcessAnotherCall ==
  /\ main = "dispatch"
  /\ Called
  /\ UNCHANGED <<stopping, pollVars, sensorVars, faultVars, mctpMutex, dbusVars>>

\* It returned 0.
EndDispatch ==
  /\ main = "dispatch"
  /\ main' = "wait"
  /\ UNCHANGED <<call, calls, stopping, pollVars, sensorVars, faultVars, mctpMutex, dbusVars>>

\* A signal, or process() fails: stop() and the destructors do the same.
Stop ==
  /\ main = "wait"
  /\ stopping' = TRUE
  /\ poll' = IF poll = "waiting" THEN "loop" ELSE poll
  /\ main' = "join"
  /\ UNCHANGED <<call, calls, pending, fetched, pcieStatus, newEvents, sensorVars, faultVars,
                 mctpMutex, dbusVars>>

Joined ==
  /\ main = "join"
  /\ poll = "exited"
  /\ main' = "done"
  /\ UNCHANGED <<call, calls, stopping, pollVars, sensorVars, faultVars, mctpMutex, dbusVars>>

AppliedFault == IF call.enabled THEN call.fault ELSE "none"

\* Back in process(), with the reply sent.
Reply ==
  /\ main' = "dispatch"
  /\ call' = NoCall

\* MiniPcieBackend::setFault(): writing fails without the module.
SetPcieFault ==
  /\ call.fault \in PcieFaults
  /\ PcieModule
  /\ pcieFault' = AppliedFault
  /\ UNCHANGED hwmonFault

\* HwmonSensorBackend::setFault() and the driver's store, if the driver is found.
\* out_of_range is one of its faults, whatever the target.
SetHwmonFault ==
  /\ call.fault \in HwmonFaults
  /\ hwmonFault' \in {hwmonFault, AppliedFault}
  /\ UNCHANGED pcieFault

\* The fault goes to a driver's fault_mode, which may not be writable.  A
\* missing hwmon driver is no error: the fault is recorded all the same.
ApplyToDriver ==
  /\ main = "apply"
  /\ call.fault \notin PldmFaults
  /\ \/ Reply /\ UNCHANGED <<hwmonFault, pcieFault>>
     \/ /\ main' = "record"
        /\ UNCHANGED call
        /\ SetHwmonFault \/ SetPcieFault
  /\ UNCHANGED <<calls, stopping, pollVars, sensorVars, injectedFaults, endpointFault,
                 mctpMutex, dbusVars>>

ApplyToEndpoint ==
  /\ main = "apply"
  /\ call.fault \in PldmFaults
  /\ main' = "mctp"
  /\ UNCHANGED <<call, calls, stopping, pollVars, sensorVars, faultVars, mctpMutex, dbusVars>>

LockForFault ==
  /\ main = "mctp"
  /\ mctpMutex = "free"
  /\ mctpMutex' = "main"
  /\ main' = "exchange"
  /\ UNCHANGED <<call, calls, stopping, pollVars, sensorVars, faultVars, dbusVars>>

\* setEndpointFault(): always EID 8; the answer may be lost or a refusal even
\* though the fault is in force by then.
SetEndpointFault ==
  /\ main = "exchange"
  /\ mctpMutex' = "free"
  /\ \/ /\ endpointFault' = AppliedFault
        /\ main' = "record"
        /\ UNCHANGED call
     \/ /\ endpointFault' \in {endpointFault, AppliedFault}
        /\ Reply
  /\ UNCHANGED <<calls, stopping, pollVars, sensorVars, injectedFaults, hwmonFault,
                 pcieFault, dbusVars>>

\* notify_all() wakes the polling thread, which goes back to sleep: its
\* predicate is stopping_ alone.
RecordFault ==
  /\ main = "record"
  /\ injectedFaults' = [injectedFaults EXCEPT ![call.target] = AppliedFault]
  /\ Reply
  /\ UNCHANGED <<calls, stopping, pollVars, sensorVars, endpointFault, hwmonFault,
                 pcieFault, mctpMutex, dbusVars>>

Main ==
  \/ Initialize \/ Discover \/ Process \/ Joined \/ EndDispatch
  \/ ApplyToDriver \/ ApplyToEndpoint \/ LockForFault \/ SetEndpointFault \/ RecordFault

-----------------------------------------------------------------------------
(* The polling thread.                                                      *)

PollUnchanged == UNCHANGED <<mainVars, faultVars>>

\* Head of the loop in pollingLoop().
Loop ==
  /\ poll = "loop"
  /\ poll' = IF stopping THEN "exited" ELSE "sweep"
  /\ pending' = IF stopping THEN pending ELSE Bindings
  /\ PollUnchanged
  /\ UNCHANGED <<fetched, pcieStatus, newEvents, sensorVars, mctpMutex, dbusVars>>

\* pollPldm(): the request for the next sensor goes out under mctpMutex_.
Ask ==
  /\ poll = "sweep"
  /\ pending # <<>>
  /\ mctpMutex = "free"
  /\ mctpMutex' = "poll"
  /\ poll' = "asking"
  /\ PollUnchanged
  /\ UNCHANGED <<pending, fetched, pcieStatus, newEvents, sensorVars, dbusVars>>

Unavailable(r) == [r EXCEPT !.state = "Unavailable", !.health = "Unknown"]

Found(r, value) == [r EXCEPT !.reading = value, !.state = "Enabled"]

\* The answer, or the lack of one: a faulty endpoint gives no good answer, and
\* any request may fail for reasons of the transport.
Answer ==
  /\ poll = "asking"
  /\ mctpMutex' = "free"
  /\ LET s == Head(pending) IN
       \/ sensors' = [sensors EXCEPT ![s] = Unavailable(@)]
       \/ /\ Eid[s] # 8 \/ endpointFault = "none"
          /\ \E v \in Readings[s] : sensors' = [sensors EXCEPT ![s] = Found(@, v)]
  /\ pending' = Tail(pending)
  /\ poll' = IF Len(pending) = 1 THEN "telemetry" ELSE "sweep"
  /\ PollUnchanged
  /\ UNCHANGED <<fetched, pcieStatus, newEvents, limits, level, dbusVars>>

PcieHealth(fault) ==
  IF fault \in {"none", "telemetry_timeout"} THEN "OK"
  ELSE IF fault \in {"link_degraded", "correctable_error_spike"} THEN "Warning"
  ELSE "Critical"

TelemetryOk == PcieModule /\ pcieFault # "telemetry_timeout"

\* The first half of pollKernelTelemetry().  readTelemetry() reads fault_mode first;
\* whatever keeps the module from answering, a PCI device of the host takes its place.
TelemetryMode ==
  /\ poll = "telemetry"
  /\ poll' = IF TelemetryOk THEN "pcie_health"
             ELSE IF HostDevices THEN "pcie_publish" ELSE "fault_mode"
  /\ PollUnchanged
  /\ UNCHANGED <<pending, fetched, pcieStatus, newEvents, sensorVars, mctpMutex, dbusVars>>

\* Of the other files, health is the last; by then another fault may be in force.
TelemetryHealth ==
  /\ poll = "pcie_health"
  /\ pcieStatus' = [source |-> "module", health |-> PcieHealth(pcieFault)]
  /\ poll' = "pcie_publish"
  /\ PollUnchanged
  /\ UNCHANGED <<pending, fetched, newEvents, sensorVars, mctpMutex, dbusVars>>

\* And a further one by the time upsertObject() gets the mutex.
TelemetryPublish ==
  /\ poll = "pcie_publish"
  /\ DbusFree
  /\ UpsertObject(PcieDevice, pcieStatus)
  /\ poll' = "fault_mode"
  /\ pcieStatus' = HostStatus   \* a local variable ends
  /\ PollUnchanged
  /\ UNCHANGED <<pending, fetched, newEvents, sensorVars, mctpMutex>>

HwmonUnavailable ==
  /\ sensors' = [s \in Sensors |-> IF s \in HwmonSensors THEN Unavailable(sensors[s])
                                                         ELSE sensors[s]]
  /\ poll' = "evaluate"
  /\ UNCHANGED pending

\* HwmonSensorBackend::read(), first the fault mode.  The driver may be missing.
HwmonFaultMode ==
  /\ poll = "fault_mode"
  /\ \/ HwmonUnavailable
     \/ /\ hwmonFault \notin {"read_timeout", "device_disappeared", "invalid_reading"}
        /\ poll' = "inputs"
        /\ pending' = HwmonOrder
        /\ UNCHANGED sensors
  /\ PollUnchanged
  /\ UNCHANGED <<fetched, pcieStatus, newEvents, limits, level, mctpMutex, dbusVars>>

\* What mini_i2c_hwmon shows in the input file of s.
HwmonInput(s) ==
  CASE hwmonFault \in {"read_timeout", "device_disappeared", "invalid_reading"} -> Rejected
    [] hwmonFault = "out_of_range" -> HwmonOutOfRange[s]
    [] OTHER -> Initial[s]

\* Then one file after the other: the fault may change in between.
HwmonRead ==
  /\ poll = "inputs"
  /\ pending # <<>>
  /\ fetched' = [fetched EXCEPT ![Head(pending)] = HwmonInput(Head(pending))]
  /\ pending' = Tail(pending)
  /\ PollUnchanged
  /\ UNCHANGED <<poll, pcieStatus, newEvents, sensorVars, mctpMutex, dbusVars>>

\* One value that fails or is outside the validation limits spoils all.
Spoiled == \E s \in HwmonSensors : fetched[s] = Rejected

HwmonStore ==
  /\ poll = "inputs"
  /\ pending = <<>>
  /\ IF Spoiled
     THEN HwmonUnavailable
     ELSE /\ sensors' = [s \in Sensors |-> IF s \in HwmonSensors
                                           THEN Found(sensors[s], fetched[s]) ELSE sensors[s]]
          /\ poll' = "evaluate"
          /\ UNCHANGED pending
  /\ fetched' = [s \in HwmonSensors |-> Initial[s]]   \* a local variable ends
  /\ PollUnchanged
  /\ UNCHANGED <<pcieStatus, newEvents, limits, level, mctpMutex, dbusVars>>

\* The recorded fault of a sensor is laid over its reading.
OutOfRange(s) ==
  IF limits[s].upper # NoLimit THEN limits[s].upper + 100
  ELSE IF limits[s].lower # NoLimit THEN limits[s].lower - 100 ELSE sensors[s].reading

\* Mutation of Overlaid: an out-of-range sensor that cannot be read stays so.
OverlaidKeepsState(s) ==
  CASE injectedFaults[s] = "out_of_range" -> [sensors[s] EXCEPT !.reading = OutOfRange(s)]
    [] injectedFaults[s] \in {"device_disappeared", "sensor_unavailable"}
         -> Unavailable(sensors[s])
    [] OTHER -> sensors[s]

Overlaid(s) ==
  CASE injectedFaults[s] = "out_of_range" -> Found(sensors[s], OutOfRange(s))
    [] injectedFaults[s] \in {"device_disappeared", "sensor_unavailable"}
         -> Unavailable(sensors[s])
    [] OTHER -> sensors[s]

\* The rest of the locked block of pollOnce().
Evaluate ==
  /\ poll = "evaluate"
  /\ LET new == [s \in Sensors |->
                   IF Overlaid(s).state = "Enabled"
                   THEN NextLevel(level[s], limits[s], Overlaid(s).reading) ELSE level[s]]
     IN /\ level' = new
        /\ newEvents' = {s \in Sensors : new[s] # level[s]}
        /\ sensors' = [s \in Sensors |->
                         [Overlaid(s) EXCEPT !.health =
                            IF Overlaid(s).state = "Enabled"
                            THEN HealthAt(new[s], limits[s]) ELSE "Unknown"]]
  /\ pending' = AllSensors
  /\ poll' = "publish"
  /\ PollUnchanged
  /\ UNCHANGED <<fetched, pcieStatus, limits, mctpMutex, dbusVars>>

PublishEvent ==
  /\ poll = "publish"
  /\ DbusFree
  /\ \E s \in newEvents :
       /\ AddObject(Entry(s), EventAt(level[s]))
       /\ newEvents' = newEvents \ {s}
  /\ PollUnchanged
  /\ UNCHANGED <<poll, pending, fetched, pcieStatus, sensorVars, mctpMutex>>

\* Mutation of EventsPublished: sensors go out before the events of the cycle.
EventsLater == TRUE

EventsPublished == newEvents = {}

PublishSensor ==
  /\ poll = "publish"
  /\ EventsPublished
  /\ pending # <<>>
  /\ DbusFree
  /\ UpsertObject(Head(pending), sensors[Head(pending)])
  /\ pending' = Tail(pending)
  /\ PollUnchanged
  /\ UNCHANGED <<poll, fetched, pcieStatus, newEvents, sensorVars, mctpMutex>>

\* Mutation of AfterCycle: stop() raises its flag between the test and the wait.
AfterCycleUnlocked == "waiting"

\* condition_.wait_for tests stopping_ and sleeps without letting go of mutex_.
AfterCycle == IF stopping THEN "loop" ELSE "waiting"

Wait ==
  /\ poll = "publish"
  /\ newEvents = {}
  /\ pending = <<>>
  /\ poll' = AfterCycle
  /\ PollUnchanged
  /\ UNCHANGED <<pending, fetched, pcieStatus, newEvents, sensorVars, mctpMutex, dbusVars>>

Poll ==
  \/ Loop \/ Ask \/ Answer \/ TelemetryMode \/ TelemetryHealth \/ TelemetryPublish
  \/ HwmonFaultMode \/ HwmonRead \/ HwmonStore
  \/ Evaluate \/ PublishEvent \/ PublishSensor \/ Wait

Timer ==
  /\ poll = "waiting"
  /\ poll' = "loop"
  /\ PollUnchanged
  /\ UNCHANGED <<pending, fetched, pcieStatus, newEvents, sensorVars, mctpMutex, dbusVars>>

Done == main = "done" /\ UNCHANGED vars

-----------------------------------------------------------------------------
(* The REST service (rest_server.cpp): another process, which reads the     *)
(* object table through ListObjects and keeps nothing of it.                *)

Listed == {p \in Sensors \cup {PcieDevice} : objects[p] # Absent}

\* Mutation of AggregateHealth: the loop goes on after a Critical object.
AggregateOfLast ==
  LET found == {objects[p].health : p \in Listed} IN
  IF "Warning" \in found THEN "Warning" ELSE IF "Critical" \in found THEN "Critical" ELSE "OK"

\* GET /redfish/v1/Managers/BMC0/Health; an unknown health does not count.
AggregateHealth ==
  LET found == {objects[p].health : p \in Listed} IN
  IF "Critical" \in found THEN "Critical" ELSE IF "Warning" \in found THEN "Warning" ELSE "OK"

-----------------------------------------------------------------------------

Next == Main \/ ProcessCall \/ ProcessAnotherCall \/ Stop \/ Poll \/ Timer \/ Done

Spec == Init /\ [][Next]_vars

\* Threads that can run are scheduled, and every exchange ends within the
\* transport's timeout.  Calls, the stop and the poll timer need not come.
FairSpec == Spec /\ WF_vars(Main) /\ WF_vars(Poll)
-----------------------------------------------------------------------------
(* Properties                                                               *)

Alarm == {"Warning", "Critical"}

\* Every member keeps to the values the code gives it; whoever waits for a lock
\* or has ended holds none.
TypeOK ==
  /\ main \in {"init", "discover", "wait", "dispatch", "apply", "mctp", "exchange",
               "record", "join", "done"}
  /\ call \in [target : Targets, fault : AllFaults \cup {"none"}, enabled : BOOLEAN]
  /\ calls \in 0..MaxCalls
  /\ poll \in {"absent", "loop", "sweep", "asking", "telemetry", "pcie_health",
               "pcie_publish", "fault_mode", "inputs", "evaluate", "publish", "waiting",
               "exited"}
  /\ pending \in Seq(Sensors)
  /\ \A s \in HwmonSensors : fetched[s] = Rejected \/ fetched[s] \in Int
  /\ pcieStatus \in [source : {"module", "host"}, health : {"OK"} \cup Alarm]
  /\ poll # "pcie_publish" => pcieStatus = HostStatus
  /\ mctpMutex = IF poll = "asking" THEN "poll"
                 ELSE IF main = "exchange" THEN "main" ELSE "free"
  /\ stopping \in BOOLEAN /\ (stopping <=> main \in {"join", "done"})
  /\ sensors \in [Sensors -> Shown]
  /\ limits \in [Sensors -> Limits]
  /\ level \in [Sensors -> Levels]
  /\ newEvents \subseteq Sensors
  /\ injectedFaults \in [Targets -> AllFaults \cup {"none"}]
  /\ {endpointFault, hwmonFault, pcieFault} \subseteq AllFaults \cup {"none"}
  /\ \A s \in Sensors : objects[s] = Absent \/ objects[s] \in Shown
  /\ \A s \in Sensors : objects[Entry(s)] \in {Absent, "asserted", "recovered"}
  /\ pendingAdds \cup pendingChanges \cup unannounced \subseteq Paths

NewestEvent(s) == IF objects[Entry(s)] = Absent THEN "none" ELSE objects[Entry(s)]

HealthShownBy(object) ==
  IF object = Absent THEN "absent"
  ELSE CASE object.health \in Alarm -> "alarm"
         [] object.health = "Unknown" -> "unknown"
         [] object.health = "OK" -> "OK"

Board == INSTANCE AlarmBoard WITH
  newest <- [s \in Sensors |-> NewestEvent(s)],
  shown  <- [s \in Sensors |-> HealthShownBy(objects[s])]

\* What clients see on D-Bus is an AlarmBoard: each sensor's events alternate,
\* and its published health agrees with its newest published event.  pollOnce()
\* evaluates, then publishes events (line 337) before sensors (line 338).
ImplementsBoard == Board!BoardSpec

\* Between two polling cycles the health of the whole system that the REST service
\* computes is that of the worst alarm which the event log still shows, of sensors
\* that can be read, and of the PCIe device.
AggregateMatchesLog ==
  poll = "waiting" =>
    LET alarms == {limits[s].asserted : s \in {s \in Sensors :
                      objects[Entry(s)] = "asserted" /\ sensors[s].state = "Enabled"}}
        pcie   == IF objects[PcieDevice] = Absent THEN {} ELSE {objects[PcieDevice].health}
    IN \A h \in {"Critical", "Warning"} :
         AggregateHealth = h <=> /\ h \in alarms \cup pcie
                                 /\ h = "Warning" => "Critical" \notin alarms \cup pcie

\* A reading that is within the limits l, but not by the hysteresis.
InsideBand(l, r) ==
  \/ l.upper # NoLimit /\ l.upper - l.hysteresis < r /\ r <= l.upper
  \/ l.lower # NoLimit /\ l.lower <= r /\ r < l.lower + l.hysteresis

\* A sensor with one limit: one direction in which it may alarm.
OneSided(l) == NoLimit \in {l.upper, l.lower}

\* A sensor published as enabled and beyond a limit is published as alarming, and
\* one well within its limits as OK, for sensors with a single limit: whatever
\* failed reads and injected faults did to it before.
HealthMatchesReading ==
  \A s \in Sensors :
    objects[s] # Absent /\ objects[s].state = "Enabled" /\ OneSided(limits[s]) =>
      LET r == objects[s].reading IN
      /\ Beyond(limits[s], r) => objects[s].health \in Alarm
      /\ ~Beyond(limits[s], r) /\ ~InsideBand(limits[s], r) => objects[s].health = "OK"

\* Inside the hysteresis band a published health does not flip, whatever alarm or
\* fault led into the band (docs/design-decisions.md:76), for sensors with a single
\* limit: a jump from beyond one limit into the band of the other ends the alarm.
NoFlapping ==
  [][\A s \in Sensors :
       /\ OneSided(limits[s])
       /\ objects[s] # Absent /\ objects[s].state = "Enabled"
       /\ objects'[s].state = "Enabled"
       /\ InsideBand(limits[s], objects'[s].reading)
       => objects'[s].health = objects[s].health]_vars

\* When a PropertiesChanged tells clients of an alarm, the event that explains it
\* is in the log and exported: process() exports before it signals.
SignalledAlarmHasEntry ==
  [][\A s \in unannounced \ unannounced' :
       s \in Sensors /\ objects[s].health \in Alarm =>
         objects'[Entry(s)] # Absent /\ Entry(s) \notin pendingAdds']_vars

\* Changes of sensors are all signalled, also those made before the sensor was
\* exported for the first time: clients catch up with the table again and again.
ChangesAnnounced == unannounced # {} ~> unannounced = {} \/ stopping

\* A call of InjectFault comes to an end, although the polling thread takes
\* mctpMutex_ over and over and std::mutex is not fair: the call holds the mutex
\* of DbusServer, at which the polling thread ends up.
InjectAnswered == Handling ~> ~Handling

\* stop() returns without help of the poll timer, wherever the poll thread is.
StopCompletes == main = "join" ~> main = "done"

Reflected(s) ==
  IF injectedFaults[s] = "out_of_range" THEN objects[s].health \in Alarm
                                        ELSE objects[s].state = "Unavailable"

\* A recorded fault that concerns readings shows on D-Bus while it lasts, even on
\* a sensor that cannot be read (docs/design-decisions.md:70).
FaultReflected ==
  WF_vars(Timer) =>
    \A r \in {r \in Requests : r[1] \in Sensors /\
                r[2] \in {"out_of_range", "device_disappeared", "sensor_unavailable"}} :
      injectedFaults[r[1]] = r[2] ~> injectedFaults[r[1]] # r[2] \/ Reflected(r[1]) \/ stopping
=============================================================================
