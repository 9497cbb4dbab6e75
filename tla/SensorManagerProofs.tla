------------------------- MODULE SensorManagerProofs -------------------------
(***************************************************************************)
(* Proofs about SensorManager for any sensors, limits and readings.        *)
(*                                                                         *)
(* The invariant has two halves.  ControlOK says where the threads are and *)
(* what types the rest has.  BoardOK relates three copies of what is known *)
(* of a sensor: the level of the threshold engine, the member sensors_ and *)
(* the D-Bus objects.  They differ only while the poll thread publishes.   *)
(***************************************************************************)
EXTENDS SensorManager, SequenceTheorems, TLAPS

-----------------------------------------------------------------------------
(* Constants.                                                               *)

LEMMA PathFacts ==
  /\ PcieDevice \in Paths
  /\ \A s \in Sensors :
       /\ s \in Paths /\ Entry(s) \in Paths
       /\ s # PcieDevice /\ Entry(s) # PcieDevice
  /\ \A s, t \in Sensors : Entry(t) # s /\ (Entry(s) = Entry(t) => s = t)
<1>1. /\ SensorPaths = Sensors
      /\ OtherPaths = {PcieDevice} \cup {Entry(s) : s \in Sensors}
      /\ PcieDevice \notin {Entry(s) : s \in Sensors}
      /\ SensorPaths \cap OtherPaths = {}
  BY ManagerAssumption, AbsentAssumption
<1>2. \A s, t \in Sensors : Entry(s) = Entry(t) => s = t
  BY DEF Entry
<1> QED
  BY <1>1, <1>2 DEF Paths

LEMMA SensorSets ==
  /\ PldmSensors \subseteq Sensors /\ HwmonSensors \subseteq Sensors
  /\ Sensors = PldmSensors \cup HwmonSensors
  /\ PldmSensors \cap HwmonSensors = {}
  /\ Sensors \subseteq Targets /\ PcieDevice \in Targets
  /\ \A S \in SUBSET Sensors : \A q \in Seq(S) : q \in Seq(Sensors)
<1>1. \A S \in SUBSET Sensors : \A q \in Seq(S) : q \in Seq(Sensors)
  BY SeqMonotonic
<1> QED
  BY <1>1, ManagerAssumption DEF Sensors, Targets

LEMMA AllSensorsInOrder ==
  /\ AllSensors \in Seq(Sensors)
  /\ \A s \in Sensors : \E i \in 1..Len(AllSensors) : AllSensors[i] = s
<1>1. Bindings \in Seq(Sensors) /\ HwmonOrder \in Seq(Sensors)
  BY SensorSets, ManagerAssumption
<1>2. /\ Len(Bindings) \in Nat /\ DOMAIN Bindings = 1..Len(Bindings)
      /\ Len(HwmonOrder) \in Nat /\ DOMAIN HwmonOrder = 1..Len(HwmonOrder)
  BY <1>1, LenProperties
<1>3. /\ AllSensors \in Seq(Sensors)
      /\ Len(AllSensors) = Len(Bindings) + Len(HwmonOrder)
      /\ \A i \in 1..(Len(Bindings) + Len(HwmonOrder)) :
           AllSensors[i] = IF i <= Len(Bindings) THEN Bindings[i]
                                                 ELSE HwmonOrder[i - Len(Bindings)]
  BY <1>1, ConcatProperties DEF AllSensors
<1>4. ASSUME NEW s \in PldmSensors
      PROVE  \E i \in 1..Len(AllSensors) : AllSensors[i] = s
  <2>1. PICK i \in 1..Len(Bindings) : s = Bindings[i]
    BY <1>2 DEF PldmSensors, Range
  <2>2. i \in 1..Len(AllSensors) /\ AllSensors[i] = s
    BY <1>2, <1>3, <2>1
  <2> QED
    BY <2>2
<1>5. ASSUME NEW s \in HwmonSensors
      PROVE  \E i \in 1..Len(AllSensors) : AllSensors[i] = s
  <2>1. PICK i \in 1..Len(HwmonOrder) : s = HwmonOrder[i]
    BY <1>2 DEF HwmonSensors, Range
  <2>2. /\ i + Len(Bindings) \in 1..Len(AllSensors)
        /\ ~(i + Len(Bindings) <= Len(Bindings))
        /\ (i + Len(Bindings)) - Len(Bindings) = i
    BY <1>2, <1>3, <2>1
  <2>3. AllSensors[i + Len(Bindings)] = s
    BY <1>3, <2>1, <2>2
  <2> QED
    BY <2>2, <2>3
<1> QED
  BY <1>3, <1>4, <1>5, SensorSets

-----------------------------------------------------------------------------
(* Where the threads are, and types.                                        *)

AnyFault == AllFaults \cup {"none"}

\* The poll thread runs from the end of discovery on.
PlacesOK ==
  /\ main \in {"init", "discover", "wait", "dispatch", "apply", "mctp", "exchange",
               "record", "join", "done"}
  /\ poll \in {"absent", "loop", "sweep", "asking", "telemetry", "pcie_health",
               "pcie_publish", "fault_mode", "inputs", "evaluate", "publish", "waiting",
               "exited"}
  /\ poll = "absent" => main \in {"init", "discover"}
  /\ main \in {"init", "discover"} => poll = "absent"
  /\ ~(poll = "asking" /\ main = "exchange")
  /\ mctpMutex = IF poll = "asking" THEN "poll"
                 ELSE IF main = "exchange" THEN "main" ELSE "free"

StoppingOK == stopping \in BOOLEAN /\ (stopping <=> main \in {"join", "done"})

CallOK ==
  /\ call \in [target : Targets, fault : AnyFault, enabled : BOOLEAN]
  /\ calls \in 0..MaxCalls

FaultsOK ==
  /\ injectedFaults \in [Targets -> AnyFault]
  /\ endpointFault \in AnyFault /\ hwmonFault \in AnyFault /\ pcieFault \in AnyFault

PendingOK ==
  /\ pending \in Seq(Sensors)
  /\ poll \in {"sweep", "asking"} => pending \in Seq(PldmSensors)
  /\ poll = "asking" => pending # <<>>
  /\ poll = "inputs" => pending \in Seq(HwmonSensors)

FetchedOK ==
  /\ DOMAIN fetched = HwmonSensors
  /\ \A s \in HwmonSensors : fetched[s] = Rejected \/ fetched[s] \in Int

PcieOK ==
  /\ pcieStatus \in [source : {"module", "host"}, health : {"OK"} \cup Alarm]
  /\ poll # "pcie_publish" => pcieStatus = HostStatus

SensorsOK ==
  /\ sensors \in [Sensors -> Shown]
  /\ limits \in [Sensors -> Limits]
  /\ level \in [Sensors -> Levels]
  /\ newEvents \subseteq Sensors

ControlOK ==
  /\ PlacesOK /\ StoppingOK /\ CallOK /\ FaultsOK
  /\ PendingOK /\ FetchedOK /\ PcieOK /\ SensorsOK

LEMMA PlacesStep == PlacesOK /\ [Next]_vars => PlacesOK'
<1> SUFFICES ASSUME PlacesOK, [Next]_vars PROVE PlacesOK'
  OBVIOUS
<1> USE DEF PlacesOK, Reply, Called, PollUnchanged, mainVars, pollVars, faultVars, Handling
<1>1. CASE Initialize \/ Discover \/ Process \/ Joined \/ EndDispatch \/ Stop
  BY <1>1 DEF Initialize, Discover, Process, Joined, EndDispatch, Stop
<1>2. CASE ApplyToDriver \/ ApplyToEndpoint \/ ProcessCall \/ ProcessAnotherCall
                        \/ RecordFault
  <2>1. /\ poll' = poll /\ mctpMutex' = mctpMutex
        /\ main \in {"wait", "dispatch", "apply", "record"}
        /\ main' \in {"dispatch", "apply", "record", "mctp"}
    BY <1>2, Zenon DEF ApplyToDriver, ApplyToEndpoint, ProcessCall, ProcessAnotherCall,
                       RecordFault
  <2> QED
    BY <2>1
<1>3. CASE LockForFault \/ SetEndpointFault
  <2>1. /\ poll' = poll
        /\ \/ main = "mctp" /\ mctpMutex = "free" /\ mctpMutex' = "main" /\ main' = "exchange"
           \/ main = "exchange" /\ mctpMutex' = "free" /\ main' \in {"record", "dispatch"}
    BY <1>3 DEF LockForFault, SetEndpointFault
  <2> QED
    BY <2>1
<1>4. CASE Loop \/ Ask \/ Answer \/ HwmonFaultMode
  BY <1>4 DEF Loop, Ask, Answer, HwmonFaultMode, HwmonUnavailable
<1>8. CASE TelemetryMode \/ TelemetryHealth \/ TelemetryPublish
  <2>1. /\ UNCHANGED <<main, mctpMutex>>
        /\ poll \in {"telemetry", "pcie_health", "pcie_publish"}
        /\ poll' \in {"pcie_health", "pcie_publish", "fault_mode"}
    BY <1>8, Zenon DEF TelemetryMode, TelemetryHealth, TelemetryPublish
  <2> QED
    BY <2>1
<1>5. CASE HwmonRead \/ HwmonStore \/ Evaluate \/ PublishEvent \/ PublishSensor \/ Timer
  BY <1>5 DEF HwmonRead, HwmonStore, HwmonUnavailable, Evaluate, PublishEvent, PublishSensor,
              Timer
<1>6. CASE Wait
  <2>1. poll = "publish" /\ poll' \in {"loop", "waiting"} /\ UNCHANGED <<main, mctpMutex>>
    BY <1>6 DEF Wait, AfterCycle
  <2> QED
    BY <2>1
<1>7. CASE Done \/ UNCHANGED vars
  BY <1>7 DEF Done, vars
<1> QED
  BY <1>1, <1>2, <1>3, <1>4, <1>5, <1>6, <1>7, <1>8 DEF Next, Main, Poll

LEMMA StoppingStep == PlacesOK /\ StoppingOK /\ [Next]_vars => StoppingOK'
<1> SUFFICES ASSUME PlacesOK, StoppingOK, [Next]_vars PROVE StoppingOK'
  OBVIOUS
<1>1. \/ main' = "join" /\ stopping' = TRUE
      \/ main' = main /\ stopping' = stopping
      \/ main = "join" /\ main' = "done" /\ stopping' = stopping
      \/ main \notin {"join", "done"} /\ main' \notin {"join", "done"} /\ stopping' = stopping
  <2> USE DEF Reply, Called, PollUnchanged, mainVars
  <2>1. CASE Initialize \/ Discover \/ Process \/ Joined \/ EndDispatch \/ Stop
    BY <2>1, Zenon DEF Initialize, Discover, Process, Joined, EndDispatch, Stop
  <2>2. CASE ApplyToDriver \/ ApplyToEndpoint \/ ProcessCall \/ ProcessAnotherCall
    BY <2>2, Zenon DEF ApplyToDriver, ApplyToEndpoint, ProcessCall, ProcessAnotherCall
  <2>3. CASE LockForFault \/ SetEndpointFault \/ RecordFault
    BY <2>3, Zenon DEF LockForFault, SetEndpointFault, RecordFault
  <2>4. CASE Poll \/ Timer
    BY <2>4, Zenon DEF Poll, Loop, Ask, Answer, TelemetryMode, TelemetryHealth, TelemetryPublish,
                HwmonFaultMode, HwmonRead, HwmonStore, Evaluate, PublishEvent,
                PublishSensor, Wait, Timer
  <2>5. CASE Done \/ UNCHANGED vars
    BY <2>5 DEF Done, vars
  <2> QED
    BY <2>1, <2>2, <2>3, <2>4, <2>5 DEF Next, Main
<1>2. CASE main' = "join" /\ stopping' = TRUE
  BY <1>2, Zenon DEF StoppingOK
<1>3. CASE main' = main /\ stopping' = stopping
  BY <1>3, Zenon DEF StoppingOK
<1>5. CASE main = "join" /\ main' = "done" /\ stopping' = stopping
  <2>1. main \in {"join", "done"} /\ main' \in {"join", "done"}
    BY <1>5
  <2> QED
    BY <1>5, <2>1, Zenon DEF StoppingOK
<1>6. CASE main \notin {"join", "done"} /\ main' \notin {"join", "done"} /\ stopping' = stopping
  BY <1>6, Zenon DEF StoppingOK
<1> QED
  BY <1>1, <1>2, <1>3, <1>5, <1>6

LEMMA CallStep == CallOK /\ [Next]_vars => CallOK'
<1> SUFFICES ASSUME CallOK, [Next]_vars PROVE CallOK'
  OBVIOUS
<1>1. CASE UNCHANGED <<call, calls>>
  BY <1>1 DEF CallOK
<1>2. CASE call' = NoCall /\ calls' = calls
  BY <1>2, SensorSets DEF CallOK, NoCall, AnyFault
<1>3. CASE Called
  <2>1. PICK request \in Requests, e \in BOOLEAN :
          call' = [target |-> request[1], fault |-> request[2], enabled |-> e]
    BY <1>3 DEF Called
  <2>2. request[1] \in Targets /\ request[2] \in AllFaults
    BY <2>1, ManagerAssumption
  <2>3. calls < MaxCalls /\ calls' = calls + 1 /\ calls \in 0..MaxCalls
    BY <1>3 DEF Called, CallOK
  <2>4. calls' \in 0..MaxCalls
    BY <2>3, ManagerAssumption
  <2> QED
    BY <2>1, <2>2, <2>4 DEF CallOK, AnyFault
<1>4. UNCHANGED <<call, calls>> \/ (call' = NoCall /\ calls' = calls) \/ Called
  <2> USE DEF Reply, PollUnchanged, mainVars
  <2>1. CASE Initialize \/ Discover \/ Process \/ Joined \/ EndDispatch \/ Stop
    BY <2>1 DEF Initialize, Discover, Process, Joined, EndDispatch, Stop
  <2>2. CASE ApplyToDriver \/ ApplyToEndpoint \/ ProcessCall \/ ProcessAnotherCall
    BY <2>2 DEF ApplyToDriver, ApplyToEndpoint, ProcessCall, ProcessAnotherCall
  <2>3. CASE LockForFault \/ SetEndpointFault \/ RecordFault
    BY <2>3 DEF LockForFault, SetEndpointFault, RecordFault
  <2>4. CASE Poll \/ Timer
    BY <2>4 DEF Poll, Loop, Ask, Answer, TelemetryMode, TelemetryHealth, TelemetryPublish,
                HwmonFaultMode, HwmonRead, HwmonStore, Evaluate, PublishEvent,
                PublishSensor, Wait, Timer
  <2>5. CASE Done \/ UNCHANGED vars
    BY <2>5 DEF Done, vars
  <2> QED
    BY <2>1, <2>2, <2>3, <2>4, <2>5 DEF Next, Main
<1> QED
  BY <1>1, <1>2, <1>3, <1>4

LEMMA FaultsStep == CallOK /\ FaultsOK /\ [Next]_vars => FaultsOK'
<1> SUFFICES ASSUME CallOK, FaultsOK, [Next]_vars PROVE FaultsOK'
  OBVIOUS
<1>1. AppliedFault \in AnyFault /\ call.target \in Targets
  BY DEF CallOK, AppliedFault, AnyFault
<1>2. CASE UNCHANGED faultVars
  BY <1>2 DEF faultVars, FaultsOK
<1>3. CASE ApplyToDriver
  BY <1>1, <1>3, Zenon DEF ApplyToDriver, SetHwmonFault, SetPcieFault, FaultsOK
<1>4. CASE SetEndpointFault
  BY <1>1, <1>4, Zenon DEF SetEndpointFault, FaultsOK
<1>5. CASE RecordFault
  BY <1>1, <1>5 DEF RecordFault, FaultsOK
<1>6. UNCHANGED faultVars \/ ApplyToDriver \/ SetEndpointFault \/ RecordFault
  <2> USE DEF PollUnchanged
  <2>1. CASE Initialize \/ Discover \/ Process \/ Joined \/ EndDispatch \/ Stop
    BY <2>1 DEF Initialize, Discover, Process, Joined, EndDispatch, Stop
  <2>2. CASE ApplyToEndpoint \/ ProcessCall \/ ProcessAnotherCall \/ LockForFault
    BY <2>2 DEF ApplyToEndpoint, ProcessCall, ProcessAnotherCall, LockForFault
  <2>4. CASE Poll \/ Timer
    BY <2>4 DEF Poll, Loop, Ask, Answer, TelemetryMode, TelemetryHealth, TelemetryPublish,
                HwmonFaultMode, HwmonRead, HwmonStore, Evaluate, PublishEvent,
                PublishSensor, Wait, Timer
  <2>5. CASE Done \/ UNCHANGED vars
    BY <2>5 DEF Done, vars
  <2> QED
    BY <2>1, <2>2, <2>4, <2>5 DEF Next, Main
<1> QED
  BY <1>2, <1>3, <1>4, <1>5, <1>6

LEMMA PendingStep == PendingOK /\ [Next]_vars => PendingOK'
<1> SUFFICES ASSUME PendingOK, [Next]_vars PROVE PendingOK'
  OBVIOUS
<1>1. CASE pending' = pending /\ (poll' = poll \/ poll' \notin {"sweep", "asking", "inputs"})
  BY <1>1 DEF PendingOK
<1>2. CASE Loop
  <2>1. CASE stopping
    BY <1>2, <2>1 DEF Loop, PendingOK
  <2>2. CASE ~stopping
    <3>1. pending' = Bindings /\ poll' = "sweep"
      BY <1>2, <2>2 DEF Loop
    <3>2. Bindings \in Seq(PldmSensors) /\ Bindings \in Seq(Sensors)
      BY ManagerAssumption, SensorSets
    <3> QED
      BY <3>1, <3>2 DEF PendingOK
  <2> QED
    BY <2>1, <2>2
<1>3. CASE Ask
  BY <1>3 DEF Ask, PendingOK
<1>4. CASE Answer
  <2>1. /\ pending \in Seq(PldmSensors) /\ pending # <<>>
        /\ pending' = Tail(pending) /\ poll' \in {"telemetry", "sweep"}
    BY <1>4 DEF Answer, PendingOK
  <2>2. Tail(pending) \in Seq(PldmSensors)
    BY <2>1, HeadTailProperties
  <2>3. Tail(pending) \in Seq(Sensors)
    BY <2>2, SensorSets
  <2> QED
    BY <2>1, <2>2, <2>3 DEF PendingOK
<1>5. CASE HwmonFaultMode
  <2>1. \/ pending' = pending /\ poll' = "evaluate"
        \/ pending' = HwmonOrder /\ poll' = "inputs"
    BY <1>5 DEF HwmonFaultMode, HwmonUnavailable
  <2>2. HwmonOrder \in Seq(HwmonSensors) /\ HwmonOrder \in Seq(Sensors)
    BY ManagerAssumption, SensorSets
  <2> QED
    BY <2>1, <2>2 DEF PendingOK
<1>6. CASE HwmonRead
  <2>1. /\ pending \in Seq(HwmonSensors) /\ pending # <<>>
        /\ pending' = Tail(pending) /\ poll' = "inputs"
    BY <1>6 DEF HwmonRead, PendingOK
  <2>2. Tail(pending) \in Seq(HwmonSensors)
    BY <2>1, HeadTailProperties
  <2>3. Tail(pending) \in Seq(Sensors)
    BY <2>2, SensorSets
  <2> QED
    BY <2>1, <2>2, <2>3 DEF PendingOK
<1>7. CASE Evaluate
  BY <1>7, AllSensorsInOrder DEF Evaluate, PendingOK
<1>8. CASE PublishSensor
  <2>1. pending \in Seq(Sensors) /\ pending # <<>> /\ pending' = Tail(pending)
        /\ poll' = "publish"
    BY <1>8 DEF PublishSensor, PendingOK
  <2>2. Tail(pending) \in Seq(Sensors)
    BY <2>1, HeadTailProperties
  <2> QED
    BY <2>1, <2>2 DEF PendingOK
<1>9. \/ pending' = pending /\ (poll' = poll \/ poll' \notin {"sweep", "asking", "inputs"})
      \/ Loop \/ Ask \/ Answer \/ HwmonFaultMode \/ HwmonRead \/ Evaluate \/ PublishSensor
  <2> USE DEF PollUnchanged, pollVars
  <2>1. CASE Initialize \/ Discover \/ Process \/ Joined \/ EndDispatch \/ Stop
    BY <2>1 DEF Initialize, Discover, Process, Joined, EndDispatch, Stop
  <2>2. CASE ApplyToEndpoint \/ ProcessCall \/ ProcessAnotherCall \/ LockForFault
    BY <2>2 DEF ApplyToEndpoint, ProcessCall, ProcessAnotherCall, LockForFault
  <2>3. CASE ApplyToDriver \/ SetEndpointFault \/ RecordFault
    BY <2>3 DEF ApplyToDriver, SetEndpointFault, RecordFault
  <2>4. CASE TelemetryMode \/ TelemetryHealth \/ TelemetryPublish \/ HwmonStore \/ PublishEvent
               \/ Timer
    BY <2>4 DEF TelemetryMode, TelemetryHealth, TelemetryPublish, HwmonStore,
                HwmonUnavailable, PublishEvent, Timer
  <2>5. CASE Wait
    BY <2>5 DEF Wait, AfterCycle
  <2>6. CASE Done \/ UNCHANGED vars
    BY <2>6 DEF Done, vars
  <2> QED
    BY <2>1, <2>2, <2>3, <2>4, <2>5, <2>6 DEF Next, Main, Poll
<1> QED
  BY <1>1, <1>2, <1>3, <1>4, <1>5, <1>6, <1>7, <1>8, <1>9

LEMMA FetchedStep == PendingOK /\ FetchedOK /\ [Next]_vars => FetchedOK'
<1> SUFFICES ASSUME PendingOK, FetchedOK, [Next]_vars PROVE FetchedOK'
  OBVIOUS
<1>1. CASE fetched' = fetched
  BY <1>1 DEF FetchedOK
<1>2. CASE HwmonRead
  <2>1. Head(pending) \in HwmonSensors
    BY <1>2, HeadTailProperties DEF HwmonRead, PendingOK
  <2>2. Initial[Head(pending)] \in Int
    BY <2>1, SensorSets, ManagerAssumption
  <2>3. HwmonInput(Head(pending)) = Rejected \/ HwmonInput(Head(pending)) \in Int
    BY <2>1, <2>2, ManagerAssumption DEF HwmonInput
  <2>4. fetched' = [fetched EXCEPT ![Head(pending)] = HwmonInput(Head(pending))]
    BY <1>2 DEF HwmonRead
  <2> QED
    BY <2>1, <2>3, <2>4 DEF FetchedOK
<1>3. CASE HwmonStore
  <2>1. fetched' = [s \in HwmonSensors |-> Initial[s]]
    BY <1>3 DEF HwmonStore
  <2>2. \A s \in HwmonSensors : Initial[s] \in Int
    BY SensorSets, ManagerAssumption
  <2> QED
    BY <2>1, <2>2 DEF FetchedOK
<1>4. fetched' = fetched \/ HwmonRead \/ HwmonStore
  <2> USE DEF PollUnchanged, pollVars
  <2>1. CASE Initialize \/ Discover \/ Process \/ Joined \/ EndDispatch \/ Stop
    BY <2>1 DEF Initialize, Discover, Process, Joined, EndDispatch, Stop
  <2>2. CASE ApplyToEndpoint \/ ProcessCall \/ ProcessAnotherCall \/ LockForFault
    BY <2>2 DEF ApplyToEndpoint, ProcessCall, ProcessAnotherCall, LockForFault
  <2>3. CASE ApplyToDriver \/ SetEndpointFault \/ RecordFault
    BY <2>3 DEF ApplyToDriver, SetEndpointFault, RecordFault
  <2>4. CASE Poll \/ Timer
    BY <2>4 DEF Poll, Loop, Ask, Answer, TelemetryMode, TelemetryHealth, TelemetryPublish,
                HwmonFaultMode, Evaluate, PublishEvent,
                PublishSensor, Wait, Timer
  <2>6. CASE Done \/ UNCHANGED vars
    BY <2>6 DEF Done, vars
  <2> QED
    BY <2>1, <2>2, <2>3, <2>4, <2>6 DEF Next, Main
<1> QED
  BY <1>1, <1>2, <1>3, <1>4

LEMMA PcieStep == PlacesOK /\ PcieOK /\ [Next]_vars => PcieOK'
<1> SUFFICES ASSUME PlacesOK, PcieOK, [Next]_vars PROVE PcieOK'
  OBVIOUS
<1>1. HostStatus \in [source : {"module", "host"}, health : {"OK"} \cup Alarm]
  BY DEF HostStatus
<1>2. CASE pcieStatus' = pcieStatus /\ (poll # "pcie_publish" \/ poll' = "pcie_publish")
  BY <1>2 DEF PcieOK
<1>3. CASE TelemetryHealth
  <2>1. PcieHealth(pcieFault) \in {"OK"} \cup Alarm
    BY DEF PcieHealth, Alarm
  <2>2. pcieStatus' = [source |-> "module", health |-> PcieHealth(pcieFault)]
        /\ poll' = "pcie_publish"
    BY <1>3 DEF TelemetryHealth
  <2> QED
    BY <2>1, <2>2 DEF PcieOK
<1>4. CASE TelemetryPublish
  <2>1. pcieStatus' = HostStatus
    BY <1>4 DEF TelemetryPublish
  <2> QED
    BY <1>1, <2>1 DEF PcieOK
<1>5. \/ pcieStatus' = pcieStatus /\ (poll # "pcie_publish" \/ poll' = "pcie_publish")
      \/ TelemetryHealth \/ TelemetryPublish
  <2> USE DEF PollUnchanged, pollVars
  <2>1. CASE Initialize \/ Discover \/ Process \/ Joined \/ EndDispatch \/ Stop
    BY <2>1 DEF Initialize, Discover, Process, Joined, EndDispatch, Stop, PlacesOK
  <2>2. CASE ApplyToEndpoint \/ ProcessCall \/ ProcessAnotherCall \/ LockForFault
    BY <2>2 DEF ApplyToEndpoint, ProcessCall, ProcessAnotherCall, LockForFault
  <2>3. CASE ApplyToDriver \/ SetEndpointFault \/ RecordFault
    BY <2>3 DEF ApplyToDriver, SetEndpointFault, RecordFault
  <2>4. CASE Loop \/ Ask \/ Answer \/ TelemetryMode \/ HwmonFaultMode \/ HwmonRead
    BY <2>4 DEF Loop, Ask, Answer, TelemetryMode, HwmonFaultMode, HwmonRead
  <2>5. CASE HwmonStore \/ Evaluate \/ PublishEvent \/ PublishSensor \/ Wait \/ Timer
    BY <2>5 DEF HwmonStore, Evaluate, PublishEvent, PublishSensor, Wait, Timer
  <2>6. CASE Done \/ UNCHANGED vars
    BY <2>6 DEF Done, vars
  <2> QED
    BY <2>1, <2>2, <2>3, <2>4, <2>5, <2>6 DEF Next, Main, Poll
<1> QED
  BY <1>2, <1>3, <1>4, <1>5

-----------------------------------------------------------------------------
(* Records of sensors.                                                      *)

Healths == {"OK", "Warning", "Critical", "Unknown"}

LEMMA RecordFacts ==
  ASSUME NEW r \in Shown
  PROVE  /\ r.reading \in Int /\ r.state \in {"Enabled", "Unavailable"} /\ r.health \in Healths
         /\ Unavailable(r) \in Shown /\ Unavailable(r).state = "Unavailable"
         /\ \A v \in Int : Found(r, v) \in Shown
         /\ \A h \in Healths :
              /\ [r EXCEPT !.health = h] \in Shown
              /\ [r EXCEPT !.health = h].health = h
              /\ [r EXCEPT !.health = h].state = r.state
              /\ [r EXCEPT !.health = h].reading = r.reading
BY DEF Shown, Unavailable, Found, Healths

LEMMA LimitFacts ==
  ASSUME NEW l \in Limits
  PROVE  /\ l.upper # NoLimit => l.upper \in Int
         /\ l.lower # NoLimit => l.lower \in Int
         /\ l.hysteresis \in Int /\ l.hysteresis >= 0 /\ l.asserted \in {"Warning", "Critical"}
BY DEF Limits

LEMMA LevelFacts ==
  ASSUME NEW l \in Limits, NEW v \in Levels
  PROVE  /\ \A r \in Int : NextLevel(v, l, r) \in Levels
         /\ HealthAt(v, l) \in Healths
BY LimitFacts DEF NextLevel, HealthAt, Levels, Healths

LEMMA OverlaidOK ==
  ASSUME SensorsOK, NEW s \in Sensors
  PROVE  Overlaid(s) \in Shown
<1>1. sensors[s] \in Shown /\ limits[s] \in Limits /\ sensors[s].reading \in Int
  BY RecordFacts DEF SensorsOK
<1>2. OutOfRange(s) \in Int
  BY <1>1, LimitFacts DEF OutOfRange
<1> QED
  BY <1>1, <1>2, RecordFacts DEF Overlaid

\* What one evaluation makes of a sensor.
LEMMA EvaluatedOK ==
  ASSUME SensorsOK, Evaluate, NEW s \in Sensors
  PROVE  /\ level'[s] = IF Overlaid(s).state = "Enabled"
                        THEN NextLevel(level[s], limits[s], Overlaid(s).reading) ELSE level[s]
         /\ level'[s] \in Levels
         /\ sensors'[s] \in Shown
         /\ sensors'[s].state = Overlaid(s).state
         /\ sensors'[s].reading = Overlaid(s).reading
         /\ sensors'[s].health = IF Overlaid(s).state = "Enabled"
                                 THEN HealthAt(level'[s], limits[s]) ELSE "Unknown"
         /\ s \in newEvents' <=> level'[s] # level[s]
<1>1. Overlaid(s) \in Shown /\ limits[s] \in Limits /\ level[s] \in Levels
  BY OverlaidOK DEF SensorsOK
<1>2. Overlaid(s).reading \in Int
  BY <1>1, RecordFacts
<1>3. level'[s] = IF Overlaid(s).state = "Enabled"
                  THEN NextLevel(level[s], limits[s], Overlaid(s).reading) ELSE level[s]
  BY DEF Evaluate
<1>4. level'[s] \in Levels /\ HealthAt(level'[s], limits[s]) \in Healths
  BY <1>1, <1>2, <1>3, LevelFacts
<1> DEFINE h == IF Overlaid(s).state = "Enabled" THEN HealthAt(level'[s], limits[s])
                                                 ELSE "Unknown"
<1>5. sensors'[s] = [Overlaid(s) EXCEPT !.health = h]
  BY DEF Evaluate
<1>6. h \in Healths
  BY <1>4 DEF Healths
<1>7. s \in newEvents' <=> level'[s] # level[s]
  BY DEF Evaluate
<1> HIDE DEF h
<1>8. /\ sensors'[s] \in Shown /\ sensors'[s].health = h
      /\ sensors'[s].state = Overlaid(s).state /\ sensors'[s].reading = Overlaid(s).reading
  BY <1>1, <1>5, <1>6, RecordFacts
<1> QED
  BY <1>3, <1>4, <1>7, <1>8 DEF h

\* Discovery replaces limits by those of PDRs.
LEMMA DiscoveredLimits ==
  ASSUME Discover
  PROVE  /\ DOMAIN limits' = Sensors /\ limits' = [s \in Sensors |-> limits'[s]]
         /\ \A s \in Sensors : \/ limits'[s] = limits[s]
                               \/ s \in PldmSensors /\ limits'[s] = PdrLimits[s]
<1>1. PICK length :
        limits' = [s \in Sensors |->
                    IF \E i \in 1..Len(Bindings) : s = Bindings[i]
                         /\ Cardinality({j \in 1..i : Eid[Bindings[j]] = Eid[s]})
                              <= length[Eid[s]]
                    THEN PdrLimits[s] ELSE limits[s]]
  BY DEF Discover
<1>2. \A i \in 1..Len(Bindings) : Bindings[i] \in PldmSensors
  BY ManagerAssumption, ElementOfSeq
<1> DEFINE Known(s) == \E i \in 1..Len(Bindings) : s = Bindings[i]
                         /\ Cardinality({j \in 1..i : Eid[Bindings[j]] = Eid[s]})
                              <= length[Eid[s]]
<1>3. limits' = [s \in Sensors |-> IF Known(s) THEN PdrLimits[s] ELSE limits[s]]
  BY <1>1
<1>4. \A s \in Sensors : Known(s) => s \in PldmSensors
  BY <1>2, Zenon
<1> HIDE DEF Known
<1>5. \A s \in Sensors : limits'[s] = IF Known(s) THEN PdrLimits[s] ELSE limits[s]
  BY <1>3
<1>6. DOMAIN limits' = Sensors /\ limits' = [s \in Sensors |-> limits'[s]]
  BY <1>3
<1>7. ASSUME NEW s \in Sensors
      PROVE  \/ limits'[s] = limits[s]
             \/ s \in PldmSensors /\ limits'[s] = PdrLimits[s]
  BY <1>4, <1>5, Zenon
<1> QED
  BY <1>6, <1>7

LEMMA SensorsStep == PendingOK /\ FetchedOK /\ SensorsOK /\ [Next]_vars => SensorsOK'
<1> SUFFICES ASSUME PendingOK, FetchedOK, SensorsOK, [Next]_vars PROVE SensorsOK'
  OBVIOUS
<1>1. CASE UNCHANGED sensorVars /\ newEvents' \subseteq newEvents
  BY <1>1 DEF sensorVars, SensorsOK
<1>2. CASE Discover
  <2>1. UNCHANGED <<sensors, level, newEvents>>
    BY <1>2 DEF Discover
  <2>2. limits' \in [Sensors -> Limits]
    BY <1>2, DiscoveredLimits, ManagerAssumption DEF SensorsOK
  <2> QED
    BY <2>1, <2>2 DEF SensorsOK
<1>3. CASE Answer
  <2>1. Head(pending) \in PldmSensors /\ Head(pending) \in Sensors
    BY <1>3, HeadTailProperties, SensorSets DEF Answer, PendingOK
  <2>2. UNCHANGED <<limits, level, newEvents>>
    BY <1>3 DEF Answer
  <2>3. \/ sensors' = [sensors EXCEPT ![Head(pending)] = Unavailable(@)]
        \/ \E v \in Readings[Head(pending)] : sensors' = [sensors EXCEPT ![Head(pending)] = Found(@, v)]
    BY <1>3 DEF Answer
  <2>4. Readings[Head(pending)] \subseteq Int
    BY <2>1, ManagerAssumption
  <2>5. /\ sensors \in [Sensors -> Shown]
        /\ Unavailable(sensors[Head(pending)]) \in Shown
        /\ \A v \in Readings[Head(pending)] : Found(sensors[Head(pending)], v) \in Shown
    BY <2>1, <2>4, RecordFacts DEF SensorsOK
  <2>6. sensors' \in [Sensors -> Shown]
    BY <2>1, <2>3, <2>5
  <2> QED
    BY <2>2, <2>6 DEF SensorsOK
<1>4. CASE HwmonFaultMode \/ HwmonStore
  <2>1. UNCHANGED <<limits, level, newEvents>>
    BY <1>4 DEF HwmonFaultMode, HwmonStore
  <2>2. HwmonUnavailable => sensors' \in [Sensors -> Shown]
    <3>1. \A s \in Sensors : sensors[s] \in Shown /\ Unavailable(sensors[s]) \in Shown
      BY RecordFacts DEF SensorsOK
    <3> QED
      BY <3>1 DEF HwmonUnavailable
  <2>3. ~Spoiled => \A s \in HwmonSensors : fetched[s] \in Int
    BY DEF Spoiled, FetchedOK
  <2>4. HwmonStore /\ ~Spoiled => sensors' \in [Sensors -> Shown]
    <3>1. \A s \in Sensors : sensors[s] \in Shown /\ \A v \in Int : Found(sensors[s], v) \in Shown
      BY RecordFacts DEF SensorsOK
    <3>2. HwmonStore /\ ~Spoiled =>
            sensors' = [s \in Sensors |-> IF s \in HwmonSensors
                                          THEN Found(sensors[s], fetched[s]) ELSE sensors[s]]
      BY DEF HwmonStore
    <3> QED
      BY <2>3, <3>1, <3>2
  <2>5. HwmonFaultMode => HwmonUnavailable \/ sensors' = sensors
    BY DEF HwmonFaultMode
  <2>6. HwmonStore => HwmonUnavailable \/ ~Spoiled
    BY DEF HwmonStore
  <2>7. sensors' \in [Sensors -> Shown]
    BY <1>4, <2>2, <2>4, <2>5, <2>6 DEF SensorsOK
  <2> QED
    BY <2>1, <2>7 DEF SensorsOK
<1>5. CASE Evaluate
  <2>1. \A s \in Sensors : sensors'[s] \in Shown /\ level'[s] \in Levels
    BY <1>5, EvaluatedOK
  <2>2. /\ limits' = limits /\ newEvents' \subseteq Sensors
        /\ sensors' = [s \in Sensors |-> sensors'[s]]
        /\ level' = [s \in Sensors |-> level'[s]]
    BY <1>5 DEF Evaluate
  <2> QED
    BY <2>1, <2>2 DEF SensorsOK
<1>6. \/ UNCHANGED sensorVars /\ newEvents' \subseteq newEvents
      \/ Discover \/ Answer \/ HwmonFaultMode \/ HwmonStore \/ Evaluate
  <2> USE DEF PollUnchanged, pollVars, sensorVars
  <2>1. CASE Initialize \/ Process \/ Joined \/ EndDispatch \/ Stop
    BY <2>1 DEF Initialize, Process, Joined, EndDispatch, Stop
  <2>2. CASE ApplyToEndpoint \/ ProcessCall \/ ProcessAnotherCall \/ LockForFault
    BY <2>2 DEF ApplyToEndpoint, ProcessCall, ProcessAnotherCall, LockForFault
  <2>3. CASE ApplyToDriver \/ SetEndpointFault \/ RecordFault
    BY <2>3 DEF ApplyToDriver, SetEndpointFault, RecordFault
  <2>4. CASE Loop \/ Ask \/ TelemetryMode \/ TelemetryHealth \/ TelemetryPublish \/ HwmonRead
               \/ PublishEvent \/ PublishSensor \/ Wait \/ Timer
    BY <2>4 DEF Loop, Ask, TelemetryMode, TelemetryHealth, TelemetryPublish, HwmonRead,
                PublishEvent, PublishSensor, Wait, Timer
  <2>6. CASE Done \/ UNCHANGED vars
    BY <2>6 DEF Done, vars
  <2> QED
    BY <2>1, <2>2, <2>3, <2>4, <2>6 DEF Next, Main, Poll
<1> QED
  BY <1>1, <1>2, <1>3, <1>4, <1>5, <1>6

LEMMA ControlInit == Init => ControlOK
<1> SUFFICES ASSUME Init PROVE ControlOK
  OBVIOUS
<1>1. PlacesOK
  BY DEF Init, PlacesOK
<1>2. StoppingOK
  <2>1. main \notin {"join", "done"}
    BY DEF Init
  <2>2. stopping = FALSE
    BY Zenon DEF Init
  <2> QED
    BY <2>1, <2>2, Zenon DEF StoppingOK
<1>3. CallOK
  BY SensorSets, ManagerAssumption DEF Init, CallOK, NoCall, AnyFault
<1>4. FaultsOK
  BY DEF Init, FaultsOK, AnyFault, AllFaults
<1>5. PendingOK
  BY DEF Init, PendingOK
<1>6. \A s \in Sensors : Initial[s] \in Int
  BY ManagerAssumption
<1>7. FetchedOK
  BY <1>6, SensorSets DEF Init, FetchedOK
<1>9. PcieOK
  BY DEF Init, PcieOK, HostStatus
<1>8. SensorsOK
  <2>1. sensors \in [Sensors -> Shown]
    BY <1>6 DEF Init, Shown
  <2> QED
    BY <2>1, ManagerAssumption DEF Init, SensorsOK, Levels
<1> QED
  BY <1>1, <1>2, <1>3, <1>4, <1>5, <1>7, <1>8, <1>9 DEF ControlOK

LEMMA ControlStep == ControlOK /\ [Next]_vars => ControlOK'
BY PlacesStep, StoppingStep, CallStep, FaultsStep, PendingStep, FetchedStep, PcieStep,
   SensorsStep DEF ControlOK

-----------------------------------------------------------------------------
(* What is known of a sensor.                                               *)

Truthful(r, l) ==
  r.state = "Enabled" /\ OneSided(l) =>
    /\ Beyond(l, r.reading) => r.health \in Alarm
    /\ ~Beyond(l, r.reading) /\ ~InsideBand(l, r.reading) => r.health = "OK"

HealthOf(s) == IF sensors[s].state = "Enabled" THEN HealthAt(level[s], limits[s]) ELSE "Unknown"

Fresh(s) == [reading |-> Initial[s], state |-> "Enabled", health |-> "OK"]

\* Before the poll thread runs.
StartOK ==
  /\ DOMAIN objects = Paths
  /\ poll = "absent" => \A s \in Sensors : level[s] = "none" /\ sensors[s] = Fresh(s)
                                            /\ ~Beyond(limits[s], Initial[s])
  /\ main = "init" => \A s \in Sensors : objects[s] = Absent /\ objects[Entry(s)] = Absent
  /\ main = "discover" => \A s \in Sensors : objects[s] = Fresh(s)

\* An alarm is on the side of a limit.
LevelsOK ==
  \A s \in Sensors : /\ level[s] = "upper" => limits[s].upper # NoLimit
                     /\ level[s] = "lower" => limits[s].lower # NoLimit

\* The newest event of a sensor is behind its level as long as there is a new one.
EventsOK ==
  /\ poll # "publish" => newEvents = {}
  /\ \A s \in Sensors :
       /\ objects[Entry(s)] \in {Absent, "asserted", "recovered"}
       /\ s \notin newEvents => (objects[Entry(s)] = "asserted" <=> level[s] # "none")
       /\ s \in newEvents => (objects[Entry(s)] = "asserted" <=> level[s] = "none")

ObjectsOK ==
  main # "init" =>
    \A s \in Sensors : /\ objects[s] \in Shown
                       /\ Truthful(objects[s], limits[s])
                       /\ objects[s].health \in Alarm => objects[Entry(s)] # Absent

\* While sensors are published, what is still to go is in line with the levels, and
\* inside the hysteresis band with what is published.
PublishOK ==
  poll = "publish" =>
    \A s \in Sensors :
      /\ sensors[s].health = HealthOf(s)
      /\ Truthful(sensors[s], limits[s])
      /\ objects[s] = sensors[s] \/ \E i \in 1..Len(pending) : pending[i] = s
      /\ OneSided(limits[s]) /\ objects[s].state = "Enabled" /\ sensors[s].state = "Enabled"
           /\ InsideBand(limits[s], sensors[s].reading)
           => sensors[s].health = objects[s].health

RestOK ==
  /\ main # "init" /\ poll # "publish" =>
       \A s \in Sensors :
         objects[s].state = "Enabled" => objects[s].health = HealthAt(level[s], limits[s])
  /\ poll = "waiting" =>
       \A s \in Sensors : objects[s] = sensors[s] /\ sensors[s].health = HealthOf(s)

BoardOK == StartOK /\ LevelsOK /\ EventsOK /\ ObjectsOK /\ PublishOK /\ RestOK

\* The hysteresis: an alarm is raised beyond a limit and ends before the band.
LEMMA Hysteresis ==
  ASSUME NEW l \in Limits, NEW v \in Levels, NEW r \in Int,
         v = "upper" => l.upper # NoLimit, v = "lower" => l.lower # NoLimit
  PROVE  LET w == NextLevel(v, l, r) IN
         /\ w = "upper" => l.upper # NoLimit
         /\ w = "lower" => l.lower # NoLimit
         /\ w # v => (w = "none" <=> v # "none")
         /\ OneSided(l) => /\ Beyond(l, r) => w # "none"
                           /\ ~Beyond(l, r) /\ ~InsideBand(l, r) => w = "none"
                           /\ InsideBand(l, r) => w = v
<1> DEFINE w == NextLevel(v, l, r)
<1> USE LimitFacts DEF NextLevel, Levels, ExceedsUpper, BelowLower, BackInRange, Beyond,
                       InsideBand, OneSided
<1>1. CASE v = "none"
  <2>1. CASE ExceedsUpper(l, r)
    BY <1>1, <2>1
  <2>2. CASE ~ExceedsUpper(l, r) /\ BelowLower(l, r)
    BY <1>1, <2>2
  <2>3. CASE ~ExceedsUpper(l, r) /\ ~BelowLower(l, r)
    BY <1>1, <2>3
  <2> QED
    BY <2>1, <2>2, <2>3
<1>2. CASE v = "upper"
  <2>1. CASE BackInRange(v, l, r)
    BY <1>2, <2>1
  <2>2. CASE ~BackInRange(v, l, r)
    BY <1>2, <2>2
  <2> QED
    BY <2>1, <2>2
<1>3. CASE v = "lower"
  <2>1. CASE BackInRange(v, l, r)
    BY <1>3, <2>1
  <2>2. CASE ~BackInRange(v, l, r)
    BY <1>3, <2>2
  <2> QED
    BY <2>1, <2>2
<1> QED
  BY <1>1, <1>2, <1>3

LEMMA HealthFacts ==
  ASSUME NEW l \in Limits, NEW v
  PROVE  /\ v = "none" => HealthAt(v, l) = "OK"
         /\ v # "none" => HealthAt(v, l) \in Alarm /\ HealthAt(v, l) = l.asserted
         /\ HealthAt(v, l) # "Unknown"
BY LimitFacts DEF HealthAt, Alarm

\* A step that leaves the levels and the objects of sensors alone.
Quiet ==
  /\ UNCHANGED <<limits, level, newEvents>>
  /\ DOMAIN objects' = DOMAIN objects
  /\ \A s \in Sensors : objects'[s] = objects[s] /\ objects'[Entry(s)] = objects[Entry(s)]
  /\ main' = "init" <=> main = "init"
  /\ main' = "discover" => main = "discover"
  /\ poll' = "absent" => poll = "absent"
  /\ poll' = "publish" => poll = "publish"
  /\ poll' = "waiting" => poll \in {"publish", "waiting"}
  /\ poll \in {"absent", "publish", "waiting"} => sensors' = sensors
  /\ poll = "publish" => \/ poll' = "publish" /\ pending' = pending
                         \/ pending = <<>> /\ newEvents = {}

LEMMA QuietStep == BoardOK /\ Quiet => BoardOK'
<1> SUFFICES ASSUME BoardOK, Quiet PROVE BoardOK'
  OBVIOUS
<1>1. StartOK'
  BY DEF BoardOK, Quiet, StartOK, Fresh
<1>2. LevelsOK'
  BY DEF BoardOK, Quiet, LevelsOK
<1>3. EventsOK'
  BY DEF BoardOK, Quiet, EventsOK
<1>4. ObjectsOK'
  <2>1. \A s \in Sensors : Truthful(objects[s], limits[s]) => Truthful(objects[s], limits[s])'
    BY DEF Quiet, Truthful
  <2> QED
    BY <2>1 DEF BoardOK, Quiet, ObjectsOK
<1>5. PublishOK'
  <2> SUFFICES ASSUME poll' = "publish" PROVE PublishOK'
    BY DEF PublishOK
  <2>1. /\ poll = "publish" /\ (pending' = pending \/ pending = <<>>)
        /\ UNCHANGED <<limits, level, sensors>>
    BY DEF Quiet
  <2> QED
    BY <2>1 DEF BoardOK, Quiet, PublishOK, Truthful, HealthOf
<1>6. RestOK'
  BY DEF BoardOK, Quiet, PublishOK, RestOK, HealthOf
<1> QED
  BY <1>1, <1>2, <1>3, <1>4, <1>5, <1>6 DEF BoardOK

\* Which steps are quiet.
LEMMA QuietSteps ==
  ASSUME ControlOK, BoardOK, [Next]_vars
  PROVE  Quiet \/ Initialize \/ Discover \/ Evaluate \/ PublishEvent \/ PublishSensor
<1> USE DEF ControlOK, PlacesOK
<1>1. ASSUME UNCHANGED <<limits, level, newEvents, sensors, pending, poll>>,
             main' \notin {"init", "discover"}, main \notin {"init", "discover"},
             objects' = objects
      PROVE  Quiet
  BY <1>1 DEF Quiet
<1>2. CASE Process \/ Joined \/ EndDispatch \/ ApplyToEndpoint \/ ProcessCall
             \/ ProcessAnotherCall \/ LockForFault \/ RecordFault
  <2>1. UNCHANGED <<limits, level, newEvents, sensors, pending, poll, objects>>
    BY <1>2 DEF Process, Joined, EndDispatch, ApplyToEndpoint, ProcessCall, ProcessAnotherCall,
                LockForFault, RecordFault, ProcessPending, pollVars, sensorVars, dbusVars
  <2>2. main' \notin {"init", "discover"} /\ main \notin {"init", "discover"}
    BY <1>2 DEF Process, Joined, EndDispatch, ApplyToEndpoint, ProcessCall, ProcessAnotherCall,
                LockForFault, RecordFault, Called, Reply, mainVars
  <2> QED
    BY <1>1, <2>1, <2>2
<1>3. CASE ApplyToDriver \/ SetEndpointFault
  <2>1. UNCHANGED <<limits, level, newEvents, sensors, pending, poll, objects>>
    BY <1>3, Zenon DEF ApplyToDriver, SetEndpointFault, pollVars, sensorVars, dbusVars
  <2>2. main' \notin {"init", "discover"} /\ main \notin {"init", "discover"}
    BY <1>3 DEF ApplyToDriver, SetEndpointFault, Reply
  <2> QED
    BY <1>1, <2>1, <2>2
<1>4. CASE Stop
  <2>1. /\ UNCHANGED <<limits, level, newEvents, sensors, pending, objects>>
        /\ main = "wait" /\ main' = "join"
        /\ poll' = poll \/ (poll = "waiting" /\ poll' = "loop")
    BY <1>4 DEF Stop, sensorVars, dbusVars
  <2> QED
    BY <2>1 DEF Quiet
<1>5. CASE Loop \/ Ask \/ Answer \/ HwmonFaultMode \/ HwmonRead \/ HwmonStore
  <2>1. /\ UNCHANGED <<limits, level, newEvents, objects, main>>
        /\ poll \in {"loop", "sweep", "asking", "fault_mode", "inputs"}
        /\ poll' \notin {"absent", "publish", "waiting"}
    BY <1>5 DEF Loop, Ask, Answer, HwmonFaultMode, HwmonUnavailable, HwmonRead, HwmonStore,
                PollUnchanged, mainVars, sensorVars, dbusVars
  <2> QED
    BY <2>1 DEF Quiet
<1>6. CASE TelemetryPublish
  <2>1. /\ UNCHANGED <<limits, level, newEvents, main, sensors>>
        /\ poll = "pcie_publish" /\ poll' = "fault_mode"
    BY <1>6 DEF TelemetryPublish, PollUnchanged, mainVars, sensorVars
  <2>2. objects' = [objects EXCEPT ![PcieDevice] = pcieStatus]
    BY <1>6 DEF TelemetryPublish, UpsertObject, AddObject, ChangeObject
  <2>3. /\ DOMAIN objects' = DOMAIN objects
        /\ \A s \in Sensors : objects'[s] = objects[s] /\ objects'[Entry(s)] = objects[Entry(s)]
    BY <2>2, PathFacts DEF BoardOK, StartOK
  <2> QED
    BY <2>1, <2>3 DEF Quiet
<1>10. CASE TelemetryMode \/ TelemetryHealth
  <2>1. /\ UNCHANGED <<limits, level, newEvents, objects, main, sensors>>
        /\ poll \in {"telemetry", "pcie_health"}
        /\ poll' \in {"pcie_health", "pcie_publish", "fault_mode"}
    BY <1>10, Zenon DEF TelemetryMode, TelemetryHealth, PollUnchanged, mainVars, sensorVars,
                        dbusVars
  <2> QED
    BY <2>1 DEF Quiet
<1>7. CASE Wait
  <2>1. /\ UNCHANGED <<limits, level, newEvents, objects, main, sensors>>
        /\ poll = "publish" /\ pending = <<>> /\ newEvents = {}
        /\ poll' \in {"loop", "waiting"}
    BY <1>7 DEF Wait, AfterCycle, PollUnchanged, mainVars, sensorVars, dbusVars
  <2> QED
    BY <2>1 DEF Quiet
<1>8. CASE Timer
  <2>1. /\ UNCHANGED <<limits, level, newEvents, objects, main, sensors>>
        /\ poll = "waiting" /\ poll' = "loop"
    BY <1>8 DEF Timer, PollUnchanged, mainVars, sensorVars, dbusVars
  <2> QED
    BY <2>1 DEF Quiet
<1>9. CASE Done \/ UNCHANGED vars
  <2>1. UNCHANGED <<limits, level, newEvents, objects, main, sensors, poll, pending>>
    BY <1>9 DEF Done, vars, mainVars, pollVars, sensorVars, dbusVars
  <2> QED
    BY <2>1 DEF Quiet
<1> QED
  BY <1>2, <1>3, <1>4, <1>5, <1>6, <1>7, <1>8, <1>9, <1>10 DEF Next, Main, Poll

LEMMA InitializeStep == ControlOK /\ BoardOK /\ Initialize => BoardOK'
<1> SUFFICES ASSUME ControlOK, BoardOK, Initialize PROVE BoardOK'
  OBVIOUS
<1>1. /\ objects' = [p \in Paths |-> IF p \in Sensors THEN sensors[p] ELSE objects[p]]
      /\ UNCHANGED <<sensors, limits, level, newEvents, poll, pending>>
      /\ main = "init" /\ main' = "discover"
  BY DEF Initialize, pollVars, sensorVars
<1>2. poll = "absent" /\ sensors \in [Sensors -> Shown] /\ limits \in [Sensors -> Limits]
  BY <1>1 DEF ControlOK, PlacesOK, SensorsOK
<1>3. \A s \in Sensors : /\ sensors[s] = Fresh(s) /\ level[s] = "none" /\ sensors[s] \in Shown
                         /\ ~Beyond(limits[s], Initial[s]) /\ objects[Entry(s)] = Absent
  BY <1>1, <1>2 DEF BoardOK, StartOK
<1>4. \A s \in Sensors : objects'[s] = sensors[s] /\ objects'[Entry(s)] = objects[Entry(s)]
  BY <1>1, PathFacts
<1>5. DOMAIN objects' = Paths
  BY <1>1
<1>6. \A s \in Sensors : Fresh(s).health = "OK" /\ Fresh(s).reading = Initial[s]
  BY DEF Fresh
<1>7. StartOK'
  BY <1>1, <1>2, <1>3, <1>4, <1>5 DEF StartOK, Fresh
<1>8. LevelsOK' /\ EventsOK'
  BY <1>1, <1>3, <1>4 DEF BoardOK, LevelsOK, EventsOK
<1>9. ObjectsOK'
  BY <1>1, <1>3, <1>4, <1>6 DEF ObjectsOK, Truthful, Alarm
<1>10. PublishOK'
  BY <1>1, <1>2 DEF PublishOK
<1>11. RestOK'
  <2>1. \A s \in Sensors : HealthAt(level[s], limits[s]) = "OK" /\ objects'[s].health = "OK"
    BY <1>3, <1>4, <1>6 DEF HealthAt
  <2> QED
    BY <1>1, <1>2, <2>1 DEF RestOK
<1> QED
  BY <1>7, <1>8, <1>9, <1>10, <1>11 DEF BoardOK

LEMMA DiscoverStep == ControlOK /\ BoardOK /\ Discover => BoardOK'
<1> SUFFICES ASSUME ControlOK, BoardOK, Discover PROVE BoardOK'
  OBVIOUS
<1>1. /\ UNCHANGED <<sensors, level, newEvents, pending, objects>>
      /\ main = "discover" /\ main' = "wait" /\ poll' = "loop"
  BY DEF Discover, dbusVars
<1>2. \A s \in Sensors : \/ limits'[s] = limits[s]
                         \/ s \in PldmSensors /\ limits'[s] = PdrLimits[s]
  BY DiscoveredLimits
<1>3. poll = "absent" /\ limits \in [Sensors -> Limits]
  BY <1>1 DEF ControlOK, PlacesOK, SensorsOK
<1>4. \A s \in Sensors : /\ objects[s] = Fresh(s) /\ level[s] = "none"
                         /\ ~Beyond(limits[s], Initial[s])
  BY <1>1, <1>3 DEF BoardOK, StartOK
<1>5. \A s \in Sensors : ~Beyond(limits'[s], Initial[s]) /\ limits'[s] \in Limits
  BY <1>2, <1>3, <1>4, InitialAssumption, ManagerAssumption
<1>6. \A s \in Sensors : Fresh(s).health = "OK" /\ Fresh(s).reading = Initial[s]
  BY DEF Fresh
<1>7. StartOK' /\ LevelsOK' /\ EventsOK'
  BY <1>1, <1>3, <1>4 DEF BoardOK, StartOK, LevelsOK, EventsOK
<1>8. ObjectsOK'
  BY <1>1, <1>4, <1>5, <1>6 DEF BoardOK, ObjectsOK, Truthful, Alarm
<1>9. PublishOK'
  BY <1>1 DEF PublishOK
<1>10. RestOK'
  BY <1>1, <1>4, <1>5, <1>6, HealthFacts DEF RestOK
<1> QED
  BY <1>7, <1>8, <1>9, <1>10 DEF BoardOK

LEMMA EvaluateStep == ControlOK /\ BoardOK /\ Evaluate => BoardOK'
<1> SUFFICES ASSUME ControlOK, BoardOK, Evaluate PROVE BoardOK'
  OBVIOUS
<1>1. /\ UNCHANGED <<limits, objects, main>>
      /\ pending' = AllSensors /\ poll = "evaluate" /\ poll' = "publish"
  BY DEF Evaluate, PollUnchanged, mainVars, dbusVars
<1>2. main \notin {"init", "discover"} /\ newEvents = {}
  BY <1>1 DEF ControlOK, PlacesOK, BoardOK, EventsOK
<1> DEFINE v(s) == level[s]
           w(s) == level'[s]
           r(s) == sensors'[s].reading
           Up(s) == sensors'[s].state = "Enabled"
<1>3. ASSUME NEW s \in Sensors
      PROVE  /\ limits[s] \in Limits /\ v(s) \in Levels /\ sensors'[s] \in Shown
             /\ r(s) \in Int /\ sensors'[s].state \in {"Enabled", "Unavailable"}
             /\ w(s) = IF Up(s) THEN NextLevel(v(s), limits[s], r(s)) ELSE v(s)
             /\ sensors'[s].health = IF Up(s) THEN HealthAt(w(s), limits[s]) ELSE "Unknown"
             /\ s \in newEvents' <=> w(s) # v(s)
  <2>1. sensors'[s] \in Shown
    BY <1>3, EvaluatedOK DEF ControlOK
  <2> QED
    BY <1>3, <2>1, EvaluatedOK, RecordFacts DEF ControlOK, SensorsOK
<1>4. ASSUME NEW s \in Sensors
      PROVE  /\ w(s) = "upper" => limits[s].upper # NoLimit
             /\ w(s) = "lower" => limits[s].lower # NoLimit
             /\ w(s) # v(s) => (w(s) = "none" <=> v(s) # "none")
             /\ Up(s) /\ OneSided(limits[s]) =>
                  /\ Beyond(limits[s], r(s)) => w(s) # "none"
                  /\ ~Beyond(limits[s], r(s)) /\ ~InsideBand(limits[s], r(s)) => w(s) = "none"
                  /\ InsideBand(limits[s], r(s)) => w(s) = v(s)
  <2>1. /\ v(s) = "upper" => limits[s].upper # NoLimit
        /\ v(s) = "lower" => limits[s].lower # NoLimit
    BY DEF BoardOK, LevelsOK
  <2> HIDE DEF v, w, r
  <2>2. CASE Up(s)
    BY <1>3, <2>1, <2>2, Hysteresis
  <2>3. CASE ~Up(s)
    BY <1>3, <2>1, <2>3
  <2> QED
    BY <2>2, <2>3
<1>5. StartOK'
  BY <1>1, <1>2 DEF BoardOK, StartOK
<1>6. LevelsOK'
  BY <1>1, <1>4 DEF LevelsOK
<1>7. EventsOK'
  BY <1>1, <1>2, <1>3, <1>4 DEF BoardOK, EventsOK
<1>8. ObjectsOK'
  BY <1>1 DEF BoardOK, ObjectsOK, Truthful
<1>9. RestOK'
  BY <1>1 DEF RestOK
<1>10. ASSUME NEW s \in Sensors PROVE Truthful(sensors'[s], limits[s])
  <2>1. CASE Up(s)
    BY <1>3, <1>4, <2>1, HealthFacts DEF Truthful
  <2>2. CASE ~Up(s)
    BY <2>2 DEF Truthful
  <2> QED
    BY <2>1, <2>2
<1>11. ASSUME NEW s \in Sensors, OneSided(limits[s]), objects[s].state = "Enabled", Up(s),
              InsideBand(limits[s], r(s))
       PROVE  sensors'[s].health = objects[s].health
  <2>1. w(s) = v(s) /\ sensors'[s].health = HealthAt(w(s), limits[s])
    BY <1>3, <1>4, <1>11
  <2>2. objects[s].health = HealthAt(v(s), limits[s])
    BY <1>1, <1>2, <1>11 DEF BoardOK, RestOK
  <2> QED
    BY <2>1, <2>2
<1>12. \A s \in Sensors : sensors'[s].health = HealthOf(s)'
  BY <1>1, <1>3 DEF HealthOf
<1>13. PublishOK'
  BY <1>1, <1>10, <1>11, <1>12, AllSensorsInOrder DEF PublishOK
<1> QED
  BY <1>5, <1>6, <1>7, <1>8, <1>9, <1>13 DEF BoardOK

LEMMA PublishEventStep == ControlOK /\ BoardOK /\ PublishEvent => BoardOK'
<1> SUFFICES ASSUME ControlOK, BoardOK, PublishEvent PROVE BoardOK'
  OBVIOUS
<1>1. PICK e \in newEvents : AddObject(Entry(e), EventAt(level[e])) /\ newEvents' = newEvents \ {e}
  BY DEF PublishEvent
<1>2. /\ UNCHANGED <<limits, level, sensors, main, poll, pending>> /\ poll = "publish"
      /\ objects' = [objects EXCEPT ![Entry(e)] = EventAt(level[e])]
  BY <1>1 DEF PublishEvent, AddObject, PollUnchanged, mainVars, sensorVars
<1>3. e \in Sensors /\ main \notin {"init", "discover"} /\ DOMAIN objects = Paths
  BY <1>1, <1>2 DEF ControlOK, PlacesOK, SensorsOK, BoardOK, StartOK
<1>4. /\ DOMAIN objects' = Paths
      /\ \A s \in Sensors : objects'[s] = objects[s]
      /\ \A s \in Sensors : s # e => objects'[Entry(s)] = objects[Entry(s)]
      /\ objects'[Entry(e)] = EventAt(level[e])
  BY <1>2, <1>3, PathFacts
<1>5. /\ EventAt(level[e]) \in {"asserted", "recovered"} /\ EventAt(level[e]) # Absent
      /\ EventAt(level[e]) = "asserted" <=> level[e] # "none"
  BY ManagerAssumption DEF EventAt
<1>6. StartOK' /\ LevelsOK'
  BY <1>2, <1>3, <1>4 DEF BoardOK, StartOK, LevelsOK, ControlOK, PlacesOK
<1>7. EventsOK'
  BY <1>1, <1>2, <1>4, <1>5 DEF BoardOK, EventsOK
<1>8. ObjectsOK'
  BY <1>2, <1>4, <1>5 DEF BoardOK, ObjectsOK, Truthful
<1>9. PublishOK' /\ RestOK'
  BY <1>2, <1>4 DEF BoardOK, PublishOK, RestOK, HealthOf, Truthful
<1> QED
  BY <1>6, <1>7, <1>8, <1>9 DEF BoardOK

\* What publishing a sensor does to the objects.
LEMMA Published ==
  ASSUME ControlOK, BoardOK, PublishSensor
  PROVE  /\ UNCHANGED <<limits, level, sensors, main, poll, newEvents>>
         /\ poll = "publish" /\ newEvents = {} /\ main \notin {"init", "discover"}
         /\ Head(pending) \in Sensors /\ pending # <<>> /\ pending' = Tail(pending)
         /\ DOMAIN objects' = Paths
         /\ objects'[Head(pending)] = sensors[Head(pending)]
         /\ \A s \in Sensors : /\ s # Head(pending) => objects'[s] = objects[s]
                               /\ objects'[Entry(s)] = objects[Entry(s)]
<1>1. /\ UNCHANGED <<limits, level, sensors, main, poll, newEvents>>
      /\ poll = "publish" /\ newEvents = {} /\ pending # <<>> /\ pending' = Tail(pending)
      /\ objects' = [objects EXCEPT ![Head(pending)] = sensors[Head(pending)]]
  BY DEF PublishSensor, EventsPublished, UpsertObject, AddObject, ChangeObject, PollUnchanged,
         mainVars, sensorVars
<1>2. Head(pending) \in Sensors
  BY <1>1, HeadTailProperties DEF ControlOK, PendingOK
<1>3. main \notin {"init", "discover"} /\ DOMAIN objects = Paths
  BY <1>1 DEF ControlOK, PlacesOK, BoardOK, StartOK
<1> QED
  BY <1>1, <1>2, <1>3, PathFacts

LEMMA PublishSensorStep == ControlOK /\ BoardOK /\ PublishSensor => BoardOK'
<1> SUFFICES ASSUME ControlOK, BoardOK, PublishSensor PROVE BoardOK'
  OBVIOUS
<1> DEFINE h == Head(pending)
<1>1. /\ UNCHANGED <<limits, level, sensors, main, poll, newEvents>>
      /\ poll = "publish" /\ newEvents = {} /\ main \notin {"init", "discover"}
      /\ h \in Sensors /\ pending # <<>> /\ pending' = Tail(pending)
      /\ DOMAIN objects' = Paths /\ objects'[h] = sensors[h]
      /\ \A s \in Sensors : /\ s # h => objects'[s] = objects[s]
                            /\ objects'[Entry(s)] = objects[Entry(s)]
  BY Published
<1>2. StartOK' /\ LevelsOK' /\ EventsOK'
  BY <1>1 DEF BoardOK, StartOK, LevelsOK, EventsOK
<1>3. limits[h] \in Limits /\ sensors[h] \in Shown /\ sensors[h].health = HealthOf(h)
      /\ Truthful(sensors[h], limits[h])
  BY <1>1 DEF ControlOK, SensorsOK, BoardOK, PublishOK
<1>4. sensors[h].health \in Alarm => objects[Entry(h)] # Absent
  <2>1. sensors[h].health \in Alarm => level[h] # "none"
    BY <1>3, HealthFacts DEF HealthOf, Alarm
  <2>2. level[h] # "none" => objects[Entry(h)] = "asserted"
    BY <1>1 DEF BoardOK, EventsOK
  <2> QED
    BY <2>1, <2>2, ManagerAssumption
<1> HIDE DEF h
<1>5. ObjectsOK'
  <2> SUFFICES ASSUME NEW s \in Sensors
               PROVE  /\ objects'[s] \in Shown /\ Truthful(objects'[s], limits[s])
                      /\ objects'[s].health \in Alarm => objects'[Entry(s)] # Absent
    BY <1>1 DEF ObjectsOK, Truthful
  <2>1. CASE s = h
    BY <1>1, <1>3, <1>4, <2>1
  <2>2. CASE s # h
    BY <1>1, <2>2 DEF BoardOK, ObjectsOK
  <2> QED
    BY <2>1, <2>2
<1>6. ASSUME NEW s \in Sensors
      PROVE  objects'[s] = sensors[s] \/ \E i \in 1..Len(pending') : pending'[i] = s
  <2>1. CASE s = h \/ objects[s] = sensors[s]
    BY <1>1, <2>1
  <2>2. CASE s # h /\ objects[s] # sensors[s]
    <3>1. PICK i \in 1..Len(pending) : pending[i] = s
      BY <1>1, <2>2 DEF BoardOK, PublishOK
    <3>2. /\ Len(Tail(pending)) = Len(pending) - 1 /\ Len(pending) \in Nat
          /\ \A j \in 1..Len(Tail(pending)) : Tail(pending)[j] = pending[j + 1]
      BY <1>1, HeadTailProperties DEF ControlOK, PendingOK
    <3>3. i # 1
      BY <1>1, <2>2, <3>1 DEF h
    <3>4. /\ i - 1 \in 1..Len(Tail(pending)) /\ (i - 1) + 1 = i
      BY <3>1, <3>2, <3>3
    <3>5. Tail(pending)[i - 1] = s
      BY <3>1, <3>2, <3>4
    <3> QED
      BY <1>1, <3>4, <3>5
  <2> QED
    BY <2>1, <2>2
<1>7. PublishOK'
  <2> SUFFICES ASSUME NEW s \in Sensors
               PROVE  /\ sensors[s].health = HealthOf(s) /\ Truthful(sensors[s], limits[s])
                      /\ OneSided(limits[s]) /\ objects'[s].state = "Enabled"
                           /\ sensors[s].state = "Enabled"
                           /\ InsideBand(limits[s], sensors[s].reading)
                           => sensors[s].health = objects'[s].health
    BY <1>1, <1>6 DEF PublishOK, Truthful, HealthOf
  <2>1. CASE s = h
    BY <1>1, <1>3, <2>1
  <2>2. CASE s # h
    BY <1>1, <2>2 DEF BoardOK, PublishOK
  <2> QED
    BY <2>1, <2>2
<1>8. RestOK'
  BY <1>1 DEF RestOK
<1> QED
  BY <1>2, <1>5, <1>7, <1>8 DEF BoardOK

LEMMA BoardStart == Init => BoardOK
<1> SUFFICES ASSUME Init PROVE BoardOK
  OBVIOUS
<1>1. /\ main = "init" /\ poll = "absent" /\ newEvents = {} /\ limits = DefaultLimits
      /\ objects = [p \in Paths |-> Absent]
  BY DEF Init, DbusInit
<1>2. \A s \in Sensors : level[s] = "none" /\ sensors[s] = Fresh(s)
  BY DEF Init, Fresh
<1>3. StartOK
  BY <1>1, <1>2, PathFacts, InitialAssumption DEF StartOK
<1>4. LevelsOK /\ EventsOK
  BY <1>1, <1>2, PathFacts, ManagerAssumption DEF LevelsOK, EventsOK
<1>5. ObjectsOK /\ PublishOK /\ RestOK
  BY <1>1 DEF ObjectsOK, PublishOK, RestOK
<1> QED
  BY <1>3, <1>4, <1>5 DEF BoardOK

LEMMA BoardStep == ControlOK /\ BoardOK /\ [Next]_vars => BoardOK'
BY QuietSteps, QuietStep, InitializeStep, DiscoverStep, EvaluateStep, PublishEventStep,
   PublishSensorStep

\* The inductive invariant: the threads are in their places, and levels, members and
\* objects agree as far as they must at each place.
THEOREM ManagerInvariant == Spec => [](ControlOK /\ BoardOK)
BY ControlInit, ControlStep, BoardStart, BoardStep, PTL DEF Spec

-----------------------------------------------------------------------------
(* Results.                                                                 *)

\* A sensor with one limit that is published as readable shows the health of its
\* reading, for any limits and hysteresis.
THEOREM HealthAlwaysMatchesReading == Spec => []HealthMatchesReading
<1>1. ControlOK /\ BoardOK => HealthMatchesReading
  <2> SUFFICES ASSUME ControlOK, BoardOK, NEW s \in Sensors,
                      objects[s] # Absent, objects[s].state = "Enabled", OneSided(limits[s])
               PROVE  /\ Beyond(limits[s], objects[s].reading) => objects[s].health \in Alarm
                      /\ ~Beyond(limits[s], objects[s].reading)
                           /\ ~InsideBand(limits[s], objects[s].reading)
                           => objects[s].health = "OK"
    BY DEF HealthMatchesReading
  <2>1. main # "init"
    BY DEF BoardOK, StartOK
  <2> QED
    BY <2>1 DEF BoardOK, ObjectsOK, Truthful
<1> QED
  BY <1>1, ManagerInvariant, PTL

\* Inside the hysteresis band no published health flips.
THEOREM HealthNeverFlaps == Spec => NoFlapping
<1> DEFINE Steady ==
      \A s \in Sensors :
        /\ OneSided(limits[s])
        /\ objects[s] # Absent /\ objects[s].state = "Enabled"
        /\ objects'[s].state = "Enabled"
        /\ InsideBand(limits[s], objects'[s].reading)
        => objects'[s].health = objects[s].health
<1>1. ControlOK /\ BoardOK /\ [Next]_vars => Steady
  <2> SUFFICES ASSUME ControlOK, BoardOK, [Next]_vars PROVE Steady
    OBVIOUS
  <2>1. CASE \A s \in Sensors : objects'[s] = objects[s]
    BY <2>1
  <2>2. CASE Initialize
    BY <2>2 DEF Initialize, BoardOK, StartOK
  <2>3. CASE PublishSensor
    <3> SUFFICES ASSUME NEW s \in Sensors, OneSided(limits[s]),
                        objects[s].state = "Enabled", objects'[s].state = "Enabled",
                        InsideBand(limits[s], objects'[s].reading)
                 PROVE  objects'[s].health = objects[s].health
      OBVIOUS
    <3>1. poll = "publish" /\ (objects'[s] = objects[s] \/ objects'[s] = sensors[s])
      BY <2>3, Published
    <3> QED
      BY <3>1 DEF BoardOK, PublishOK
  <2>4. Quiet \/ Discover \/ Evaluate \/ PublishEvent
          => \A s \in Sensors : objects'[s] = objects[s]
    <3>1. PublishEvent => \A s \in Sensors : objects'[s] = objects[s]
      <4> SUFFICES ASSUME PublishEvent PROVE \A s \in Sensors : objects'[s] = objects[s]
        OBVIOUS
      <4>1. PICK e \in newEvents : objects' = [objects EXCEPT ![Entry(e)] = EventAt(level[e])]
        BY DEF PublishEvent, AddObject
      <4>2. e \in Sensors
        BY DEF ControlOK, SensorsOK
      <4> QED
        BY <4>1, <4>2, PathFacts DEF BoardOK, StartOK
    <3> QED
      BY <3>1 DEF Quiet, Discover, Evaluate, dbusVars
  <2> QED
    BY <2>1, <2>2, <2>3, <2>4, QuietSteps
<1>2. NoFlapping <=> [][Steady]_vars
  BY PTL DEF NoFlapping
<1> QED
  BY <1>1, <1>2, ManagerInvariant, PTL DEF Spec

-----------------------------------------------------------------------------
(* The refinement of AlarmBoard.                                            *)

newestBar == [s \in Sensors |-> NewestEvent(s)]
ShownHealth(s) == HealthShownBy(objects[s])

shownBar == [s \in Sensors |-> ShownHealth(s)]

\* What a known object shows.
LEMMA ShownFacts ==
  ASSUME NEW o \in Shown
  PROVE  /\ o # Absent /\ HealthShownBy(o) # "absent"
         /\ o.health \in Alarm => HealthShownBy(o) = "alarm"
         /\ o.health = "OK" => HealthShownBy(o) = "OK"
         /\ o.health = "Unknown" => HealthShownBy(o) = "unknown"
<1>1. o # Absent /\ o.health \in Healths
  BY ManagerAssumption, RecordFacts
<1>2. CASE o.health \in Alarm
  BY <1>1, <1>2 DEF HealthShownBy, Alarm
<1>3. CASE o.health = "OK"
  BY <1>1, <1>3 DEF HealthShownBy, Alarm
<1>4. CASE o.health = "Unknown"
  BY <1>1, <1>4 DEF HealthShownBy, Alarm
<1> QED
  BY <1>1, <1>2, <1>3, <1>4 DEF Healths, Alarm

LEMMA BoardStarts == Init => Board!BoardInit
<1> SUFFICES ASSUME Init PROVE Board!BoardInit
  OBVIOUS
<1>1. \A s \in Sensors : objects[s] = Absent /\ objects[Entry(s)] = Absent
  BY PathFacts DEF Init, DbusInit
<1>2. \A s \in Sensors : NewestEvent(s) = "none" /\ ShownHealth(s) = "absent"
  BY <1>1 DEF NewestEvent, ShownHealth, HealthShownBy
<1> QED
  BY <1>2 DEF Board!BoardInit, ShownHealth

LEMMA BoardUnchanged ==
  ASSUME \A s \in Sensors : objects'[s] = objects[s] /\ objects'[Entry(s)] = objects[Entry(s)]
  PROVE  newestBar' = newestBar /\ shownBar' = shownBar
<1>1. \A s \in Sensors : NewestEvent(s)' = NewestEvent(s) /\ ShownHealth(s)' = ShownHealth(s)
  BY DEF NewestEvent, ShownHealth
<1> QED
  BY <1>1 DEF newestBar, shownBar

LEMMA AppearStep == ControlOK /\ BoardOK /\ Initialize => Board!Appear
<1> SUFFICES ASSUME ControlOK, BoardOK, Initialize PROVE Board!Appear
  OBVIOUS
<1>1. BoardOK' /\ main = "init" /\ main' = "discover"
  BY InitializeStep DEF Initialize
<1>2. \A s \in Sensors : /\ objects[s] = Absent /\ objects[Entry(s)] = Absent
                         /\ objects'[s] = Fresh(s) /\ objects'[s] \in Shown
  BY <1>1 DEF BoardOK, StartOK, ObjectsOK, Fresh
<1>3. \A s \in Sensors : objects'[Entry(s)] = objects[Entry(s)]
  BY PathFacts DEF Initialize
<1>4. \A s \in Sensors : ShownHealth(s) = "absent" /\ NewestEvent(s)' = NewestEvent(s)
  BY <1>2, <1>3 DEF ShownHealth, HealthShownBy, NewestEvent
<1>5. ASSUME NEW s \in Sensors PROVE ShownHealth(s)' = "OK"
  <2>1. Fresh(s).health = "OK"
    BY DEF Fresh
  <2> QED
    BY <1>2, <2>1, ShownFacts DEF ShownHealth
<1> QED
  BY <1>4, <1>5 DEF Board!Appear, ShownHealth

LEMMA EventStep ==
  ControlOK /\ BoardOK /\ PublishEvent => \E s \in Sensors : Board!Assert(s) \/ Board!Recover(s)
<1> SUFFICES ASSUME ControlOK, BoardOK, PublishEvent
             PROVE  \E s \in Sensors : Board!Assert(s) \/ Board!Recover(s)
  OBVIOUS
<1>1. PICK e \in newEvents : objects' = [objects EXCEPT ![Entry(e)] = EventAt(level[e])]
  BY DEF PublishEvent, AddObject
<1>2. e \in Sensors /\ DOMAIN objects = Paths
  BY DEF ControlOK, SensorsOK, BoardOK, StartOK
<1>3. /\ \A s \in Sensors : objects'[s] = objects[s]
      /\ \A s \in Sensors : s # e => objects'[Entry(s)] = objects[Entry(s)]
      /\ objects'[Entry(e)] = EventAt(level[e])
  BY <1>1, <1>2, PathFacts
<1>4. \A s \in Sensors : ShownHealth(s)' = ShownHealth(s)
  BY <1>3 DEF ShownHealth
<1>5. \A s \in Sensors : s # e => NewestEvent(s)' = NewestEvent(s)
  BY <1>3 DEF NewestEvent
<1>6. newestBar' = [newestBar EXCEPT ![e] = NewestEvent(e)'] /\ shownBar' = shownBar
  BY <1>2, <1>4, <1>5 DEF newestBar, shownBar
<1>7. /\ objects[Entry(e)] \in {Absent, "asserted", "recovered"}
      /\ objects[Entry(e)] = "asserted" <=> level[e] = "none"
  BY <1>1, <1>2 DEF BoardOK, EventsOK
<1>8. CASE level[e] = "none"
  <2>1. EventAt(level[e]) = "recovered" /\ objects[Entry(e)] = "asserted"
    BY <1>7, <1>8 DEF EventAt
  <2>2. NewestEvent(e) = "asserted" /\ NewestEvent(e)' = "recovered"
    BY <1>3, <2>1, ManagerAssumption DEF NewestEvent
  <2>3. Board!Recover(e)
    BY <1>2, <1>6, <2>2 DEF Board!Recover, newestBar, shownBar, ShownHealth
  <2> QED
    BY <1>2, <2>3
<1>9. CASE level[e] # "none"
  <2>1. EventAt(level[e]) = "asserted" /\ objects[Entry(e)] \in {Absent, "recovered"}
    BY <1>7, <1>9 DEF EventAt
  <2>2. NewestEvent(e) \in {"none", "recovered"} /\ NewestEvent(e)' = "asserted"
    BY <1>3, <2>1, ManagerAssumption DEF NewestEvent
  <2>3. Board!Assert(e)
    BY <1>2, <1>6, <2>2 DEF Board!Assert, newestBar, shownBar, ShownHealth
  <2> QED
    BY <1>2, <2>3
<1> QED
  BY <1>8, <1>9

LEMMA ShowStep ==
  ControlOK /\ BoardOK /\ PublishSensor
    => \E s \in Sensors : Board!ShowHealth(s) \/ Board!ShowUnknown(s)
<1> SUFFICES ASSUME ControlOK, BoardOK, PublishSensor
             PROVE  \E s \in Sensors : Board!ShowHealth(s) \/ Board!ShowUnknown(s)
  OBVIOUS
<1>1. PICK h \in Sensors : h = Head(pending)
  BY Published
<1>2. /\ poll = "publish" /\ newEvents = {} /\ main \notin {"init", "discover"}
      /\ h \in Sensors /\ objects'[h] = sensors[h]
      /\ \A s \in Sensors : /\ s # h => objects'[s] = objects[s]
                            /\ objects'[Entry(s)] = objects[Entry(s)]
  BY <1>1, Published
<1>3. /\ objects[h] \in Shown /\ objects'[h] \in Shown /\ limits[h] \in Limits
      /\ objects'[h].health = HealthOf(h)
  BY <1>2 DEF ControlOK, SensorsOK, BoardOK, ObjectsOK, PublishOK
<1>4. /\ objects[Entry(h)] \in {Absent, "asserted", "recovered"}
      /\ objects[Entry(h)] = "asserted" <=> level[h] # "none"
  BY <1>2 DEF BoardOK, EventsOK
<1>5. /\ \A s \in Sensors : NewestEvent(s)' = NewestEvent(s)
      /\ \A s \in Sensors : s # h => ShownHealth(s)' = ShownHealth(s)
  BY <1>2 DEF NewestEvent, ShownHealth
<1>6. newestBar' = newestBar /\ shownBar' = [shownBar EXCEPT ![h] = ShownHealth(h)']
  <2>1. newestBar' = newestBar
    BY <1>5 DEF newestBar
  <2>2. shownBar' = [s \in Sensors |-> ShownHealth(s)']
    BY DEF shownBar, ShownHealth
  <2>3. shownBar' = [shownBar EXCEPT ![h] = ShownHealth(h)']
    BY <1>2, <1>5, <2>2 DEF shownBar, ShownHealth
  <2> QED
    BY <2>1, <2>3
<1>7. ShownHealth(h) # "absent"
  BY <1>3, ShownFacts DEF ShownHealth
<1>8. NewestEvent(h) = "asserted" <=> level[h] # "none"
  BY <1>4, ManagerAssumption DEF NewestEvent
<1>9. ShownHealth(h)' =
        IF sensors[h].state # "Enabled" THEN "unknown"
        ELSE IF NewestEvent(h) = "asserted" THEN "alarm" ELSE "OK"
  <2>1. ShownHealth(h)' = HealthShownBy(objects'[h])
    BY DEF ShownHealth
  <2>2. CASE sensors[h].state # "Enabled"
    BY <1>3, <2>1, <2>2, ShownFacts DEF HealthOf
  <2>3. CASE sensors[h].state = "Enabled" /\ level[h] = "none"
    <3>1. objects'[h].health = "OK"
      BY <1>3, <2>3, HealthFacts DEF HealthOf
    <3> QED
      BY <1>3, <1>8, <2>1, <2>3, <3>1, ShownFacts
  <2>4. CASE sensors[h].state = "Enabled" /\ level[h] # "none"
    <3>1. objects'[h].health \in Alarm
      BY <1>3, <2>4, HealthFacts DEF HealthOf
    <3> QED
      BY <1>3, <1>8, <2>1, <2>4, <3>1, ShownFacts
  <2> QED
    BY <2>2, <2>3, <2>4
<1>10. CASE sensors[h].state # "Enabled"
  <2>1. Board!ShowUnknown(h)
    BY <1>2, <1>6, <1>7, <1>9, <1>10 DEF Board!ShowUnknown, newestBar, shownBar, ShownHealth
  <2> QED
    BY <1>2, <2>1
<1>11. CASE sensors[h].state = "Enabled"
  <2>1. Board!ShowHealth(h)
    BY <1>2, <1>6, <1>7, <1>9, <1>11 DEF Board!ShowHealth, newestBar, shownBar, ShownHealth
  <2> QED
    BY <1>2, <2>1
<1> QED
  BY <1>10, <1>11

\* What clients see on D-Bus is an AlarmBoard: events alternate, and a published
\* health agrees with the newest event, for any sensors, limits and schedule.
THEOREM ManagerImplementsBoard == Spec => ImplementsBoard
<1>1. Init => Board!BoardInit
  BY BoardStarts
<1>2. ControlOK /\ BoardOK /\ [Next]_vars => [Board!BoardNext]_(Board!boardVars)
  <2> SUFFICES ASSUME ControlOK, BoardOK, [Next]_vars
               PROVE  Board!BoardNext \/ UNCHANGED Board!boardVars
    OBVIOUS
  <2>1. CASE Quiet \/ Discover \/ Evaluate
    <3>1. \A s \in Sensors : objects'[s] = objects[s] /\ objects'[Entry(s)] = objects[Entry(s)]
      BY <2>1 DEF Quiet, Discover, Evaluate, dbusVars
    <3>2. newestBar' = newestBar /\ shownBar' = shownBar
      BY <3>1, BoardUnchanged
    <3> QED
      BY <3>2 DEF Board!boardVars, newestBar, shownBar, ShownHealth
  <2>2. CASE Initialize
    BY <2>2, AppearStep DEF Board!BoardNext
  <2>3. CASE PublishEvent
    BY <2>3, EventStep DEF Board!BoardNext
  <2>4. CASE PublishSensor
    BY <2>4, ShowStep DEF Board!BoardNext
  <2> QED
    BY <2>1, <2>2, <2>3, <2>4, QuietSteps
<1> QED
  BY <1>1, <1>2, ManagerInvariant, PTL DEF Spec, ImplementsBoard, Board!BoardSpec

-----------------------------------------------------------------------------
(* The D-Bus server.                                                        *)

DbusOK == pendingAdds \subseteq Paths /\ pendingChanges \subseteq Paths /\ unannounced \subseteq Paths

\* Which steps reach the table.
LEMMA DbusSteps ==
  ASSUME [Next]_vars
  PROVE  \/ UNCHANGED dbusVars
         \/ main = "wait" /\ ProcessPending
         \/ Initialize
         \/ DbusFree /\ UpsertObject(PcieDevice, pcieStatus)
         \/ DbusFree /\ \E s \in newEvents : AddObject(Entry(s), EventAt(level[s]))
         \/ DbusFree /\ pending # <<>> /\ UpsertObject(Head(pending), sensors[Head(pending)])
<1>1. CASE Discover \/ Joined \/ EndDispatch \/ Stop
  BY <1>1 DEF Discover, Joined, EndDispatch, Stop
<1>2. CASE Process \/ ProcessCall
  BY <1>2 DEF Process, ProcessCall
<1>3. CASE ApplyToEndpoint \/ ProcessAnotherCall \/ LockForFault
  BY <1>3 DEF ApplyToEndpoint, ProcessAnotherCall, LockForFault
<1>4. CASE ApplyToDriver \/ SetEndpointFault \/ RecordFault
  BY <1>4, Zenon DEF ApplyToDriver, SetEndpointFault, RecordFault
<1>5. CASE Loop \/ Ask \/ Answer \/ HwmonFaultMode \/ HwmonRead \/ HwmonStore \/ Evaluate
             \/ Wait \/ Timer
  BY <1>5 DEF Loop, Ask, Answer, HwmonFaultMode, HwmonRead, HwmonStore, Evaluate, Wait, Timer
<1>6. CASE TelemetryPublish
  BY <1>6 DEF TelemetryPublish
<1>10. CASE TelemetryMode \/ TelemetryHealth
  BY <1>10 DEF TelemetryMode, TelemetryHealth
<1>7. CASE PublishEvent
  BY <1>7, Zenon DEF PublishEvent
<1>8. CASE PublishSensor
  BY <1>8 DEF PublishSensor
<1>9. CASE Done \/ UNCHANGED vars
  BY <1>9 DEF Done, vars
<1> QED
  BY <1>1, <1>2, <1>3, <1>4, <1>5, <1>6, <1>7, <1>8, <1>9, <1>10 DEF Next, Main, Poll

LEMMA DbusStep == ControlOK /\ DbusOK /\ [Next]_vars => DbusOK'
<1> SUFFICES ASSUME ControlOK, DbusOK, [Next]_vars PROVE DbusOK'
  OBVIOUS
<1> USE DEF DbusOK
<1>1. CASE UNCHANGED dbusVars
  BY <1>1 DEF dbusVars
<1>2. CASE ProcessPending
  BY <1>2 DEF ProcessPending
<1>3. CASE Initialize
  BY <1>3, PathFacts DEF Initialize
<1>4. ASSUME NEW path \in Paths, NEW properties,
             UpsertObject(path, properties) \/ AddObject(path, properties)
      PROVE  DbusOK'
  BY <1>4 DEF UpsertObject, AddObject, ChangeObject
<1>5. CASE UpsertObject(PcieDevice, pcieStatus)
  BY <1>4, <1>5, PathFacts
<1>6. CASE \E s \in newEvents : AddObject(Entry(s), EventAt(level[s]))
  <2>1. newEvents \subseteq Sensors
    BY DEF ControlOK, SensorsOK
  <2> QED
    BY <1>4, <1>6, <2>1, PathFacts
<1>7. CASE pending # <<>> /\ UpsertObject(Head(pending), sensors[Head(pending)])
  <2>1. Head(pending) \in Sensors
    BY <1>7, HeadTailProperties DEF ControlOK, PendingOK
  <2> QED
    BY <1>4, <1>7, <2>1, PathFacts
<1> QED
  BY <1>1, <1>2, <1>3, <1>5, <1>6, <1>7, DbusSteps

\* Every member keeps to the values the code gives it; whoever waits for a lock
\* or has ended holds none.
THEOREM ManagerTypeCorrect == Spec => []TypeOK
<1>1. Init => DbusOK
  BY DEF Init, DbusInit, DbusOK
<1>2. ControlOK /\ BoardOK /\ DbusOK => TypeOK
  <2> SUFFICES ASSUME ControlOK, BoardOK, DbusOK PROVE TypeOK
    OBVIOUS
  <2>1. \A s \in Sensors : /\ objects[s] = Absent \/ objects[s] \in Shown
                           /\ objects[Entry(s)] \in {Absent, "asserted", "recovered"}
    BY DEF BoardOK, StartOK, ObjectsOK, EventsOK
  <2>2. pendingAdds \cup pendingChanges \cup unannounced \subseteq Paths
    BY DEF DbusOK
  <2>3. stopping \in BOOLEAN /\ (stopping <=> main \in {"join", "done"})
    BY DEF ControlOK, StoppingOK
  <2>4. /\ call \in [target : Targets, fault : AllFaults \cup {"none"}, enabled : BOOLEAN]
        /\ calls \in 0..MaxCalls
        /\ injectedFaults \in [Targets -> AllFaults \cup {"none"}]
        /\ {endpointFault, hwmonFault, pcieFault} \subseteq AllFaults \cup {"none"}
    BY DEF ControlOK, CallOK, FaultsOK, AnyFault
  <2> QED
    BY <2>1, <2>2, <2>3, <2>4, Zenon
       DEF ControlOK, PlacesOK, PendingOK, FetchedOK, PcieOK, SensorsOK, TypeOK
<1> QED
  BY <1>1, <1>2, DbusStep, ManagerInvariant, PTL DEF Spec

\* When a change to an alarm is signalled, the event that explains it is exported.
THEOREM SignalledAlarmsHaveEntries == Spec => SignalledAlarmHasEntry
<1> DEFINE Explained ==
      \A s \in unannounced \ unannounced' :
        s \in Sensors /\ objects[s].health \in Alarm =>
          objects'[Entry(s)] # Absent /\ Entry(s) \notin pendingAdds'
<1>1. BoardOK /\ [Next]_vars => Explained
  <2> SUFFICES ASSUME BoardOK, [Next]_vars,
                      NEW s \in unannounced \ unannounced',
                      s \in Sensors, objects[s].health \in Alarm
               PROVE  objects'[Entry(s)] # Absent /\ Entry(s) \notin pendingAdds'
    OBVIOUS
  <2>1. main = "wait" /\ ProcessPending
    <3>1. UNCHANGED dbusVars => unannounced' = unannounced
      BY DEF dbusVars
    <3>2. Initialize => unannounced' = unannounced
      BY DEF Initialize
    <3>3. \A path, properties : UpsertObject(path, properties) \/ AddObject(path, properties)
            => unannounced \subseteq unannounced'
      BY DEF UpsertObject, AddObject, ChangeObject
    <3> QED
      BY <3>1, <3>2, <3>3, DbusSteps
  <2>2. objects[Entry(s)] # Absent
    BY <2>1 DEF BoardOK, ObjectsOK
  <2> QED
    BY <2>1, <2>2 DEF ProcessPending
<1>2. SignalledAlarmHasEntry <=> [][Explained]_vars
  BY PTL DEF SignalledAlarmHasEntry
<1> QED
  BY <1>1, <1>2, ManagerInvariant, PTL DEF Spec

\* A change that was not signalled is still queued to be, and no call is handled
\* while anything is queued: process() empties both queues and keeps its mutex for
\* the handlers (dbus_server.cpp:311 to 350).
NothingQueuedInHandler ==
  /\ unannounced \subseteq pendingChanges
  /\ main = "dispatch" \/ Handling => pendingAdds = {} /\ pendingChanges = {}

\* The main thread comes to handle calls only through process(), which publishes first.
LEMMA HandlerSteps ==
  ASSUME [Next]_vars, main' = "dispatch" \/ Handling'
  PROVE  main = "dispatch" \/ Handling \/ ProcessPending
<1> USE DEF Handling
<1>1. CASE Initialize \/ Discover \/ Process \/ Joined \/ EndDispatch \/ Stop
  BY <1>1, Zenon DEF Initialize, Discover, Process, Joined, EndDispatch, Stop
<1>2. CASE ProcessCall \/ ProcessAnotherCall
  BY <1>2, Zenon DEF ProcessCall, ProcessAnotherCall
<1>3. CASE ApplyToDriver \/ ApplyToEndpoint \/ LockForFault
  BY <1>3, Zenon DEF ApplyToDriver, ApplyToEndpoint, LockForFault
<1>4. CASE SetEndpointFault \/ RecordFault
  BY <1>4, Zenon DEF SetEndpointFault, RecordFault
<1>5. CASE Poll \/ Timer
  <2>1. main' = main
    BY <1>5, Zenon DEF Poll, Loop, Ask, Answer, TelemetryMode, TelemetryHealth, TelemetryPublish,
                HwmonFaultMode, HwmonRead, HwmonStore, Evaluate, PublishEvent, PublishSensor,
                Wait, Timer, PollUnchanged, mainVars
  <2> QED
    BY <2>1
<1>6. CASE Done \/ UNCHANGED vars
  BY <1>6 DEF Done, vars, mainVars
<1> QED
  BY <1>1, <1>2, <1>3, <1>4, <1>5, <1>6 DEF Next, Main

\* No change is dropped without its signal, and calls are handled on a table that is
\* published completely.
THEOREM HandlersFindNothingQueued == Spec => []NothingQueuedInHandler
<1> DEFINE Queues == NothingQueuedInHandler /\ unannounced \subseteq SensorPaths
<1>1. Init => Queues
  BY DEF Init, DbusInit, NothingQueuedInHandler, Handling
<1>2. Queues /\ [Next]_vars => Queues'
  <2> SUFFICES ASSUME Queues, [Next]_vars PROVE Queues'
    OBVIOUS
  <2>1. ASSUME UNCHANGED dbusVars PROVE Queues'
    <3>1. ProcessPending => pendingAdds' = {} /\ pendingChanges' = {}
      BY DEF ProcessPending
    <3> QED
      BY <2>1, <3>1, HandlerSteps DEF dbusVars, NothingQueuedInHandler
  <2>2. ASSUME ProcessPending PROVE Queues'
    <3>1. unannounced' = {}
      BY <2>2 DEF ProcessPending, Announced, NothingQueuedInHandler
    <3> QED
      BY <2>2, <3>1 DEF ProcessPending, NothingQueuedInHandler
  <2>3. ASSUME main # "dispatch", ~Handling, ~ProcessPending,
               unannounced' \subseteq pendingChanges' \cap SensorPaths
        PROVE  Queues'
    BY <2>3, HandlerSteps DEF NothingQueuedInHandler
  <2>4. ASSUME Initialize PROVE Queues'
    <3>1. main # "dispatch" /\ ~Handling
      BY <2>4 DEF Initialize, Handling
    <3>2. unannounced' \subseteq pendingChanges' \cap SensorPaths
      BY <2>4 DEF Initialize, NothingQueuedInHandler
    <3> QED
      BY <2>2, <2>3, <3>1, <3>2
  <2>5. ASSUME NEW path, NEW properties, DbusFree,
               UpsertObject(path, properties) \/ AddObject(path, properties)
        PROVE  Queues'
    <3>1. main # "dispatch" /\ ~Handling
      BY <2>5 DEF DbusFree
    <3>2. unannounced' \subseteq pendingChanges' \cap SensorPaths
      BY <2>5 DEF UpsertObject, AddObject, ChangeObject, NothingQueuedInHandler
    <3> QED
      BY <2>2, <2>3, <3>1, <3>2
  <2> QED
    BY <2>1, <2>2, <2>4, <2>5, DbusSteps
<1> QED
  BY <1>1, <1>2, PTL DEF Spec

\* Between two cycles the health of the whole is that of the worst alarm in the log,
\* of sensors that can be read, and of the PCIe device.
THEOREM AggregateAlwaysMatchesLog == Spec => []AggregateMatchesLog
<1>1. ControlOK /\ BoardOK => AggregateMatchesLog
  <2> SUFFICES ASSUME ControlOK, BoardOK, poll = "waiting" PROVE AggregateMatchesLog
    BY DEF AggregateMatchesLog
  <2> DEFINE found == {objects[p].health : p \in Listed}
             alarms == {limits[s].asserted : s \in {s \in Sensors :
                          objects[Entry(s)] = "asserted" /\ sensors[s].state = "Enabled"}}
             pcie == IF objects[PcieDevice] = Absent THEN {} ELSE {objects[PcieDevice].health}
  <2>1. ASSUME NEW s \in Sensors
        PROVE  /\ objects[s] # Absent /\ limits[s] \in Limits
               /\ objects[s] = sensors[s]
               /\ objects[s].health = HealthOf(s)
               /\ objects[Entry(s)] = "asserted" <=> level[s] # "none"
    <3>1. main # "init" /\ newEvents = {}
      BY DEF ControlOK, PlacesOK, BoardOK, EventsOK
    <3>2. objects[s] \in Shown
      BY <3>1 DEF BoardOK, ObjectsOK
    <3> QED
      BY <3>1, <3>2, ManagerAssumption DEF ControlOK, SensorsOK, BoardOK, RestOK, EventsOK
  <2>2. ASSUME NEW h \in Alarm, NEW s \in Sensors
        PROVE  objects[s].health = h <=> /\ objects[Entry(s)] = "asserted"
                                         /\ sensors[s].state = "Enabled"
                                         /\ limits[s].asserted = h
    BY <2>1, HealthFacts DEF HealthOf, Alarm
  <2>3. ASSUME NEW h \in Alarm
        PROVE  h \in found <=> h \in alarms \cup pcie
    <3>1. h \in found <=> \/ \E s \in Sensors : objects[s].health = h
                          \/ objects[PcieDevice] # Absent /\ objects[PcieDevice].health = h
      BY <2>1 DEF Listed
    <3>2. h \in alarms <=> \E s \in Sensors : /\ objects[Entry(s)] = "asserted"
                                              /\ sensors[s].state = "Enabled"
                                              /\ limits[s].asserted = h
      OBVIOUS
    <3>3. h \in pcie <=> objects[PcieDevice] # Absent /\ objects[PcieDevice].health = h
      OBVIOUS
    <3> HIDE DEF found, alarms, pcie
    <3> QED
      BY <2>2, <3>1, <3>2, <3>3
  <2>4. AggregateHealth = IF "Critical" \in found THEN "Critical"
                          ELSE IF "Warning" \in found THEN "Warning" ELSE "OK"
    BY DEF AggregateHealth
  <2>5. AggregateMatchesLog <=>
          \A h \in {"Critical", "Warning"} :
            AggregateHealth = h <=> /\ h \in alarms \cup pcie
                                    /\ h = "Warning" => "Critical" \notin alarms \cup pcie
    BY DEF AggregateMatchesLog
  <2> HIDE DEF found, alarms, pcie
  <2> QED
    BY <2>3, <2>4, <2>5 DEF Alarm
<1> QED
  BY <1>1, ManagerInvariant, PTL
=============================================================================
