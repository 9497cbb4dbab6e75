------------------------- MODULE SensorServiceProofs -------------------------
(***************************************************************************)
(* What the control loop keeps true for every profile, budget, noise and   *)
(* number of sessions.                                                     *)
(***************************************************************************)
EXTENDS SensorService, HardwareProofs

-----------------------------------------------------------------------------
(* The policies depend on the parts of a snapshot they read only.            *)

\* The fan policy asks for one of three PWM values, which no clamp changes.
LEMMA PolicyRange ==
  ASSUME NEW s
  PROVE  FanPolicy(s) \in {40, 70, 100} /\ Clamp(FanPolicy(s), 0, 100) = FanPolicy(s)
BY DEF FanPolicy, Clamp

\* The thermal policy reads nothing of a snapshot but GPU temperatures.
LEMMA SameTemps ==
  ASSUME NEW s, NEW t, \A g \in Gpus : s.gpu[g].temp = t.gpu[g].temp
  PROVE  FanPolicy(s) = FanPolicy(t) /\ OverTemp(s) = OverTemp(t)
<1>1. {s.gpu[g].temp : g \in Gpus} = {t.gpu[g].temp : g \in Gpus}
  OBVIOUS
<1>2. MaxGpuTemp(s) = MaxGpuTemp(t)
  BY <1>1 DEF MaxGpuTemp
<1> QED
  BY <1>2 DEF FanPolicy, OverTemp

\* HealthMonitor reads nothing but fans, PSUs and NVMes.
LEMMA SameFaults ==
  ASSUME NEW s, NEW t, s.fan = t.fan, s.psu = t.psu, s.nvme = t.nvme
  PROVE  Faulty(s) = Faulty(t)
BY DEF Faulty

\* System power depends on GPU power, fans, PWM and NVMes.
LEMMA SamePower ==
  ASSUME NEW s, NEW t, \A g \in Gpus : s.gpu[g].power = t.gpu[g].power,
         s.fan = t.fan, s.pwm = t.pwm, s.nvme = t.nvme
  PROVE  SystemPower(s) = SystemPower(t)
<1>1. [g \in Gpus |-> s.gpu[g].power] = [g \in Gpus |-> t.gpu[g].power]
  OBVIOUS
<1>2. GpuPower(s.gpu) = GpuPower(t.gpu)
  BY <1>1 DEF GpuPower
<1> QED
  BY <1>2 DEF SystemPower

\* The budget verdict of the power policy.
LEMMA ReportBoolean ==
  ASSUME NEW s
  PROVE  /\ PowerReport(s).budgetExceeded \in BOOLEAN
         /\ PowerReport(s).budgetExceeded <=> SystemPower(s) > Budget
<1> DEFINE over == SystemPower(s) > Budget
<1>1. over \in BOOLEAN
  OBVIOUS
<1>2. PowerReport(s).budgetExceeded = over
  BY DEF PowerReport
<1> HIDE DEF over
<1>3. PowerReport(s).budgetExceeded \in BOOLEAN /\ (PowerReport(s).budgetExceeded <=> over)
  BY <1>1, <1>2
<1> QED
  BY <1>3 DEF over

-----------------------------------------------------------------------------
(* The service drives the hardware through its methods only.                 *)

\* Every step of the service is a method of HardwareModel or leaves it alone.
LEMMA NextIsHardwareStep == [Next]_vars => [HardwareStep]_hwVars
<1> SUFFICES ASSUME [Next]_vars PROVE [HardwareStep]_hwVars
  OBVIOUS
<1>1. CASE UNCHANGED vars
  BY <1>1 DEF vars, hwVars
<1>2. CASE Tick
  BY <1>2 DEF Tick, HardwareStep
<1>3. CASE EvaluateHealth
  BY <1>3 DEF EvaluateHealth
<1>4. CASE EvaluateThermal
  <2>1. FanPolicy(view) \in 0..100
    BY PolicyRange
  <2> QED
    BY <1>4, <2>1 DEF EvaluateThermal, HardwareStep
<1>5. CASE Resnapshot
  BY <1>5 DEF Resnapshot
<1>6. CASE StoreTelemetry
  BY <1>6 DEF StoreTelemetry, HardwareStep, UpdatePowerTelemetry
<1>7. CASE ApplyPowerCap
  <2>1. PowerReport(view).budgetExceeded \in BOOLEAN
    BY ReportBoolean
  <2> QED
    BY <1>7, <2>1 DEF ApplyPowerCap, HardwareStep
<1>8. CASE CheckLoop \/ PollTimeout
  BY <1>8 DEF CheckLoop, PollTimeout
<1>9. ASSUME NEW c \in Sessions, Session(c) PROVE [HardwareStep]_hwVars
  BY <1>9 DEF Session, ChangeHardware, RequestCycle, NotifyWorker, HardwareStep
<1>10. CASE StartService \/ MainProgress \/ StopService
  BY <1>10 DEF StartService, MainProgress, RequestFirst, NotifyFirst, RequestLast,
               NotifyLast, JoinWorker, StopService
<1>11. CASE Stopped
  BY <1>11, <1>1 DEF Stopped
<1> QED
  BY <1>1, <1>2, <1>3, <1>4, <1>5, <1>6, <1>7, <1>8, <1>9, <1>10, <1>11
     DEF Next, Worker, Cycle

\* The control loop implements the hardware model's specification: it is one of
\* the callers HardwareSpec allows.
THEOREM ServiceImplementsHardware == Spec => HardwareSpec
<1>1. Init => HardwareInit
  BY DEF Init
<1>2. [Next]_vars => [HardwareStep]_hwVars
  BY NextIsHardwareStep
<1> QED
  BY <1>1, <1>2, PTL DEF Spec, HardwareSpec

\* So everything the hardware model keeps true holds in the service.
THEOREM HardwareStaysConsistent == Spec => []HardwareConsistent
BY ServiceImplementsHardware, HardwareCorrect, PTL

-----------------------------------------------------------------------------
(* Who runs when.                                                           *)

\* Between the start of the worker and the flag that ends it.
ServiceUp == main \in {"spawned", "kick", "serving"}

ControlOK ==
  /\ session \in [Sessions -> {"new", "changed", "requested", "done"}]
  /\ running \in BOOLEAN
  /\ immediateRequested \in BOOLEAN
  /\ worker \in InCycle \cup {"absent", "loop", "asleep", "exited"}
  /\ main \in {"off", "spawned", "kick", "serving", "stopping", "notifying",
               "joining", "stopped"}
  /\ worker = "absent" <=> main = "off"
  /\ running <=> ServiceUp

\* Threads move through their places only: running_ is set exactly while the main
\* thread has started the service and not begun to stop it, and the worker exists
\* once the service was started.
LEMMA NextControl == ControlOK /\ [Next]_vars => ControlOK'
<1> SUFFICES ASSUME ControlOK, [Next]_vars PROVE ControlOK'
  OBVIOUS
<1> USE DEF ControlOK, InCycle, ServiceUp, control
<1>1. CASE UNCHANGED vars
  BY <1>1 DEF vars
<1>2. CASE Cycle
  BY <1>2 DEF Cycle, Tick, EvaluateHealth, EvaluateThermal, Resnapshot, StoreTelemetry,
              ApplyPowerCap
<1>3. CASE CheckLoop
  BY <1>3 DEF CheckLoop, StartCycle
<1>4. CASE PollTimeout
  BY <1>4 DEF PollTimeout, StartCycle
<1>5. ASSUME NEW c \in Sessions, Session(c) PROVE ControlOK'
  <2>1. CASE ChangeHardware(c)
    BY <2>1 DEF ChangeHardware, GotoS
  <2>2. CASE RequestCycle(c)
    BY <2>2 DEF RequestCycle, GotoS, SetImmediate
  <2>3. CASE NotifyWorker(c)
    BY <2>3 DEF NotifyWorker, GotoS, NotifyAll
  <2> QED
    BY <1>5, <2>1, <2>2, <2>3 DEF Session
<1>6. CASE StartService
  BY <1>6 DEF StartService
<1>7. CASE MainProgress
  <2>1. CASE RequestFirst
    BY <2>1 DEF RequestFirst, SetImmediate
  <2>4. CASE RequestLast
    <3>1. main = "stopping" /\ main' = "notifying" /\ immediateRequested' = TRUE
      BY <2>4 DEF RequestLast, SetImmediate
    <3>2. session' = session /\ running' = running /\ worker' = worker
      BY <2>4 DEF RequestLast
    <3> QED
      BY <3>1, <3>2
  <2>2. CASE NotifyFirst \/ NotifyLast
    BY <2>2 DEF NotifyFirst, NotifyLast, NotifyAll
  <2>3. CASE JoinWorker
    BY <2>3 DEF JoinWorker
  <2> QED
    BY <1>7, <2>1, <2>2, <2>3, <2>4 DEF MainProgress
<1>8. CASE StopService
  BY <1>8 DEF StopService
<1>9. CASE Stopped
  BY <1>9, <1>1 DEF Stopped
<1> QED
  BY <1>1, <1>2, <1>3, <1>4, <1>5, <1>6, <1>7, <1>8, <1>9 DEF Next, Worker

\* ... in every reachable state.
LEMMA ControlInvariant == Spec => []ControlOK
<1>1. Init => ControlOK
  BY DEF Init, ControlOK, ServiceUp
<1> QED
  BY <1>1, NextControl, PTL DEF Spec

-----------------------------------------------------------------------------
(* Types.                                                                   *)

\* The part of the type invariant that is neither hardware nor control.
PolicyTypes ==
  /\ worker \notin {"thermal", "resnapshot", "telemetry", "cap"} => view = NoSnapshot
  /\ overTempLatched \subseteq Gpus
  /\ faultLatched \subseteq Monitored
  /\ budgetLatched \in BOOLEAN
  /\ severity \in [Gpus -> {"none", "Warning", "Critical"}]

\* Every step keeps the latches to devices they watch, and drops the snapshot
\* with the end of the cycle.
LEMMA NextPolicyTypes == ControlOK /\ PolicyTypes /\ [Next]_vars => PolicyTypes'
<1> SUFFICES ASSUME ControlOK, PolicyTypes, [Next]_vars PROVE PolicyTypes'
  OBVIOUS
<1> USE DEF PolicyTypes, control, latches, history
<1>1. CASE UNCHANGED vars
  BY <1>1 DEF vars
<1>2. CASE Tick \/ Resnapshot \/ StoreTelemetry
  BY <1>2 DEF Tick, Resnapshot, StoreTelemetry
<1>3. CASE EvaluateHealth
  BY <1>3 DEF EvaluateHealth, KeepLatched, Faulty, Monitored
<1>4. CASE EvaluateThermal
  BY <1>4 DEF EvaluateThermal, OverTemp
<1>5. CASE ApplyPowerCap
  BY <1>5, ReportBoolean DEF ApplyPowerCap
<1>6. CASE CheckLoop
  BY <1>6 DEF CheckLoop, StartCycle
<1>7. CASE PollTimeout
  BY <1>7 DEF PollTimeout, StartCycle
<1>8. ASSUME NEW c \in Sessions, Session(c) PROVE PolicyTypes'
  BY <1>8 DEF Session, ChangeHardware, RequestCycle, NotifyWorker, NotifyAll
<1>9. CASE StartService
  BY <1>9 DEF StartService, ControlOK
<1>10. CASE RequestFirst \/ RequestLast \/ StopService \/ JoinWorker
  BY <1>10 DEF RequestFirst, RequestLast, StopService, JoinWorker
<1>11. CASE NotifyFirst \/ NotifyLast
  BY <1>11 DEF NotifyFirst, NotifyLast, NotifyAll
<1>12. CASE Stopped
  BY <1>12, <1>1 DEF Stopped
<1> QED
  BY <1>1, <1>2, <1>3, <1>4, <1>5, <1>6, <1>7, <1>8, <1>9, <1>10, <1>11, <1>12
     DEF Next, Worker, Cycle, MainProgress

\* Type correctness of the service, hardware included.
THEOREM ServiceTypeCorrect == Spec => []TypeOK
<1>1. Init => PolicyTypes
  BY DEF Init, PolicyTypes
<1>2. HardwareTypeOK /\ ControlOK /\ PolicyTypes => TypeOK
  BY DEF ControlOK, PolicyTypes, TypeOK
<1> QED
  BY <1>1, <1>2, NextPolicyTypes, ControlInvariant, ServiceImplementsHardware,
     HardwareCorrect, PTL DEF Spec

-----------------------------------------------------------------------------
(* No wake-up is lost.                                                      *)

\* Who clears the way for a sleep has notified first.
LEMMA NextWakeup == ControlOK /\ WakeupNotLost /\ [Next]_vars => WakeupNotLost'
<1> SUFFICES ASSUME ControlOK, WakeupNotLost, [Next]_vars PROVE WakeupNotLost'
  OBVIOUS
<1> USE DEF WakeupNotLost, ControlOK, ServiceUp, control
<1>1. CASE UNCHANGED vars
  BY <1>1 DEF vars
<1>2. CASE Cycle
  BY <1>2 DEF Cycle, Tick, EvaluateHealth, EvaluateThermal, Resnapshot, StoreTelemetry,
              ApplyPowerCap
<1>3. CASE CheckLoop
  BY <1>3 DEF CheckLoop, StartCycle
<1>4. CASE PollTimeout
  BY <1>4 DEF PollTimeout, StartCycle
<1>5. ASSUME NEW c \in Sessions, Session(c) PROVE WakeupNotLost'
  <2>1. CASE ChangeHardware(c)
    BY <2>1 DEF ChangeHardware, GotoS
  <2>2. CASE RequestCycle(c)
    BY <2>2 DEF RequestCycle, GotoS, SetImmediate
  <2>3. CASE NotifyWorker(c)
    BY <2>3 DEF NotifyWorker, GotoS, NotifyAll
  <2> QED
    BY <1>5, <2>1, <2>2, <2>3 DEF Session
<1>6. CASE StartService
  BY <1>6 DEF StartService
<1>7. CASE MainProgress
  BY <1>7 DEF MainProgress, RequestFirst, NotifyFirst, RequestLast, NotifyLast, JoinWorker,
              SetImmediate, NotifyAll
<1>8. CASE StopService
  BY <1>8 DEF StopService
<1>9. CASE Stopped
  BY <1>9, <1>1 DEF Stopped
<1> QED
  BY <1>1, <1>2, <1>3, <1>4, <1>5, <1>6, <1>7, <1>8, <1>9 DEF Next, Worker

\* The worker never sleeps on a request, or on the end of the service, that
\* nobody is still going to tell it about.
THEOREM WakeupNeverLost == Spec => []WakeupNotLost
<1>1. Init => WakeupNotLost
  BY DEF Init, WakeupNotLost
<1> QED
  BY <1>1, NextWakeup, ControlInvariant, PTL DEF Spec

-----------------------------------------------------------------------------
(* The published telemetry and the cap.                                     *)

\* No fault request touches the cap or the telemetry, not even the clearing.
LEMMA FaultsLeaveCap ==
  /\ \A g \in Gpus : InjectGpuOverTemp(g) => powerCap' = powerCap /\ telemetry' = telemetry
  /\ \A f \in Fans : InjectFanFailure(f) => powerCap' = powerCap /\ telemetry' = telemetry
  /\ \A p \in Psus : InjectPsuFailure(p) => powerCap' = powerCap /\ telemetry' = telemetry
  /\ \A n \in Nvmes : InjectNvmeFault(n) => powerCap' = powerCap /\ telemetry' = telemetry
  /\ ClearFaults => powerCap' = powerCap /\ telemetry' = telemetry
<1>1. \A g \in Gpus : InjectGpuOverTemp(g) => powerCap' = powerCap /\ telemetry' = telemetry
  BY DEF InjectGpuOverTemp
<1>2. \A f \in Fans : InjectFanFailure(f) => powerCap' = powerCap /\ telemetry' = telemetry
  BY DEF InjectFanFailure
<1>3. \A p \in Psus : InjectPsuFailure(p) => powerCap' = powerCap /\ telemetry' = telemetry
  BY DEF InjectPsuFailure
<1>4. \A n \in Nvmes : InjectNvmeFault(n) => powerCap' = powerCap /\ telemetry' = telemetry
  BY DEF InjectNvmeFault
<1>5. ClearFaults => powerCap' = powerCap /\ telemetry' = telemetry
  BY DEF ClearFaults
<1> QED
  BY <1>1, <1>2, <1>3, <1>4, <1>5

CapInvariant ==
  /\ CapMatchesTelemetry
  /\ worker = "cap" => telemetry.budgetExceeded = PowerReport(view).budgetExceeded

\* Every step keeps cap and telemetry together, but for the call in between.
LEMMA NextCap == ControlOK /\ CapInvariant /\ [Next]_vars => CapInvariant'
<1> SUFFICES ASSUME ControlOK, CapInvariant, [Next]_vars PROVE CapInvariant'
  OBVIOUS
<1> USE DEF CapInvariant, CapMatchesTelemetry, ControlOK, control, hwVars
<1>1. CASE UNCHANGED vars
  BY <1>1 DEF vars
<1>2. CASE Tick
  BY <1>2 DEF Tick, SimulateSensorTick
<1>3. CASE EvaluateHealth
  BY <1>3 DEF EvaluateHealth
<1>4. CASE EvaluateThermal
  BY <1>4 DEF EvaluateThermal, SetAllFanPwm
<1>5. CASE Resnapshot
  BY <1>5 DEF Resnapshot
<1>6. CASE StoreTelemetry
  BY <1>6 DEF StoreTelemetry, UpdatePowerTelemetry
<1>7. CASE ApplyPowerCap
  BY <1>7 DEF ApplyPowerCap, SetPowerCapActive
<1>8. CASE CheckLoop \/ PollTimeout
  BY <1>8 DEF CheckLoop, PollTimeout, StartCycle
<1>9. ASSUME NEW c \in Sessions, Session(c) PROVE CapInvariant'
  <2>1. CASE ChangeHardware(c)
    <3>1. worker' = worker /\ view' = view /\ powerCap' = powerCap /\ telemetry' = telemetry
      BY <2>1, FaultsLeaveCap DEF ChangeHardware
    <3> QED
      BY <3>1
  <2>2. CASE RequestCycle(c)
    BY <2>2 DEF RequestCycle
  <2>3. CASE NotifyWorker(c)
    BY <2>3 DEF NotifyWorker, NotifyAll
  <2> QED
    BY <1>9, <2>1, <2>2, <2>3 DEF Session
<1>10. CASE StartService \/ StopService
  BY <1>10 DEF StartService, StopService
<1>11. CASE MainProgress
  BY <1>11 DEF MainProgress, RequestFirst, NotifyFirst, RequestLast, NotifyLast, JoinWorker,
               NotifyAll
<1>12. CASE Stopped
  BY <1>12, <1>1 DEF Stopped
<1> QED
  BY <1>1, <1>2, <1>3, <1>4, <1>5, <1>6, <1>7, <1>8, <1>9, <1>10, <1>11, <1>12
     DEF Next, Worker, Cycle

\* Whatever sessions inject or clear, the cap in force is the one the published
\* telemetry reports, except between the two calls that write them.
THEOREM CapAlwaysMatches == Spec => []CapMatchesTelemetry
<1>1. Init => CapInvariant
  <2> SUFFICES ASSUME Init PROVE CapInvariant
    OBVIOUS
  <2>1. worker = "absent" /\ powerCap = FALSE
    BY DEF Init, HardwareInit
  <2>2. telemetry.budgetExceeded = FALSE
    BY DEF Init, HardwareInit, NoTelemetry
  <2> QED
    BY <2>1, <2>2 DEF CapInvariant, CapMatchesTelemetry
<1>2. CapInvariant => CapMatchesTelemetry
  BY DEF CapInvariant
<1> QED
  BY <1>1, <1>2, NextCap, ControlInvariant, PTL DEF Spec

-----------------------------------------------------------------------------
(* At most one event each time a device turns faulty.                       *)

\* A device has at most one event to come, and has it whenever it is faulty
\* and not latched: then the next cycle logs the event and pays the debt.
EventsInvariant ==
  /\ owed \in [Monitored -> {0, 1}]
  /\ \A d \in Faulty(Snapshot) \ faultLatched : owed[d] = 1

\* Only monitored devices are ever reported.
LEMMA FaultyMonitored == Faulty(Snapshot) \subseteq Monitored
BY DEF Faulty, Monitored, Snapshot

\* A step that leaves fans, PSUs and NVMes alone leaves the debts alone.
LEMMA SameDebts ==
  ASSUME EventsInvariant, UNCHANGED <<fan, psu, nvme, faultLatched, owed>>
  PROVE  EventsInvariant'
<1>1. Snapshot'.fan = Snapshot.fan /\ Snapshot'.psu = Snapshot.psu /\ Snapshot'.nvme = Snapshot.nvme
  BY DEF Snapshot
<1>2. Faulty(Snapshot') = Faulty(Snapshot)
  BY <1>1, SameFaults
<1>3. Faulty(Snapshot)' = Faulty(Snapshot)
  BY <1>2 DEF Faulty
<1> QED
  BY <1>3 DEF EventsInvariant

\* A device that turns faulty gets its debt with the same step.
LEMMA RecordKeeps ==
  ASSUME EventsInvariant, RecordOwed, UNCHANGED faultLatched
  PROVE  EventsInvariant'
<1> DEFINE now == Faulty(Snapshot)
           then == Faulty(Snapshot)'
<1>1. owed' = [d \in Monitored |-> IF d \in then \ now THEN 1
                                  ELSE IF d \in then THEN owed[d] ELSE 0]
  BY DEF RecordOwed
<1>2. then \subseteq Monitored
  BY FaultyMonitored DEF Faulty, Monitored, Snapshot
<1>3. owed \in [Monitored -> {0, 1}] /\ \A d \in now \ faultLatched : owed[d] = 1
  BY DEF EventsInvariant
<1> HIDE DEF now, then
<1>4. owed' \in [Monitored -> {0, 1}]
  BY <1>1, <1>3
<1>5. \A d \in then \ faultLatched : owed'[d] = 1
  BY <1>1, <1>2, <1>3
<1> QED
  BY <1>4, <1>5 DEF EventsInvariant, then

\* The debts hold across every step.
LEMMA NextEvents == EventsInvariant /\ [Next]_vars => EventsInvariant'
<1> SUFFICES ASSUME EventsInvariant, [Next]_vars PROVE EventsInvariant'
  OBVIOUS
<1> USE DEF control, hwVars, history, latches
<1>1. CASE UNCHANGED vars
  BY <1>1, SameDebts DEF vars
<1>2. CASE Tick
  BY <1>2, RecordKeeps DEF Tick
<1>3. CASE EvaluateHealth
  <2> DEFINE now == Faulty(Snapshot)
  <2>1. /\ faultLatched' = now
        /\ owed' = [d \in Monitored |-> owed[d] - IF d \in now \ faultLatched THEN 1 ELSE 0]
    BY <1>3 DEF EvaluateHealth, KeepLatched
  <2>2. Faulty(Snapshot)' = now
    BY <1>3 DEF EvaluateHealth, Faulty, Snapshot
  <2>3. owed \in [Monitored -> {0, 1}] /\ \A d \in now \ faultLatched : owed[d] = 1
    BY DEF EventsInvariant
  <2> HIDE DEF now
  <2>4. owed' \in [Monitored -> {0, 1}]
    BY <2>1, <2>3
  <2> QED
    BY <2>1, <2>2, <2>4 DEF EventsInvariant
<1>4. CASE EvaluateThermal
  BY <1>4, SameDebts DEF EvaluateThermal, SetAllFanPwm
<1>5. CASE Resnapshot
  BY <1>5, SameDebts DEF Resnapshot
<1>6. CASE StoreTelemetry
  BY <1>6, SameDebts DEF StoreTelemetry, UpdatePowerTelemetry
<1>7. CASE ApplyPowerCap
  BY <1>7, SameDebts DEF ApplyPowerCap, SetPowerCapActive
<1>8. CASE CheckLoop
  BY <1>8, SameDebts DEF CheckLoop
<1>9. CASE PollTimeout
  BY <1>9, SameDebts DEF PollTimeout
<1>10. ASSUME NEW c \in Sessions, Session(c) PROVE EventsInvariant'
  <2>1. CASE ChangeHardware(c)
    BY <2>1, RecordKeeps DEF ChangeHardware
  <2>2. CASE RequestCycle(c)
    BY <2>2, SameDebts DEF RequestCycle
  <2>3. CASE NotifyWorker(c)
    BY <2>3, SameDebts DEF NotifyWorker
  <2> QED
    BY <1>10, <2>1, <2>2, <2>3 DEF Session
<1>11. CASE StartService \/ StopService
  BY <1>11, SameDebts DEF StartService, StopService
<1>12. CASE MainProgress
  BY <1>12, SameDebts DEF MainProgress, RequestFirst, NotifyFirst, RequestLast, NotifyLast,
                          JoinWorker
<1>13. CASE Stopped
  BY <1>13, <1>1 DEF Stopped
<1> QED
  BY <1>1, <1>2, <1>3, <1>4, <1>5, <1>6, <1>7, <1>8, <1>9, <1>10, <1>11, <1>12, <1>13
     DEF Next, Worker, Cycle

\* However cycles and sessions interleave, no device is reported more often
\* than it turned faulty.
THEOREM NeverSpurious == Spec => []NoSpuriousReport
<1>1. Init => EventsInvariant
  <2> SUFFICES ASSUME Init PROVE EventsInvariant
    OBVIOUS
  <2> DEFINE now == Faulty(Snapshot)
  <2>1. owed = [d \in Monitored |-> IF d \in now THEN 1 ELSE 0]
    BY DEF Init
  <2>2. now \subseteq Monitored
    BY FaultyMonitored
  <2> HIDE DEF now
  <2>3. owed \in [Monitored -> {0, 1}] /\ \A d \in now : owed[d] = 1
    BY <2>1, <2>2
  <2> QED
    BY <2>3 DEF EventsInvariant, now
<1>2. EventsInvariant => NoSpuriousReport
  BY DEF EventsInvariant, NoSpuriousReport
<1> QED
  BY <1>1, <1>2, NextEvents, PTL DEF Spec

-----------------------------------------------------------------------------
(* The worker goes to sleep on a settled system only.                       *)

\* No request is pending, and no session is between its change and its request.
Calm == ~immediateRequested /\ \A c \in Sessions : session[c] # "changed"

\* What the cycle in progress has achieved, as long as nobody disturbs it: the
\* part of Settled that each call establishes, at every later place of the
\* cycle.  A disturbance ends Calm, and only a new cycle restores it.
CycleInvariant ==
  Calm =>
    /\ worker \in {"thermal", "resnapshot", "telemetry", "cap", "loop", "asleep"} =>
         faultLatched = Faulty(Snapshot)
    /\ worker \in {"thermal", "telemetry", "cap"} => view = Snapshot
    /\ worker \in {"resnapshot", "telemetry", "cap", "loop", "asleep"} =>
         pwm = FanPolicy(Snapshot) /\ overTempLatched = OverTemp(Snapshot)
    /\ worker \in {"loop", "asleep"} =>
         (powerCap <=> SystemPower(Snapshot) > Budget) /\ budgetLatched = powerCap

\* What the calls below change of a snapshot, they change after its policy.
LEMMA SameSnapshot ==
  ASSUME UNCHANGED <<gpu, fan, pwm, psu, supply, nvme>>
  PROVE  Snapshot' = Snapshot
BY DEF Snapshot

\* The thermal call sets the PWM of the snapshot it was given, which no PWM changes.
LEMMA ThermalSettles ==
  ASSUME CycleInvariant, EvaluateThermal
  PROVE  CycleInvariant'
<1> SUFFICES ASSUME Calm PROVE CycleInvariant'
  BY DEF EvaluateThermal, Calm, CycleInvariant, control
<1>1. view = Snapshot /\ faultLatched = Faulty(Snapshot)
  BY DEF CycleInvariant, EvaluateThermal
<1>2. /\ FanPolicy(Snapshot') = FanPolicy(Snapshot)
      /\ OverTemp(Snapshot') = OverTemp(Snapshot)
  <2>1. \A g \in Gpus : Snapshot'.gpu[g].temp = Snapshot.gpu[g].temp
    BY DEF EvaluateThermal, SetAllFanPwm, Snapshot
  <2> QED
    BY <2>1, SameTemps
<1>3. Faulty(Snapshot') = Faulty(Snapshot)
  <2>1. /\ Snapshot'.fan = Snapshot.fan
        /\ Snapshot'.psu = Snapshot.psu
        /\ Snapshot'.nvme = Snapshot.nvme
    BY DEF EvaluateThermal, SetAllFanPwm, Snapshot
  <2> QED
    BY <2>1, SameFaults
<1>4. pwm' = FanPolicy(Snapshot) /\ overTempLatched' = OverTemp(Snapshot)
  BY <1>1, PolicyRange DEF EvaluateThermal, SetAllFanPwm
<1>5. worker' = "resnapshot" /\ faultLatched' = faultLatched
  BY DEF EvaluateThermal
<1>6. /\ FanPolicy(Snapshot)' = FanPolicy(Snapshot')
      /\ OverTemp(Snapshot)' = OverTemp(Snapshot')
      /\ Faulty(Snapshot)' = Faulty(Snapshot')
  BY DEF FanPolicy, MaxGpuTemp, OverTemp, Faulty
<1> QED
  BY <1>1, <1>2, <1>3, <1>4, <1>5, <1>6 DEF CycleInvariant

\* The cap changes who is throttled, and neither temperature nor power before
\* the next tick.
LEMMA CapSettles ==
  ASSUME HardwareInv, CycleInvariant, ApplyPowerCap
  PROVE  CycleInvariant'
<1> SUFFICES ASSUME Calm PROVE CycleInvariant'
  BY DEF ApplyPowerCap, Calm, CycleInvariant, control
<1> DEFINE report == PowerReport(view).budgetExceeded
<1>1. /\ view = Snapshot
      /\ faultLatched = Faulty(Snapshot)
      /\ pwm = FanPolicy(Snapshot)
      /\ overTempLatched = OverTemp(Snapshot)
  BY DEF CycleInvariant, ApplyPowerCap
<1>2. report \in BOOLEAN /\ (report <=> SystemPower(Snapshot) > Budget)
  BY <1>1, ReportBoolean
<1>3. gpu \in [Gpus -> GpuRecord] /\ gpu' = RefreshThrottle(gpu, report)
  BY DEF HardwareInv, GpusFine, ApplyPowerCap, SetPowerCapActive
<1>4. worker' = "loop" /\ powerCap' = report /\ budgetLatched' = report
  BY DEF ApplyPowerCap, SetPowerCapActive
<1>5. UNCHANGED <<fan, pwm, psu, nvme, faultLatched, overTempLatched>>
  BY DEF ApplyPowerCap, SetPowerCapActive
<1> HIDE DEF report
<1>6. \A g \in Gpus : gpu'[g].temp = gpu[g].temp /\ gpu'[g].power = gpu[g].power
  BY <1>2, <1>3, ThrottleRefreshed
<1>7. /\ \A g \in Gpus : /\ Snapshot'.gpu[g].temp = Snapshot.gpu[g].temp
                         /\ Snapshot'.gpu[g].power = Snapshot.gpu[g].power
      /\ Snapshot'.fan = Snapshot.fan /\ Snapshot'.psu = Snapshot.psu
      /\ Snapshot'.nvme = Snapshot.nvme /\ Snapshot'.pwm = Snapshot.pwm
  BY <1>5, <1>6 DEF Snapshot
<1>8. /\ FanPolicy(Snapshot') = FanPolicy(Snapshot)
      /\ OverTemp(Snapshot') = OverTemp(Snapshot)
  BY <1>7, SameTemps
<1>9. Faulty(Snapshot') = Faulty(Snapshot)
  BY <1>7, SameFaults
<1>10. SystemPower(Snapshot') = SystemPower(Snapshot)
  BY <1>7, SamePower
<1>11. /\ FanPolicy(Snapshot)' = FanPolicy(Snapshot')
       /\ OverTemp(Snapshot)' = OverTemp(Snapshot')
       /\ Faulty(Snapshot)' = Faulty(Snapshot')
       /\ SystemPower(Snapshot)' = SystemPower(Snapshot')
  OBVIOUS
<1>12. (powerCap' <=> SystemPower(Snapshot') > Budget) /\ budgetLatched' = powerCap'
  BY <1>2, <1>4, <1>10
<1> QED
  BY <1>1, <1>4, <1>5, <1>8, <1>9, <1>11, <1>12 DEF CycleInvariant

\* A step that moves nobody and touches no hardware keeps what was achieved.
LEMMA QuietStep ==
  ASSUME CycleInvariant,
         UNCHANGED <<gpu, fan, pwm, psu, supply, nvme, powerCap, latches>>,
         worker' = worker \/ worker' \in {"tick", "health", "exited"}
           \/ {worker, worker'} = {"loop", "asleep"},
         view' = view,
         Calm' => Calm
  PROVE  CycleInvariant'
<1>1. Snapshot' = Snapshot
  BY SameSnapshot
<1>2. /\ FanPolicy(Snapshot)' = FanPolicy(Snapshot)
      /\ OverTemp(Snapshot)' = OverTemp(Snapshot)
      /\ Faulty(Snapshot)' = Faulty(Snapshot)
      /\ SystemPower(Snapshot)' = SystemPower(Snapshot)
  BY <1>1
<1> QED
  BY <1>1, <1>2 DEF CycleInvariant, latches

\* Each call of a cycle establishes its part, and every disturbance ends Calm.
LEMMA NextCycle ==
  HardwareInv /\ ControlOK /\ CycleInvariant /\ [Next]_vars => CycleInvariant'
<1> SUFFICES ASSUME HardwareInv, ControlOK, CycleInvariant, [Next]_vars PROVE CycleInvariant'
  OBVIOUS
<1> USE DEF control, hwVars, latches
<1>1. CASE UNCHANGED vars
  BY <1>1, QuietStep DEF vars, Calm
<1>2. CASE Tick
  BY <1>2 DEF Tick, CycleInvariant
<1>3. CASE EvaluateHealth
  <2>1. Snapshot' = Snapshot
    BY <1>3, SameSnapshot DEF EvaluateHealth
  <2>2. Faulty(Snapshot)' = Faulty(Snapshot)
    BY <2>1
  <2>3. worker' = "thermal" /\ view' = Snapshot /\ faultLatched' = Faulty(Snapshot)
    BY <1>3 DEF EvaluateHealth, KeepLatched
  <2> QED
    BY <2>1, <2>2, <2>3 DEF CycleInvariant
<1>4. CASE EvaluateThermal
  BY <1>4, ThermalSettles
<1>5. CASE Resnapshot
  <2>1. Snapshot' = Snapshot
    BY <1>5, SameSnapshot DEF Resnapshot
  <2>2. /\ FanPolicy(Snapshot)' = FanPolicy(Snapshot)
        /\ OverTemp(Snapshot)' = OverTemp(Snapshot)
        /\ Faulty(Snapshot)' = Faulty(Snapshot)
    BY <2>1
  <2>3. worker = "resnapshot" /\ worker' = "telemetry" /\ view' = Snapshot
    BY <1>5 DEF Resnapshot
  <2>4. UNCHANGED <<pwm, faultLatched, overTempLatched>> /\ (Calm' => Calm)
    BY <1>5 DEF Resnapshot, Calm
  <2> QED
    BY <2>1, <2>2, <2>3, <2>4 DEF CycleInvariant
<1>6. CASE StoreTelemetry
  <2>1. Snapshot' = Snapshot
    BY <1>6, SameSnapshot DEF StoreTelemetry, UpdatePowerTelemetry
  <2>2. /\ FanPolicy(Snapshot)' = FanPolicy(Snapshot)
        /\ OverTemp(Snapshot)' = OverTemp(Snapshot)
        /\ Faulty(Snapshot)' = Faulty(Snapshot)
    BY <2>1
  <2>3. worker = "telemetry" /\ worker' = "cap" /\ view' = view
    BY <1>6 DEF StoreTelemetry
  <2>4. UNCHANGED <<pwm, faultLatched, overTempLatched>> /\ (Calm' => Calm)
    BY <1>6 DEF StoreTelemetry, UpdatePowerTelemetry, Calm
  <2> QED
    BY <2>1, <2>2, <2>3, <2>4 DEF CycleInvariant
<1>7. CASE ApplyPowerCap
  BY <1>7, CapSettles
<1>8. CASE CheckLoop
  <2>1. CASE worker' = "tick"
    BY <2>1 DEF CycleInvariant
  <2>2. CASE worker' # "tick"
    BY <1>8, <2>2, QuietStep DEF CheckLoop, StartCycle, Calm
  <2> QED
    BY <2>1, <2>2
<1>9. CASE PollTimeout
  <2>1. worker' \in {"tick", "exited"}
    BY <1>9 DEF PollTimeout, StartCycle
  <2> QED
    BY <2>1 DEF CycleInvariant
<1>10. ASSUME NEW c \in Sessions, Session(c) PROVE CycleInvariant'
  <2>1. session \in [Sessions -> {"new", "changed", "requested", "done"}]
    BY DEF ControlOK
  <2>2. CASE ChangeHardware(c)
    <3>1. session'[c] = "changed"
      BY <2>1, <2>2 DEF ChangeHardware, GotoS
    <3> QED
      BY <3>1 DEF CycleInvariant, Calm
  <2>3. CASE RequestCycle(c)
    <3>1. immediateRequested' = TRUE
      BY <2>3 DEF RequestCycle, SetImmediate
    <3> QED
      BY <3>1 DEF CycleInvariant, Calm
  <2>4. CASE NotifyWorker(c)
    <3>1. Calm' => Calm
      BY <2>1, <2>4 DEF NotifyWorker, GotoS, Calm
    <3>2. worker' = worker \/ {worker, worker'} = {"loop", "asleep"}
      BY <2>4 DEF NotifyWorker, NotifyAll
    <3> QED
      BY <2>4, <3>1, <3>2, QuietStep DEF NotifyWorker
  <2> QED
    BY <1>10, <2>2, <2>3, <2>4 DEF Session
<1>11. CASE StartService
  <2>1. worker' = "tick"
    BY <1>11 DEF StartService
  <2> QED
    BY <2>1 DEF CycleInvariant
<1>12. CASE StopService \/ JoinWorker
  BY <1>12, QuietStep DEF StopService, JoinWorker, Calm
<1>13. CASE RequestFirst \/ RequestLast
  <2>1. immediateRequested' = TRUE
    BY <1>13 DEF RequestFirst, RequestLast, SetImmediate
  <2> QED
    BY <2>1 DEF CycleInvariant, Calm
<1>14. CASE NotifyFirst \/ NotifyLast
  <2>1. worker' = worker \/ {worker, worker'} = {"loop", "asleep"}
    BY <1>14 DEF NotifyFirst, NotifyLast, NotifyAll
  <2>2. Calm' => Calm
    BY <1>14 DEF NotifyFirst, NotifyLast, Calm
  <2> QED
    BY <1>14, <2>1, <2>2, QuietStep DEF NotifyFirst, NotifyLast
<1>15. CASE Stopped
  BY <1>15, <1>1 DEF Stopped
<1> QED
  BY <1>1, <1>2, <1>3, <1>4, <1>5, <1>6, <1>7, <1>8, <1>9, <1>10, <1>11, <1>12, <1>13,
     <1>14, <1>15 DEF Next, Worker, Cycle, MainProgress

\* A fault injected or cleared between any two calls of a cycle is never left to
\* the poll timer: before the worker sleeps, the policies have settled, or a
\* cycle is requested or about to be.
THEOREM SleepsOnlySettled == Spec => []IdleMeansSettled
<1>1. Init => CycleInvariant
  BY DEF Init, CycleInvariant
<1>2. CycleInvariant => IdleMeansSettled
  BY DEF CycleInvariant, IdleMeansSettled, Settled, Calm
<1>3. Spec => []HardwareInv
  BY ServiceImplementsHardware, HardwareInvariant, PTL
<1> QED
  BY <1>1, <1>2, <1>3, NextCycle, ControlInvariant, PTL DEF Spec
=============================================================================
