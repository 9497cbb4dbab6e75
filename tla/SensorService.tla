---------------------------- MODULE SensorService ----------------------------
(***************************************************************************)
(* The control loop of openbmc-ai-server-management-stack:                 *)
(* services/SensorService.cpp with the policies it calls (HealthMonitor,   *)
(* ThermalManager, PowerManager), over HardwareModel, disturbed by HTTP    *)
(* sessions that inject and clear faults (FaultInjectionManager).          *)
(*                                                                         *)
(* One worker thread runs cycles.  A cycle is a row of separately locked   *)
(* calls into HardwareModel; sessions act between any two of them and then *)
(* ask for another cycle.  The poll timer may fire, but nothing here that  *)
(* must eventually happen relies on it.                                    *)
(***************************************************************************)
EXTENDS HardwareModel

CONSTANTS
  Sessions,   \* HTTP sessions, each posting one request under /api/fault
  Budget,     \* systemPowerBudgetWatts, in 0.1 W
  NoSnapshot  \* the worker holds no snapshot

Monitored == Fans \cup Psus \cup Nvmes  \* the devices HealthMonitor watches

ASSUME DevicesAssumption ==
  /\ Fans \cap Psus = {} /\ Fans \cap Nvmes = {} /\ Psus \cap Nvmes = {}
  /\ Monitored \cap Gpus = {}

VARIABLES
  session,            \* where each session is
  running,            \* running_
  immediateRequested, \* immediateRequested_
  worker,             \* where workerThread_ is
  view,               \* the snapshot of the cycle in progress
  overTempLatched, faultLatched, budgetLatched,
                      \* the latches of the three policies; faultLatched joins
                      \* fanFailureLatched_, psuFailureLatched_, nvmeFaultLatched_
  main,               \* where the main thread is in Application::start and stop
  owed,               \* history: 1 while a faulty device has yet to cause its event
  severity            \* history: severity of each GPU's last GPU_OVER_TEMP

latches == <<overTempLatched, faultLatched, budgetLatched>>
history == <<owed, severity>>
control == <<running, immediateRequested>>
vars == <<hwVars, session, control, worker, view, latches, main, history>>

-----------------------------------------------------------------------------
(* The three policies, as functions of a snapshot.                          *)

\* The monitored devices that a snapshot shows as faulty.
Faulty(s) ==
  {f \in Fans : s.fan[f].failed} \cup {p \in Psus : ~s.psu[p].healthy}
    \cup {n \in Nvmes : s.nvme[n].health # "OK"}

OverTemp(s) == {g \in Gpus : s.gpu[g].temp > 850}

MaxGpuTemp(s) == Max({0} \cup {s.gpu[g].temp : g \in Gpus})

FanPolicy(s) ==
  LET t == MaxGpuTemp(s)
  IN  IF t >= 700 /\ t <= 850 THEN 70 ELSE IF t > 850 THEN 100 ELSE 40

SystemPower(s) == GpuPower(s.gpu) + FanPower(s.fan, s.pwm) + NvmePower(s.nvme)

PsuPower(s) == s.supply.load

PowerReport(s) ==
  [gpu |-> GpuPower(s.gpu), fan |-> FanPower(s.fan, s.pwm), psu |-> PsuPower(s),
   nvme |-> NvmePower(s.nvme), system |-> SystemPower(s),
   budgetExceeded |-> SystemPower(s) > Budget]

-----------------------------------------------------------------------------
Init ==
  /\ HardwareInit
  /\ session = [c \in Sessions |-> "new"]
  /\ running = FALSE
  /\ immediateRequested = FALSE
  /\ worker = "absent"
  /\ view = NoSnapshot
  /\ overTempLatched = {}
  /\ faultLatched = {}
  /\ budgetLatched = FALSE
  /\ main = "off"
  /\ owed = [d \in Monitored |-> IF d \in Faulty(Snapshot) THEN 1 ELSE 0]
  /\ severity = [g \in Gpus |-> "none"]

\* History: a device that turns faulty is owed an event, one that recovers none.
RecordOwed ==
  owed' = [d \in Monitored |->
             IF d \in Faulty(Snapshot)' \ Faulty(Snapshot) THEN 1
             ELSE IF d \in Faulty(Snapshot)' THEN owed[d] ELSE 0]

-----------------------------------------------------------------------------
(* The worker: runSingleCycle() call by call, and workerLoop().             *)

Tick ==
  /\ worker = "tick"
  /\ SimulateSensorTick
  /\ RecordOwed
  /\ worker' = "health"
  /\ UNCHANGED <<session, control, view, latches, main, severity>>

\* Mutation of KeepLatched: the latches of devices still faulty are lost.
LatchOnlyNew(latched, faulty) == faulty \ latched

\* What insert() and erase() leave of a latch.
KeepLatched(latched, faulty) == faulty

\* snapshot() and HealthMonitor::evaluate, which touches nothing shared but
\* the event log.
EvaluateHealth ==
  /\ worker = "health"
  /\ view' = Snapshot
  /\ faultLatched' = KeepLatched(faultLatched, Faulty(Snapshot))
  /\ owed' = [d \in Monitored |->
                owed[d] - IF d \in Faulty(Snapshot) \ faultLatched THEN 1 ELSE 0]
  /\ worker' = "thermal"
  /\ UNCHANGED <<hwVars, session, control, overTempLatched, budgetLatched, main, severity>>

\* ThermalManager::evaluate: the PWM, then an event for each new over-temperature.
EvaluateThermal ==
  /\ worker = "thermal"
  /\ SetAllFanPwm(FanPolicy(view))
  /\ overTempLatched' = OverTemp(view)
  /\ severity' = [g \in Gpus |->
                    IF g \notin OverTemp(view) \ overTempLatched THEN severity[g]
                    ELSE IF view.gpu[g].temp > 900 THEN "Critical" ELSE "Warning"]
  /\ worker' = "resnapshot"
  /\ UNCHANGED <<session, control, view, faultLatched, budgetLatched, main, owed>>

\* Mutation of Resnapshot: the power policy reuses the first snapshot.
KeepSnapshot ==
  /\ worker = "resnapshot"
  /\ worker' = "telemetry"
  /\ UNCHANGED <<hwVars, session, control, view, latches, main, history>>

Resnapshot ==
  /\ worker = "resnapshot"
  /\ view' = Snapshot
  /\ worker' = "telemetry"
  /\ UNCHANGED <<hwVars, session, control, latches, main, history>>

\* PowerManager::evaluate writes the telemetry and the cap in two locked calls.
StoreTelemetry ==
  /\ worker = "telemetry"
  /\ UpdatePowerTelemetry(PowerReport(view))
  /\ worker' = "cap"
  /\ UNCHANGED <<session, control, view, latches, main, history>>

\* Mutation of ApplyPowerCap: requests are dropped when the cycle ends.
ApplyCapThenReset ==
  /\ worker = "cap"
  /\ SetPowerCapActive(PowerReport(view).budgetExceeded)
  /\ budgetLatched' = PowerReport(view).budgetExceeded
  /\ view' = NoSnapshot
  /\ worker' = "loop"
  /\ immediateRequested' = FALSE
  /\ UNCHANGED <<session, running, overTempLatched, faultLatched, main, history>>

\* ... then the event and the latch; cycleCallback_ only publishes.
ApplyPowerCap ==
  /\ worker = "cap"
  /\ SetPowerCapActive(PowerReport(view).budgetExceeded)
  /\ budgetLatched' = PowerReport(view).budgetExceeded
  /\ view' = NoSnapshot
  /\ worker' = "loop"
  /\ UNCHANGED <<session, control, overTempLatched, faultLatched, main, history>>

StartCycle == worker' = "tick" /\ immediateRequested' = FALSE

\* mutex_ held: the loop condition, wait_for's predicate, and what follows a
\* true predicate.  A false one releases mutex_ and sleeps in one step.
CheckLoop ==
  /\ worker = "loop"
  /\ IF ~running THEN worker' = "exited" /\ UNCHANGED immediateRequested
     ELSE IF immediateRequested THEN StartCycle
     ELSE worker' = "asleep" /\ UNCHANGED immediateRequested
  /\ UNCHANGED <<hwVars, session, running, view, latches, main, history>>

\* wait_for gives up after pollInterval_; its result is not looked at.
PollTimeout ==
  /\ worker = "asleep"
  /\ IF running THEN StartCycle
                ELSE worker' = "exited" /\ UNCHANGED immediateRequested
  /\ UNCHANGED <<hwVars, session, running, view, latches, main, history>>

Cycle ==
  Tick \/ EvaluateHealth \/ EvaluateThermal \/ Resnapshot \/ StoreTelemetry \/ ApplyPowerCap

Worker == Cycle \/ CheckLoop

-----------------------------------------------------------------------------
(* Requests for an immediate cycle, in two steps: the flag under mutex_,    *)
(* then notify_all() without it.                                            *)

SetImmediate == immediateRequested' = TRUE

\* Mutation of NotifyAll: nobody is woken.
NoNotify == UNCHANGED worker

NotifyAll == worker' = IF worker = "asleep" THEN "loop" ELSE worker

GotoS(c, from, to) == session[c] = from /\ session' = [session EXCEPT ![c] = to]

\* The request takes effect in HardwareModel.  Its session was accepted while the
\* service ran, is detached, and may come to this at any time afterwards.
ChangeHardware(c) ==
  /\ main # "off"
  /\ GotoS(c, "new", "changed")
  /\ \/ \E g \in Gpus : InjectGpuOverTemp(g)
     \/ \E f \in Fans : InjectFanFailure(f)
     \/ \E p \in Psus : InjectPsuFailure(p)
     \/ \E n \in Nvmes : InjectNvmeFault(n)
     \/ ClearFaults
  /\ RecordOwed
  /\ UNCHANGED <<control, worker, view, latches, main, severity>>

\* faultCallback_ calls requestImmediateCycle().
RequestCycle(c) ==
  /\ GotoS(c, "changed", "requested")
  /\ SetImmediate
  /\ UNCHANGED <<hwVars, running, worker, view, latches, main, history>>

NotifyWorker(c) ==
  /\ GotoS(c, "requested", "done")
  /\ NotifyAll
  /\ UNCHANGED <<hwVars, control, view, latches, main, history>>

-----------------------------------------------------------------------------
(* Application::start and Application::stop on the main thread.             *)

\* start(): running_.exchange(true) and the thread; then the acceptor opens.
StartService ==
  /\ main = "off"
  /\ main' = "spawned"
  /\ running' = TRUE
  /\ worker' = "tick"
  /\ UNCHANGED <<hwVars, session, immediateRequested, view, latches, history>>

\* Application::start ends with a requestImmediateCycle().
RequestFirst ==
  /\ main = "spawned"
  /\ main' = "kick"
  /\ SetImmediate
  /\ UNCHANGED <<hwVars, session, running, worker, view, latches, history>>

NotifyFirst ==
  /\ main = "kick"
  /\ main' = "serving"
  /\ NotifyAll
  /\ UNCHANGED <<hwVars, session, control, view, latches, history>>

\* stop(): running_.exchange(false), outside mutex_.
StopService ==
  /\ main = "serving"
  /\ main' = "stopping"
  /\ running' = FALSE
  /\ UNCHANGED <<hwVars, session, immediateRequested, worker, view, latches, history>>

RequestLast ==
  /\ main = "stopping"
  /\ main' = "notifying"
  /\ SetImmediate
  /\ UNCHANGED <<hwVars, session, running, worker, view, latches, history>>

NotifyLast ==
  /\ main = "notifying"
  /\ main' = "joining"
  /\ NotifyAll
  /\ UNCHANGED <<hwVars, session, control, view, latches, history>>

JoinWorker ==
  /\ main = "joining"
  /\ worker = "exited"
  /\ main' = "stopped"
  /\ UNCHANGED <<hwVars, session, control, worker, view, latches, history>>

MainProgress == RequestFirst \/ NotifyFirst \/ RequestLast \/ NotifyLast \/ JoinWorker

Session(c) == ChangeHardware(c) \/ RequestCycle(c) \/ NotifyWorker(c)

\* The application has stopped.
Stopped ==
  /\ main = "stopped"
  /\ \A c \in Sessions : session[c] \in {"new", "done"}
  /\ UNCHANGED vars

Next ==
  \/ Worker \/ PollTimeout
  \/ \E c \in Sessions : Session(c)
  \/ StartService \/ MainProgress \/ StopService
  \/ Stopped

Spec == Init /\ [][Next]_vars

\* Threads are scheduled.  The poll timer, the requests of clients and the end
\* of the application need not come.
Fairness ==
  /\ WF_vars(Worker)
  /\ WF_vars(MainProgress)
  /\ \A c \in Sessions : WF_vars(RequestCycle(c) \/ NotifyWorker(c))

FairSpec == Spec /\ Fairness

-----------------------------------------------------------------------------
(* Properties                                                               *)

InCycle == {"tick", "health", "thermal", "resnapshot", "telemetry", "cap"}

TypeOK ==
  /\ HardwareTypeOK
  /\ session \in [Sessions -> {"new", "changed", "requested", "done"}]
  /\ running \in BOOLEAN
  /\ immediateRequested \in BOOLEAN
  /\ worker \in InCycle \cup {"absent", "loop", "asleep", "exited"}
  /\ worker \notin {"thermal", "resnapshot", "telemetry", "cap"} => view = NoSnapshot
  /\ overTempLatched \subseteq Gpus
  /\ faultLatched \subseteq Monitored
  /\ budgetLatched \in BOOLEAN
  /\ main \in {"off", "spawned", "kick", "serving", "stopping", "notifying",
               "joining", "stopped"}
  /\ severity \in [Gpus -> {"none", "Warning", "Critical"}]

\* Every policy has acted on the hardware as it is now.
Settled ==
  /\ pwm = FanPolicy(Snapshot)
  /\ powerCap <=> SystemPower(Snapshot) > Budget
  /\ faultLatched = Faulty(Snapshot)
  /\ overTempLatched = OverTemp(Snapshot)
  /\ budgetLatched = powerCap

\* The worker sleeps, or is about to, only when every policy has caught up with
\* the hardware, or another cycle is requested or about to be: a fault injected
\* or cleared between any two calls of a cycle is never left to the poll timer
\* (FaultInjectionManager.cpp lines 19-23, SensorService.cpp lines 101-105).
IdleMeansSettled ==
  worker \in {"loop", "asleep"} /\ running =>
    Settled \/ immediateRequested \/ \E c \in Sessions : session[c] = "changed"

\* The worker sleeps on a request, or on the end of the service, only while the
\* thread that made it has yet to notify: no wake-up is lost between the test of
\* the predicate and the sleep (lines 46-50, 60-64, 92-94).
WakeupNotLost ==
  worker = "asleep" =>
    /\ immediateRequested => main \in {"kick", "notifying"}
                               \/ \E c \in Sessions : session[c] = "requested"
    /\ ~running => main \in {"stopping", "notifying"}

\* HealthMonitor logs at most one event each time a device turns faulty, however
\* many cycles see it (latches, lines 19, 36 and 53).
NoSpuriousReport == \A d \in Monitored : owed[d] >= 0

\* Outside the two calls that write them, the cap that throttles the GPUs is the
\* one the published telemetry reports (PowerManager.cpp lines 52-53), also
\* across ClearFaults, which resets neither.
CapMatchesTelemetry == worker # "cap" => powerCap = telemetry.budgetExceeded

\* A device that turns faulty while its latch is released gets the event it is
\* owed, which HealthMonitor alone can log, without help of the poll timer, unless
\* it recovers first or the service is stopped (SensorService.cpp lines 71-74).
\* A fault that finds the latch of an earlier one is the matter of ReoccurrenceLogged.
FaultReported ==
  \A d \in Monitored :
    (owed[d] = 1 /\ d \notin faultLatched /\ running) ~> (owed[d] = 0 \/ ~running)

\* A GPU held above 90 C by an injected fault gets full fans, unless cleared.
OverTempCooled ==
  \A g \in Gpus :
    (gpu[g].injected /\ running) ~> (pwm = 100 \/ ~gpu[g].injected \/ ~running)

\* stop() returns: the worker sees running_ = false, awake or asleep.
StopCompletes == main = "stopping" ~> main = "stopped"

\* The worker sleeps and nobody is about to wake it.
Idle ==
  /\ worker = "asleep"
  /\ running
  /\ ~immediateRequested
  /\ \A c \in Sessions : session[c] \notin {"changed", "requested"}

\* What thermal-policy.md line 42 says of a GPU above 90 C.
CriticalAbove90 ==
  Idle => \A g \in Gpus : gpu[g].temp > 900 => severity[g] = "Critical"

\* What report_bmc_api.md line 975 says of a fault that comes back after it was
\* cleared.
ReoccurrenceLogged == Idle => \A d \in Faulty(Snapshot) : owed[d] = 0

\* What power-policy.md line 105 says of the published telemetry.
PsuPowerAboveTotal ==
  CpuCount > 0 /\ telemetry # NoTelemetry => telemetry.psu > telemetry.system
=============================================================================
