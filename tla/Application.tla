------------------------------ MODULE Application ------------------------------
(***************************************************************************)
(* The life of openbmc-ai-server-management-stack: Application starts,     *)
(* stops and destroys its members while their threads run, and these all   *)
(* meet in two places, the bounded log of EventLogger and busMutex_ of     *)
(* DbusBridge.                                                             *)
(*                                                                         *)
(* What the threads do by themselves is left to the modules SensorService  *)
(* and FirmwareUpdateManager.  Here a cycle or a workflow is what of it    *)
(* others notice: events it logs, state it changes, signals it emits.      *)
(***************************************************************************)
EXTENDS Integers, Sequences, SequencesExt

CONSTANTS
  Buses,         \* the buses on which the service may own its name
  Sessions,      \* HTTP sessions, each in a detached thread
  MaxEntries,    \* maxEntries_ of EventLogger, 512
  MaxEvents,     \* bound on the events of a behaviour
  MaxSteps       \* bound on the steps of a firmware workflow

ASSUME SessionsAssumption == Sessions \cap {"sensor", "firmware", "loop"} = {}
ASSUME BusesAssumption == Buses \subseteq {"system", "user"}
ASSUME BoundsAssumption ==
  MaxEntries \in Nat \ {0} /\ MaxEvents \in Nat /\ MaxSteps \in Nat

Threads == Sessions \cup {"sensor", "firmware", "loop"}

\* The threads that log events and emit signals.
Emitters == {"sensor", "firmware"}

\* Mutation of Members: the update manager is declared before the logger it uses.
MembersReordered == <<"redfish", "bridge", "management", "faults", "sensor", "logger",
                      "firmware", "hardware">>

\* The members with code of their own, in the order in which they are destroyed.
Members == <<"redfish", "bridge", "management", "faults", "sensor", "firmware",
             "logger", "hardware">>

\* The interfaces whose properties follow the hardware.
HardwareInterfaces == {"Server", "Power", "Sensor"}
Interfaces == HardwareInterfaces \cup {"EventLog"}

VARIABLES
  main,        \* where the main thread is
  at,          \* where the other threads are
  serving,     \* running_ of RedfishApiServer: sessions are accepted
  cycling,     \* running_ of SensorService
  immediate,   \* immediateRequested_
  left,        \* steps left of the firmware workflow
  running,     \* running_ of DbusBridge
  bus,         \* bus_ and busMode_
  logged,      \* history: the threads that logged, in order
  entries,     \* entries_ of EventLogger
  stale,       \* history: interfaces changed since their last PropertiesChanged
  alive,       \* how many members are not destroyed yet
  touched      \* history: members used after their destruction, and by whom

vars == <<main, at, serving, cycling, immediate, left, running, bus, logged, entries,
          stale, alive, touched>>

-----------------------------------------------------------------------------
Alive(member) == \E i \in DOMAIN Members : Members[i] = member /\ i > Len(Members) - alive

\* Thread t works with these members.
Uses(t, members) ==
  touched' = touched \cup {<<t, m>> : m \in {m \in members : ~Alive(m)}}

\* What getPlatformSnapshot() and getEventLogEntries() reach.
Managed == {"management", "hardware", "firmware", "logger"}

\* The property getters of the bridge copy from snapshots and keep nothing.
PropertiesRead == {"bridge"} \cup Managed

Goes(t, place) == at' = [at EXCEPT ![t] = place]

\* busMutex_ is held by the process loop while it processes and while it waits.
BusFree == at["loop"] \notin {"processing", "waiting"}

Init ==
  /\ main = "start bridge"
  /\ at = [t \in Threads |-> "absent"]
  /\ serving = FALSE /\ cycling = FALSE /\ running = FALSE
  /\ immediate = FALSE
  /\ left = 0
  /\ bus = "none"
  /\ logged = <<>> /\ entries = <<>>
  /\ stale = {}
  /\ alive = Len(Members)
  /\ touched = {}

-----------------------------------------------------------------------------
(* EventLogger.                                                             *)

\* Mutation of Trimmed: room is made only when there is one entry too many.
TrimmedLate == IF Len(entries) > MaxEntries THEN Tail(entries) ELSE entries

\* The oldest entry goes when the log is full.
Trimmed == IF Len(entries) >= MaxEntries THEN Tail(entries) ELSE entries

\* logEvent() up to the end of the lock; the callback is then to be called.
LogEvent(t) ==
  /\ Len(logged) < MaxEvents
  /\ entries' = Append(Trimmed, t)
  /\ logged' = Append(logged, t)
  /\ stale' = stale \cup {"EventLog"}

-----------------------------------------------------------------------------
(* DbusBridge.                                                              *)

\* connectBus(): the system bus or, failing that, the user bus.
ConnectedBus == IF "system" \in Buses THEN "system" ELSE "user"

\* start(): without a bus or when an object cannot be registered it throws, with
\* everything undone.
StartBridge ==
  /\ main = "start bridge"
  /\ \/ /\ Buses # {}
        /\ bus' = ConnectedBus
        /\ running' = TRUE
        /\ Goes("loop", "top")
        /\ main' = "start sensor"
     \/ /\ main' = "stop redfish"
        /\ UNCHANGED <<bus, running, at>>
  /\ UNCHANGED <<serving, cycling, immediate, left, logged, entries, stale, alive, touched>>

\* Mutation of LoopCanLock: stop() takes the mutex before it joins the loop.
LoopCanLockUnlessStopping == main # "join bridge"

\* The emitters hold busMutex_ only within an action.
LoopCanLock == TRUE

\* processLoop(): incoming calls are processed under the mutex, and so is the wait.
\* The getters of the properties take snapshots.
LoopStep(from, to) ==
  /\ at["loop"] = from
  /\ to \in {"processing", "waiting"} => LoopCanLock
  /\ Goes("loop", to)
  /\ Uses("loop", PropertiesRead)
  /\ UNCHANGED <<main, serving, cycling, immediate, left, running, bus, logged, entries,
                 stale, alive>>

LoopEnds ==
  /\ at["loop"] = "top"
  /\ ~running
  /\ Goes("loop", "ended")
  /\ Uses("loop", {"bridge"})
  /\ UNCHANGED <<main, serving, cycling, immediate, left, running, bus, logged, entries,
                 stale, alive>>

Loop ==
  \/ running /\ LoopStep("top", "processing")
  \/ LoopStep("processing", "between")
  \/ LoopStep("between", "waiting")
  \/ LoopStep("waiting", "top")
  \/ LoopEnds

\* Mutation of ServerEmitted: a cycle does not signal what it did to the server.
NothingEmitted == {}

\* What emitServerPropertiesChanged() signals.
ServerEmitted == {"Server"}

\* The interfaces that t is about to signal, and where it goes from there.
Emitted(t) ==
  CASE at[t] = "event" -> {"EventLog"}
    [] at[t] \in {"status", "cycle"} -> ServerEmitted
    [] at[t] = "all" -> {"Power", "EventLog", "Sensor"}

After(t) ==
  CASE at[t] \in {"event", "status"} -> "work"
    [] at[t] = "cycle" -> "all"
    [] at[t] = "all" -> IF cycling THEN "waiting" ELSE "ended"

Emitting(t) == at[t] \in {"event", "status", "cycle", "all"}

\* The three emitters, up to their return.  Properties are read as they are sent.
\* Whether the test of dbusBridge_ still finds the bridge that is gone is up to the
\* build.
Emit(t) ==
  /\ Emitting(t)
  /\ BusFree
  /\ stale' = IF bus = "none" THEN stale ELSE stale \ Emitted(t)
  /\ Goes(t, After(t))
  /\ \/ Uses(t, IF bus = "none" THEN {"bridge"} ELSE PropertiesRead)
     \/ ~Alive("bridge") /\ UNCHANGED touched
  /\ UNCHANGED <<main, serving, cycling, immediate, left, running, bus, logged, entries, alive>>

-----------------------------------------------------------------------------
(* SensorService.                                                           *)

\* A policy logs an event, or the tick or a policy changes the hardware.
SensorWork ==
  /\ at["sensor"] = "work"
  /\ Uses("sensor", {"sensor", "hardware", "logger"})
  /\ \/ LogEvent("sensor") /\ Goes("sensor", "event")
     \/ /\ stale' = stale \cup HardwareInterfaces
        /\ UNCHANGED <<at, logged, entries>>
  /\ UNCHANGED <<main, serving, cycling, immediate, left, running, bus, alive>>

\* The policies have run: cycleCallback_.
CycleDone ==
  /\ at["sensor"] = "work"
  /\ Goes("sensor", "cycle")
  /\ Uses("sensor", {"sensor"})
  /\ UNCHANGED <<main, serving, cycling, immediate, left, running, bus, logged, entries,
                 stale, alive>>

\* The wait in workerLoop() ends.
SensorWakes ==
  /\ at["sensor"] = "waiting"
  /\ IF cycling THEN Goes("sensor", "work") /\ immediate' = FALSE
                ELSE Goes("sensor", "ended") /\ UNCHANGED immediate
  /\ Uses("sensor", {"sensor"})
  /\ UNCHANGED <<main, serving, cycling, left, running, bus, logged, entries, stale, alive>>

Sensor == CycleDone \/ (SensorWakes /\ (immediate \/ ~cycling))

-----------------------------------------------------------------------------
(* The firmware worker.                                                     *)

FirmwareWork ==
  /\ at["firmware"] = "work"
  /\ Uses("firmware", {"firmware", "logger"})
  /\ \/ /\ left > 0
        /\ left' = left - 1
        /\ \/ LogEvent("firmware") /\ Goes("firmware", "event")
           \/ /\ stale' = stale \cup {"Server"}
              /\ Goes("firmware", "status")
              /\ UNCHANGED <<logged, entries>>
     \/ /\ left' = 0
        /\ Goes("firmware", "absent")
        /\ UNCHANGED <<logged, entries, stale>>
  /\ UNCHANGED <<main, serving, cycling, immediate, running, bus, alive>>

-----------------------------------------------------------------------------
(* RedfishApiServer.                                                        *)

\* acceptLoop() starts a detached thread for a connection.
Accept(h) ==
  /\ serving
  /\ at[h] = "absent"
  /\ Goes(h, "open")
  /\ UNCHANGED <<main, serving, cycling, immediate, left, running, bus, logged, entries,
                 stale, alive, touched>>

\* handleSession() up to its first use of the managers, the platform snapshot.
Read(h) ==
  /\ at[h] = "open"
  /\ Goes(h, "work")
  /\ Uses(h, {"redfish"} \cup Managed)
  /\ UNCHANGED <<main, serving, cycling, immediate, left, running, bus, logged, entries,
                 stale, alive>>

\* The rest of a request without consequences, or of one whose work is done.
Respond(h) ==
  /\ at[h] = "work"
  /\ Goes(h, "absent")
  /\ Uses(h, {"redfish"} \cup Managed)
  /\ UNCHANGED <<main, serving, cycling, immediate, left, running, bus, logged, entries,
                 stale, alive>>

\* A fault is injected or cleared, then a cycle is requested.
Inject(h) ==
  /\ at[h] = "work"
  /\ stale' = stale \cup HardwareInterfaces
  /\ Goes(h, "injected")
  /\ Uses(h, {"management", "faults", "hardware"})
  /\ UNCHANGED <<main, serving, cycling, immediate, left, running, bus, logged, entries, alive>>

RequestCycle(h) ==
  /\ at[h] = "injected"
  /\ immediate' = TRUE
  /\ Goes(h, "work")
  /\ Uses(h, {"faults", "sensor"})
  /\ UNCHANGED <<main, serving, cycling, left, running, bus, logged, entries, stale, alive>>

\* startUpdate(), which logs and signals nothing: a refusal, or a new worker once the
\* join of the previous one has returned.
RequestUpdate(h) ==
  /\ at[h] = "work"
  /\ \/ UNCHANGED <<at, left>>
     \/ /\ at["firmware"] = "absent" /\ Alive("firmware")
        /\ Goes("firmware", "work")
        /\ left' = MaxSteps
  /\ Uses(h, {"management", "firmware"})
  /\ UNCHANGED <<main, serving, cycling, immediate, running, bus, logged, entries, stale,
                 alive>>

\* A session that has used what is gone is followed no further: anything may happen.
Session(h) ==
  /\ \A m \in Range(Members) : <<h, m>> \notin touched
  /\ \/ Read(h) \/ Respond(h) \/ Inject(h) \/ RequestCycle(h)
     \/ RequestUpdate(h)

-----------------------------------------------------------------------------
(* The main thread.                                                         *)

MainUnchanged == UNCHANGED <<immediate, left, logged, entries, stale, touched>>

StartSensor ==
  /\ main = "start sensor"
  /\ cycling' = TRUE
  /\ Goes("sensor", "work")
  /\ main' = "start redfish"
  /\ MainUnchanged
  /\ UNCHANGED <<serving, running, bus, alive>>

\* bind() or listen() may fail; running_ is set all the same.
StartRedfish ==
  /\ main = "start redfish"
  /\ \/ serving' = TRUE /\ main' = "request"
     \/ main' = "stop redfish" /\ UNCHANGED serving
  /\ MainUnchanged
  /\ UNCHANGED <<at, cycling, running, bus, alive>>

RequestFirst ==
  /\ main = "request"
  /\ immediate' = TRUE
  /\ main' = "run"
  /\ UNCHANGED <<at, serving, cycling, left, running, bus, logged, entries, stale, alive, touched>>

\* SIGINT or SIGTERM.
Signal ==
  /\ main = "run"
  /\ main' = "stop redfish"
  /\ MainUnchanged
  /\ UNCHANGED <<at, serving, cycling, running, bus, alive>>

\* RedfishApiServer::stop(): the accept loop leaves and is joined, the sessions are not.
StopRedfish ==
  /\ main = "stop redfish"
  /\ serving' = FALSE
  /\ main' = "stop sensor"
  /\ MainUnchanged
  /\ UNCHANGED <<at, cycling, running, bus, alive>>

StopSensor ==
  /\ main = "stop sensor"
  /\ cycling' = FALSE
  /\ immediate' = (immediate \/ cycling)
  /\ main' = "join sensor"
  /\ UNCHANGED <<at, serving, left, running, bus, logged, entries, stale, alive, touched>>

\* Mutation of SensorGone: the worker is not joined.
SensorGoneOrNot == TRUE

SensorGone == at["sensor"] \in {"absent", "ended"}

JoinSensor ==
  /\ main = "join sensor"
  /\ SensorGone
  /\ main' = "stop bridge"
  /\ MainUnchanged
  /\ UNCHANGED <<at, serving, cycling, running, bus, alive>>

StopBridge ==
  /\ main = "stop bridge"
  /\ running' = FALSE
  /\ main' = IF ~running /\ bus = "none" THEN "destroy" ELSE "join bridge"
  /\ MainUnchanged
  /\ UNCHANGED <<at, serving, cycling, bus, alive>>

LoopGone == at["loop"] = "ended"

\* The loop is joined, then the connection closed under busMutex_.
CloseBridge ==
  /\ main = "join bridge"
  /\ LoopGone
  /\ BusFree
  /\ bus' = "none"
  /\ main' = "destroy"
  /\ MainUnchanged
  /\ UNCHANGED <<at, serving, cycling, running, alive>>

\* The members are destroyed one after the other; ~FirmwareUpdateManager joins its
\* worker first.
Destroy ==
  /\ main = "destroy"
  /\ alive > 0
  /\ Members[Len(Members) - alive + 1] = "firmware" => at["firmware"] = "absent"
  /\ alive' = alive - 1
  /\ MainUnchanged
  /\ UNCHANGED <<main, at, serving, cycling, running, bus>>

\* main() returns, which ends the threads that are left.
Exit ==
  /\ main = "destroy"
  /\ alive = 0
  /\ main' = "exited"
  /\ at' = [t \in Threads |-> "absent"]
  /\ MainUnchanged
  /\ UNCHANGED <<serving, cycling, running, bus, alive>>

MainProgress ==
  \/ StartBridge \/ StartSensor \/ StartRedfish \/ RequestFirst
  \/ StopRedfish \/ StopSensor \/ JoinSensor \/ StopBridge \/ CloseBridge
  \/ Destroy \/ Exit

Done == main = "exited" /\ UNCHANGED vars

Next ==
  \/ MainProgress \/ Signal \/ Loop
  \/ SensorWork \/ CycleDone \/ SensorWakes \/ FirmwareWork
  \/ \E t \in Emitters : Emit(t)
  \/ \E h \in Sessions : Accept(h) \/ Session(h)
  \/ Done

Spec == Init /\ [][Next]_vars

\* Every thread that can run does, but a mutex need not be fair.
FairSpec ==
  /\ Spec
  /\ WF_vars(MainProgress) /\ WF_vars(Loop) /\ WF_vars(Sensor) /\ WF_vars(FirmwareWork)
  /\ \A t \in Emitters : WF_vars(Emit(t))
-----------------------------------------------------------------------------
(* Properties                                                               *)

\* Every variable keeps to its values, and the process loop has a connection until
\* it ends.
TypeOK ==
  /\ main \in {"start bridge", "start sensor", "start redfish", "request", "run",
               "stop redfish", "stop sensor", "join sensor", "stop bridge", "join bridge",
               "destroy", "exited"}
  /\ at \in [Threads -> {"absent", "top", "processing", "between", "waiting", "ended",
                         "work", "event", "status", "cycle", "all", "open", "injected"}]
  /\ {serving, cycling, running, immediate} \subseteq BOOLEAN
  /\ left \in 0..MaxSteps
  /\ bus \in {"none", "system", "user"}
  /\ at["loop"] \in {"top", "processing", "between", "waiting"} => bus # "none"
  /\ logged \in Seq(Emitters) /\ entries \in Seq(Emitters)
  /\ stale \subseteq Interfaces
  /\ alive \in 0..Len(Members)
  /\ touched \subseteq Threads \X Range(Members)

\* However threads interleave, the log is the newest part of what was ever logged,
\* in that order, and as long as its bound allows (EventLogger.cpp:24 to 29).
LogKeepsNewest ==
  entries = SubSeq(logged, IF Len(logged) > MaxEntries THEN Len(logged) - MaxEntries + 1
                                                       ELSE 1, Len(logged))

\* When no cycle runs or is due and nobody is on the way to an emitter, everything
\* that D-Bus subscribers were told is current: the newest event, the power cap,
\* telemetry, sensors and the firmware state.
NothingStaleAtRest ==
  /\ bus # "none"
  /\ at["sensor"] = "waiting" /\ ~immediate
  /\ \A t \in Threads : ~Emitting(t) /\ at[t] # "injected"
  => stale = {}

\* When the first member is destroyed, after a failed start as after a stop, the
\* connection is closed, no service runs and its threads are joined: a joinable
\* std::thread would end the process (Application.cpp:76 to 81 and 92 to 94).
NothingRunsAtDestruction ==
  main = "destroy" =>
    /\ ~serving /\ ~cycling /\ ~running /\ bus = "none"
    /\ at["sensor"] \in {"absent", "ended"} /\ at["loop"] \in {"absent", "ended"}

\* Members are used after their destruction by detached sessions, and the bridge by
\* a firmware workflow that is still on when it goes; by nobody else.
OnlyOutliversTouchDestroyed ==
  touched \subseteq (Sessions \X Range(Members)) \cup {<<"firmware", "bridge">>}

\* A stop comes to an end, and so does the clean-up after a failed start, wherever
\* the threads are, provided the sensor worker gets busMutex_ at some time while the
\* process loop takes and gives it back.
ShutdownCompletes ==
  SF_vars(Emit("sensor")) => (main = "stop redfish" ~> main = "exited")
=============================================================================
