# Specifications of bmc_lab

This directory holds TLA+ models of the two programs of this repository, the TLC
configurations that check them on small instances, and theorems about them whose
proofs TLAPS checks. Every definition follows the sources; `PROJECT.json`
names the lines each one stands for.

    tlc -workers 2 -config sensors.cfg MCSensorManager        # one model-checking run
    tlapm SensorManagerProofs.tla                             # one file of proofs

The two programs are independent:

* **A**, `openbmc-ai-server-management-stack`: one process that simulates an AI
  server and manages it: a control loop, a firmware updater, an HTTP (Redfish-like)
  server and a D-Bus bridge, on several threads.
* **B**, `mini-openbmc-platform-service`: a BMC built of three processes (PLDM
  endpoint agent, sensor service, Redfish service) that talk MCTP/PLDM over a Unix
  socket and D-Bus, with two kernel modules below.

Of both, what is between threads, processes and messages is modelled: it is what can go
wrong out of reach of their unit tests.

## Inventory

### Program A

| Component | State | Operations | Runs on | Module |
|---|---|---|---|---|
| `HardwareModel` | devices, PWM, power cap, telemetry, one mutex | tick, four injections, clear, PWM, cap, telemetry, snapshot | any thread | `HardwareModel` |
| `SensorService` | `running_`, `immediateRequested_`, mutex, condition variable, worker | `start`, `stop`, `requestImmediateCycle`, cycles | worker, callers | `SensorService` |
| `HealthMonitor`, `ThermalManager`, `PowerManager` | latches | `evaluate` of a snapshot | worker | `SensorService` |
| `FaultInjectionManager` | callback | inject or clear, then ask for a cycle | HTTP sessions | `SensorService` |
| `FirmwareUpdateManager` | `status_`, `workerThread_`, `stopRequested_`, mutex | `startUpdate`, the workflow, the destructor | sessions, its worker, main | `FirmwareUpdateManager` |
| `EventLogger` | bounded log, callbacks, mutex | `logEvent`, readers | any thread | `Application` |
| `ManagementService` | none | façade; platform snapshots | sessions, D-Bus loop | `Application` |
| `DbusBridge` | bus, bus mutex, process thread | property getters, signals | its thread, callers | `Application` |
| `RedfishApiServer` | acceptor, accept thread | `start`, `stop`, one detached thread per connection | accept thread, sessions | `Application` |
| `Application` | the objects above | `start`, `stop`, destruction | main | `Application` |

How they interact. An HTTP session calls a manager; `FaultInjectionManager` changes
`HardwareModel` and calls `SensorService::requestImmediateCycle`, which raises a flag
under a mutex and notifies without it. The worker then runs a cycle: tick, snapshot,
health and thermal policy, second snapshot, power policy (telemetry, then cap). Each of
these calls locks `HardwareModel` for itself, so sessions act between any two of them.
Events go to `EventLogger`, whose callbacks make the D-Bus bridge emit signals under its
bus mutex, which the process loop holds while it processes and waits. A
firmware update is a thread of its own that sleeps between stages, stores each state
under a mutex and tells the bridge outside it. `Application::stop` closes the acceptor
and stops the worker and the bridge, but does not wait for detached sessions; the destructors follow.

What is hard, and what makes each part correct:

* *HardwareModel*: throttling, health and PSU outputs are derived state that ten methods
  have to keep up, several of them refreshing only a part. Correct: derived state
  matches its sources between any two calls, and an injected fault keeps its symptom.
* *SensorService and policies*: faults come between any two calls of a cycle; a wake-up
  may be lost; `stop` writes its flag outside the mutex; latches outlive cycles. Correct:
  the worker never goes to sleep on work undone, no event is logged twice for one fault,
  every lasting fault is reported and cooled without help of the timer, `stop` returns.
* *FirmwareUpdateManager*: the busy flag is tested by one thread and raised by another,
  `workerThread_` has no lock. Correct: a running worker always has an owner that will
  join it, the busy flag always comes down, subscribers see the last state, requests
  and shutdown end, and clients that wait for their answers never abort the process.
* *Application, EventLogger, DbusBridge*: start may fail at each step, callbacks run
  outside the lock, emitters wait behind the process loop, threads outlive members.
  Correct: the log is the newest part of what was logged, subscribers are up to date once all is
  quiet, everything is stopped before anything is destroyed, only the threads the code
  detaches use what is gone, and shutdown ends.

### Program B

| Component | State | Operations | Module |
|---|---|---|---|
| MCTP packets, `Reassembler` | partial message, expected sequence, time of the last packet | fragment, `addPacket`, `reset` | `MctpReassembler`, `Reassembler` |
| `uds_mctp_transport` | socket, tag, injected transport fault | client `request`, server `run` | `PldmExchange` |
| PLDM codecs and responders | fault slot | completion codes | `PldmExchange` |
| `EndpointAgent`, GPU and NIC endpoints | one fault slot per endpoint | dispatch of PLDM commands | `PldmExchange` |
| `SensorManager` | sensors, discovered limits, injected faults, two mutexes | discovery, poll, `injectFault`, `stop` | `SensorManager` |
| `ThresholdEventEngine` | level of each sensor | `evaluate` with hysteresis | `ThresholdEngine` |
| `DbusServer` | objects, pending additions and changes, mutex | insert, update, process loop | `DbusServer` |
| `DbusClient`, REST service | bus connection | aggregate health, forwarded calls | `SensorManager`, in part |
| hwmon, PCIe backends | none | reads of sysfs and device files | `SensorManager`, in part |
| `mini_pcie_telemetry` | telemetry, event sequence, lock, timer | load, unload, attributes, ioctl, poll, timer | `MiniPcieTelemetry` |
| `mini_i2c_hwmon` | one fault | attributes | `SensorManager`, in part |
| tools, scripts | none | one-shot clients | not modelled |

How they interact. The polling thread of the sensor service asks each endpoint for each
sensor over MCTP, under `mctpMutex_`, reads the drivers' files, lays recorded faults over
the readings, evaluates thresholds under `mutex_`, and then publishes events and sensors
one by one in the object table of `DbusServer`, under the table's mutex. The main thread takes that mutex
for each turn of its D-Bus loop, handlers included: `InjectFault` runs there and, with the table locked,
talks to the endpoint or to a driver and records the fault under `mutex_`. The REST service only reads the
table. The agent is one thread that serves one connection at a time.

What is hard, and what makes each part correct:

* *Reassembler*: losing exactly as many fragments as the sequence number can count; a timeout
  that a late packet reveals. Correct: only whole messages that were sent come out, and
  every one that arrives intact does.
* *PLDM exchange*: a fault that suppresses or refuses the answer to the request that
  installed it; requests served after their client gave up; a server that sleeps. Correct: an answer is the
  whole answer to that very request, a confirmed fault is in force, the mutex is given back.
* *SensorManager, ThresholdEngine, DbusServer*: faults arrive at any point of a cycle and
  in three places (endpoint, driver, record); events and healths are published in several
  steps; the two threads take two mutexes in opposite directions. Correct: what D-Bus clients see is at every
  moment a coherent alarm board, hysteresis holds across failed reads, a
  signalled alarm has its entry, recorded faults show, calls and the stop end.
* *mini_pcie_telemetry*: a timer that arms itself again, attributes in use and open files
  during unload; an error path with five labels; a `poll` that reads the event sequence twice
  without the lock. Correct: resources go in the reverse order, nobody runs on freed memory,
  telemetry is that of the fault in force, no event is slept through, unload ends.

`PROJECT.json` lists all hazards under `hazards`, each at its line.

## Modules

| Module | What it is |
|---|---|
| `FirmwareUpdateManager` | the firmware updater: sessions, workers, main thread |
| `HardwareModel` | the simulated server: one action per public method |
| `SensorService` | extends `HardwareModel` with the control loop, the policies and the sessions |
| `Application` | start, stop and destruction of program A, its event log and D-Bus bridge, with all its threads |
| `Reassembler` | the class `Reassembler` as functions of its state |
| `MctpReassembler` | fragmentation and reassembly of MCTP messages over a stream with losses |
| `PldmExchange` | PLDM requests: two client threads, the Unix socket, the endpoint agent; uses `Reassembler` |
| `ThresholdEngine` | `evaluate()` as functions of level, limits and reading |
| `DbusServer` | the object table and its two queues |
| `SensorManager` | the sensor service: extends `DbusServer` and `ThresholdEngine` with both threads, the drivers it reads and the aggregate the REST service computes |
| `EndpointCalls` | abstract specification of what a PLDM request promises its caller; implemented by `PldmExchange` |
| `AlarmBoard` | abstract specification of what D-Bus clients see; implemented by `SensorManager` |
| `MiniPcieTelemetry` | the kernel module: load, unload, timer, attributes, a polling process |
| `MCFirmwareUpdate`, `MCSensorService`, `MCApplication`, `MCMctp`, `MCSensorManager`, `MCMiniPcie` | their instances for TLC |
| `FirmwareUpdateProofs`, `HardwareProofs`, `SensorServiceProofs`, `ApplicationProofs`, `MctpProofs`, `PldmProofs`, `SensorManagerProofs`, `MiniPcieProofs` | theorems about them |

### FirmwareUpdateManager

`session[r]` is the program counter of one HTTP session in `startUpdate()`; there is one
action for each stretch of code between two points another thread can observe:
`RejectEmptyUri`, `CheckBusy` (first locked block), `TestJoinable`, `Join`, `JoinReturns`,
`RecordAccepted` (second locked block), `CreateThread`, `AssignThread`. Creating the
thread and storing its handle are two actions, because the worker runs before the
assignment. `runUpdateWorkflow()` is the sequence `Workflow(u)` of the steps that others
can see, and the worker executes it head first: log, locked assignment of the status,
notification, check of the stop flag. The sleeps of the workflow are the gaps between
steps. The firmware image is one of four classes: `"good"`, `"bad"` (verification fails),
`"install-fail"` and `""`.

`workerThread_` is a data race in the code: sessions test, join and move it without a
lock. The model gives the outcomes the build has on this platform. A second `join()` of
one thread, or `join()` of an empty handle, throws `std::system_error`, and nothing
catches it in a detached session; a move assignment to a joinable thread calls
`std::terminate`. Both are `Terminate`. A detached session or worker that outlives the
object is `UseAfterDestroy`, which may end the process at any moment. `LogEvent` appends to a
sequence that stands for the event log; its bound of 512 entries is out of reach of the
at most 18 events of these runs. That the D-Bus bridge stops broadcasting once
`Application::stop` has run is left to `Application`.

### HardwareModel

Every public method holds `mutex_` for its whole body, so each is one action. Numbers are
integers in tenths of a degree and tenths of a watt, exact for every constant of the code
but for roundings of the floating-point products, which become `\div`. Noise is a choice
from a set that the assumptions bound by the code's ranges. Two simplifications: a fan's RPM is 0 exactly when
the fan failed, so it is left out; the profile gives all fans one PWM and every write
keeps it common, so `pwm` is one number. A PSU's output is not stored per PSU: `supply`
holds what the last refresh put on the PSUs, 0 if none was healthy, and the PSUs that carry
it, since fan failures and PWM changes do not refresh it.

### SensorService

`worker` is the program counter of the worker thread: the six calls of
`runSingleCycle()`, then `loop` (mutex held, predicate under evaluation), `asleep` and
`exited`. `CheckLoop` is one action because `wait_for` releases the mutex and sleeps
atomically. `PollTimeout` is the timer. `requestImmediateCycle()` is two steps, the flag
and the notification, and so is every caller of it: a session, `Application::start` and
`stop`. A session may change the hardware until the process ends: those accepted before
`stop()` are detached and nobody waits for them. Policies are functions of the snapshot `view` the worker holds. The three latches of
`HealthMonitor` are one set, as every device is in one class only. Two history
variables, `owed` and `severity`, record what the event log would hold; they influence nothing.

### MctpReassembler

`AddPacket` is `Reassembler::addPacket` as a function of its state, a packet and whether
the timeout has passed; its parts are the early return on timeout, the reset at a start of
message, the comparisons and the extension. Messages are numbered in the order they are
sent, a payload is the sequence of byte ranges put together, and a packet carries what
`fragmentMessage` gives it. Between the two is a stream that keeps the order of packets
but may lose up to `MaxLoss` in a row. The Unix socket of this repository loses none by
itself; the sequence check, the timeout and `test_mctp_fragmentation.cpp` are about transports
that do, and the injected faults of the endpoint imitate them. One sender and one
receiver share a reassembler for all messages, where the code makes one for each
exchange, so leftovers of earlier messages are part of the model. An empty result means
"no message completed" for every error alike.

### PldmExchange

`requestPldm()` and `UdsMctpClient::request()` are the steps `Request`, `Lock` (of
`mctpMutex_`), `Connect` with the request sent, `Receive` for each packet, and the ways to
fail. One `call` record per thread holds where it is, its request and its answer; the
thread that polls only asks, the one that serves D-Bus also sets faults. `Receive` hands the packet to
`AddPacket` of `Reassembler`, then compares headers as `requestPldm()` does (`Accepts`).

The server is one thread: `Serve` accepts a connection, calls the handler and sends what
`Sent` says of the behaviour; `packet_loss` and `timeout_before_eom` then sleep, until `Wake`
closes the connection, the latter only if its packet found a client (`Sleeps`). `Handle` keeps the order of `EndpointAgent::handle`: the early garbage
response, the installation of the fault, then the responder, which may already refuse. A
connection is its request and its client; a client that gives up closes its end, and the
connection stays in the queue as one of `Nobody` until the server comes to it. That is
what the code does whenever a fault sleeps: 1200 ms on the server, 1000 ms for the
client.

Time is abstracted: `TimeOut` may happen whenever there is nothing to receive, and a packet
may be late for the reassembler. A response names the request it answers, so that the
properties can say whose it is; its payload is not modelled beyond that. The tag
is left out, as a connection carries one exchange. `"getPdr"` stands for the largest
record, which at the GPU (record 3, 65 bytes) is the only response of two packets. `AgentStops` is
`UdsMctpServer::stop`; a crash differs from it only in closing a sleeping connection at once,
which `Wake` may do next.

### EndpointCalls

What is left of an exchange for its callers. A thread asks, its request becomes an order of the
agent, and the thread waits alone; the agent executes orders one by one from the front, each
at most once, also those given up meanwhile; the outcome is the completion of executing that very
order, or a failure, which may come at any time and says nothing of whether the order was or
will be executed. `ImplementsCalls` maps `PldmExchange` to it: `orders` is the accept queue, `reply` the
completion that lies in the socket or in the reassembler, and a call is what is left
without packets, mutex and connection. Sockets, packets, timers and the five transport faults do
not occur in it; the agent does, as the operator `Handle`.

### Application

`main` walks through `Application::start()`, the wait for a signal, `stop()` and the
destructor; `StartBridge` and `StartRedfish` may fail, as without a bus or with the
port taken, and every failure goes to the same clean-up, `stop redfish`. `at[t]` is where the sensor
worker, the firmware worker, the process loop of the bridge and each HTTP session is. What these do
by themselves is in `SensorService` and `FirmwareUpdateManager`; here a cycle or a workflow is
what others notice of it: events it logs, state it changes, signals it emits. `LogEvent` is
`EventLogger::logEvent` up to the end of its lock, `Emit` the callback with any of the three emitters of
`DbusBridge`; they need `busMutex_`, which the loop holds at `processing` and `waiting`. A
session calls, in any number and order, what `handleSession` reaches: snapshots, an injection, an update.
`startUpdate()` logs and signals nothing itself, so a session is never among the `Emitters`.

Destruction is one action per member in reverse order of declaration (`Members`);
`~FirmwareUpdateManager` waits for its worker. Three history variables say what the properties
need: `logged` (all events ever), `stale` (interfaces changed since their last
`PropertiesChanged`), `touched` (who used which member after its destruction). A session that
used a member that is gone is followed no further, since then the code is undefined. The
firmware worker's callback tests `dbusBridge_`, a `unique_ptr` that may be gone: whether it then
still sees the bridge is left to the build, and `Emit` allows both.

### SensorManager, DbusServer, ThresholdEngine

`main` is the thread of `SensorServiceApp::run`: initialise, discover (`Discover` picks how far
along each endpoint's PDRs it gets before an answer is bad), turns of `process()`, and `stop`.
`ProcessCall` publishes what is pending and starts a call of `InjectFault`, with the table's mutex
held until `EndDispatch`. The call has an action for each stretch between two locks:
`ApplyToDriver` or `ApplyToEndpoint`, `LockForFault` and `SetEndpointFault` under
`mctpMutex_`, `RecordFault` under `mutex_`. `SetEndpointFault` may take effect and still fail,
as `PldmExchange` shows. It always concerns EID 8, as in the code.

`poll` is the polling thread, through `pollPldm` (`Ask` and `Answer` for one sensor),
`pollKernelTelemetry` (of the PCIe device the fault mode, `TelemetryMode`, the health, `TelemetryHealth`,
and the update of its object, `TelemetryPublish`; then `HwmonFaultMode`, `HwmonRead` for one file at a time,
`HwmonStore`),
the locked block of `pollOnce` (`Evaluate`), and publication one object at a time. `AfterCycle` tests
`stopping_` and sleeps in one step, as `wait_for` does with the mutex held. `mutex_` is never held
across actions; the mutex of the table is held exactly when `main` is in `dispatch` or a handler,
which `DbusFree` says. Readings and limits are integers in tenths.

The table keeps one object per sensor, the PCIe device, and the newest event entry of each
sensor: entries are only ever added. `ProcessPending` exports additions and signals changes;
of the latter only sensors are signalled, which is what the code does. `Leftover` is what faults the endpoint
and the drivers, which outlive the service, may hold when it starts.

### AlarmBoard

Two variables: for each sensor the `newest` event of the log, and what its object `shown`
says. Events alternate, starting with an assertion; a shown health is that of the newest event, or
unknown. `ImplementsBoard` maps `SensorManager` to it: `newest` is the sensor's entry in the
table, `shown` the class of its `Health`. The board knows neither limits nor cycles nor locks.

### MiniPcieTelemetry

`module` is the phase of the module, `held` the resources in place. `Acquire` takes the next of
`Resources`, `Fail` jumps to the label of `ErrorPath`, `Release` undoes one. What the code does with the device's
lock held is one action. `Enter`, `Store` and `Show` are users of the attributes, `Fire` and `Tick` the
timer, `Ioctl`, `PollWait`, `Compare` and `Report` the character device. `Compare` and `Report` are
two steps because the code reads the event sequence twice without the lock. `Sleep`, `LookAgain`
and `PollTimesOut` are `poll(2)` of the kernel. It is assumed what the kernel documents: an open file pins the module, `device_destroy` waits for
callers inside attributes, `del_timer_sync` for a running handler.

## Runs

All bounds are constants given in the `.cfg` files. Type invariants are not part of the runs where
TLAPS proves them.

### Firmware update

| Run | Instance | States | Shows |
|---|---|---|---|
| `fw_concurrent` | 2 sessions, all interleavings, fair threads | 131 804 | a running worker has an owner; the busy flag is not leaked; subscribers are up to date; every request is answered, the destructor returns |
| `fw_serial` | 3 sessions one after the other, all image classes | 16 255 | no abort, event logs of two workflows not interleaved |
| `fw_two_threads` | 2 overlapping sessions | violation | two workflows run at once |

Two sessions are enough for one to join the worker the other created while that is being
assigned; the theorem on `WorkerOwned` covers any number, and so does its consequence that workflows overlap only
on the way to `std::terminate`. `fw_concurrent` uses the image
class that exercises the rollback and the empty one, since the race does not depend on it;
`fw_serial` uses all four. Sessions are symmetric in `fw_serial`.

### Control loop

| Run | Instance | States | Shows |
|---|---|---|---|
| `svc_safety` | 1 GPU, 1 fan, 1 PSU, 1 NVMe, 3 sessions | 1 866 693 | derived hardware state is consistent; no event twice for one fault; the worker sleeps only on a settled system or with a cycle requested; no wake-up is lost; the cap in force is the published one |
| `svc_live` | 1 GPU, 1 fan, 3 sessions, fair threads | 300 773 | a fault that finds its latch released gets its event, hot GPUs get full fans, `stop` returns |
| `svc_severity` | 1 GPU | violation | a GPU above 90 °C without a Critical event |

`HardwareConsistent` is the conjunction of what must hold between the parts of the hardware:
GPUs are throttled exactly when capped or hot, injected faults keep their symptom, healthy PSUs
carry the load. The budget of `svc_safety`, 364 W, makes the power cap engage and let go within the run,
and only once the fans run fast, so that the thermal policy of a cycle causes the power
decision of the same cycle. Noise is a
single value per run; 0.9 °C makes the ups and downs of a
throttled GPU meet again and keeps the state space small, and the theorems cover every
noise. Two sessions suffice to disturb one cycle and its successor, three to add an
injection after a clear, in `svc_live` as well as in `svc_safety`. `svc_live` leaves PSU and NVMe
out: their latches are those of the fan. Cycles are unlimited: temperatures and powers are clamped.
Stopping leaves the worker `exited` and the model stutters in `Stopped`, so deadlock is
checked.

### Program A as a whole

| Run | Instance | States | Shows |
|---|---|---|---|
| `app` | 1 session, 2 log entries, 3 events, workflows of 2 steps, fair threads | 359 645 | the log keeps the newest entries; subscribers are up to date at rest; everything is stopped before destruction, also after a failed start; only sessions and the firmware worker use destroyed members; shutdown ends |

A log of 2 with 3 events overflows while two callbacks are outstanding. The firmware workflow may run
into the destruction of each member; a session may be anywhere when `main()` returns. One session
is enough for the run, as sessions meet only in the log, on the bus and in the hardware, where
the two workers are; the theorems cover any number.

### MCTP

| Run | Instance | States | Shows |
|---|---|---|---|
| `mctp_stream` | 18 messages of 1 to 6 fragments | 4 123 | only whole messages that were sent are handed on; one that arrives intact is handed on |

The lengths include an empty payload, a single byte, exact multiples of the 64 bytes of a
packet and one byte more; six fragments and 18 messages let both the sequence number (4)
and the tag (8) come round. `MaxLoss = 3` is sharp: with 4 the same run ends with a
message from which four consecutive fragments are missing, and the code cannot know.

### PLDM requests

| Run | Instance | States | Shows |
|---|---|---|---|
| `pldm_exchange` | 1 command, 2 EIDs, 4 faults, accept queue of 2 | 208 812 | an answer is the whole response to the very request made; a confirmed fault is in force until the agent restarts, and no older request can undo it; a caller gives the mutex back; all of it is an `EndpointCalls` |
| `pldm_rejected` | `unsupported_command` | violation | a rejected fault is in force |

The code listens with a backlog of 8. Two are enough here, as they hold an abandoned request
ahead of a live one while a third is being served, and they make `connect` block. The
faults of `pldm_exchange` are one of each kind of effect: an order that loses the message, part of the packets,
garbage, and a responder that refuses everything; `packet_loss` differs from the second in the number of packets,
`sequence_mismatch` from the first in where the reassembler notices, the two
other endpoint faults in the completion code only. `"getPdr"` is the command with a response of two packets at one
EID and of one at the other. `pldm_rejected` runs under `PromptSpec`, in which
the agent stays up, no packet is late and a client times out only when the server sleeps over
its own connection, so that nothing but the code's own logic can make the injection fail.

### Sensor service

| Run | Instance | States | Shows |
|---|---|---|---|
| `sensors` | 1 PLDM sensor, 1 hwmon sensor, the PCIe device, 2 calls of `InjectFault`, fair threads | 389 160 | D-Bus shows an `AlarmBoard`; health matches the published reading and does not flap in the band; the aggregate is that of the worst alarm; a signalled alarm has its entry; changes are signalled; calls and `stop` end; recorded faults show |

The PLDM sensor has an upper limit with a band wide enough for a reading inside it, the other a
lower one, whose fault shows a value that the validation rejects: both directions, both ways to
become unavailable. Faults of the PCIe device are left out of the instance, as they meet the sensors
nowhere but in the aggregate; the theorems cover them. Readings are one well inside, one in the band, one beyond. Two calls
allow a fault and its end, or one fault of each sensor, at any two points of any cycles.

### PCIe driver

| Run | Instance | States | Shows |
|---|---|---|---|
| `drivers` | 2 users, all faults, 5 events, fair release | 33 480 | resources are released in order; nothing runs on freed memory; telemetry is that of the fault; a poller hears of every event; unloading ends |

Five events and a counter of 3 let a spike count, change and come back while a poller
is between its two reads. The module is loaded and unloaded again without limit; the device is fresh each time.

### Fairness

Weak fairness is assumed of each thread that can run: the operating system schedules it. It is
not assumed of what need never happen: a client's request, a signal or stop, the
poll timers, a failure. Where a property needs more, it is stated as its premise or at its specification:

* `FaultReported` and `OverTempCooled` show that the immediate cycle alone does the work. They are
  conditional on the service running. `FaultReported` promises the event to every onset that finds the latch
  of its device released, unless the fault is cleared first; the one onset it leaves out, a fault repeated before its
  latch was released, is `ReoccurrenceLogged` below.
* `ExchangeEnds` needs the agent to be scheduled, its premise `WF_vars(Server)`: a thread in
  `connect()` has no timeout of its own. No fairness of `std::mutex` is assumed, so nothing is
  claimed about a thread that waits for `mctpMutex_`.
* `InjectAnswered` needs none either: the call holds the table's mutex, and so the polling
  thread, which takes `mctpMutex_` over and over, ends up waiting for the call.
* `FaultReflected` has the premise `WF_vars(Timer)`, the interval of `wait_for`.
* `ShutdownCompletes` of `Application` has the premise `SF_vars(Emit("sensor"))`: the sensor
  worker gets `busMutex_` at some time while the process loop gives and takes it. Without it
  the worker may starve there and `stop()` with it, since the loop waits with the mutex held and lets go of it only
  between two calls.
* `UnloadCompletes` uses `SF_vars(Release)`: `del_timer_sync` tries again until it meets the
  timer between two ticks, which are a second apart.
* `EventsReported` has the premise `WF_vars(Poll)`: the process keeps polling.

## Findings

Each is a run that TLC ends with a counterexample to a sentence of the repository.

* **Two overlapping requests start two workers** (`fw_two_threads`), which
  `report_bmc_api.md:577` says the busy check avoids; the later assignment terminates the process.
* **Critical over-temperature is not logged** after a Warning (`svc_severity`): one latch
  serves both thresholds. `docs/thermal-policy.md:42`.
* **A fault that is "rejected" is in force** (`pldm_rejected`): `unsupported_command` and
  `bad_completion_code` are installed before the responder answers, and make it refuse the
  request that installed them. `sensor_manager.cpp:517` reports a rejection, and the fault is not
  recorded among the injected ones. With `Faults = {"packet_loss"}` the same property fails for another
  reason: only a change of behaviour is answered without fault
  (`uds_mctp_transport.cpp:228`), so injecting the transport fault already in force silences its own answer.

Three more, of the same causes or of less consequence, have their property in the module but no
run of their own; each is violated when put into the configuration named:

* `SecondRequestRefused` (as a `PROPERTY` with `SPECIFICATION SerialSpec` in `fw_two_threads.cfg`): even a client that waits
  for its 202 can post a second update before the worker raises `busy`; the request waits in
  `join()` for the whole first workflow and is accepted, where the comment on line 35 of
  `FirmwareUpdateManager.cpp` promises 409.
* `ReoccurrenceLogged` (`svc_severity.cfg` with three sessions and `Baseline <- HotGpu`): a fault cleared and
  injected again between two cycles is not logged again; `report_bmc_api.md:975`. It is the claim of
  `FaultReported` without its exception.
* `PsuPowerAboveTotal` (`svc_severity.cfg` with two sessions): with every PSU failed the published PSU
  power is 0, below the total; `docs/power-policy.md:105`.

Noted while reading, and part of the models as they are:

* `out_of_range` on any target is also written to the hwmon driver (`sensor_manager.cpp:45` and
  `:479`). Its fan then shows a value that the backend rejects, so all three hwmon sensors
  become Unavailable; `docs/architecture.md:185` speaks of the local snapshot only.
* Any failure to read the PCIe module, the injected `telemetry_timeout` included, makes the first PCI
  device of the host take its place, with Health OK (`sensor_manager.cpp:396`);
  `docs/system-internals.md:111` says so of a missing module.
* `setEndpointFault` addresses EID 8 whatever the target, so a fault recorded for a NIC
  sensor is one of the GPU endpoint.
* A sensor with two limits that jumps from beyond one to beyond the other is published as OK,
  with an event of its recovery, for one cycle: an alarm passes through `"none"`. `HealthMatchesReading` and `NoFlapping`
  are therefore about sensors with one limit, all but `Board_Voltage`.
* A detached session, and the firmware worker after the bridge, use destroyed members when the
  process stops at the wrong moment. `OnlyOutliversTouchDestroyed` does not exclude that: it says that nobody
  else does, and that the bridge is all the firmware worker may find gone: what it logs to outlives it.
* `mini_pcie_timer` runs in softirq context and takes a mutex (`mini_pcie_telemetry.c:146`).
* An unknown health counts as OK in the health of the manager (`rest_server.cpp:198`), and
  inventory objects never emit `PropertiesChanged`.

## Proofs

The theorems hold for every value of the constants that satisfies the `ASSUME`s: any
sets of sessions, devices and sensors, any profile with integer temperatures and powers, any noise within the code's
ranges, any budget, limits, readings and bounds.

*Firmware update.* `TypeCorrect` is inductive once scripts are known to consist of
steps; lemmas build `Workflow(u) \in Seq(Steps)` from its parts. `WorkerOwned` is
inductive given types: a handle is emptied only by a join whose worker returned, and
replaced only when empty. `OverlapAlwaysFatal` follows. For serial clients the invariant `SerialInv` adds
`HandleKept` (a session between its join and its assignment finds the handle empty, a
session or destructor in a join finds it taken) and `NeverAborts`; `Serial` itself excludes two
threads in that stretch. `SerialNeverAborts` and `SerialOneWorkflow` are its
consequences.

The busy flag and the broadcasts depend on what a worker has still to do, which `ScriptInv`
says of its script: every state that is stored is announced by the next step (`Announced`), a step that raises the
flag is followed by one that lowers it (`BusyEnds`), and a script is abandoned at a check of the stop flag only once the
destructor runs, as nobody else raises it (`StopIsFinal`). `Workflow(u)` has these properties for every image, put together from its parts by lemmas on
concatenation, and its tails keep them. `BusyNeverLeaked` and `SubscribersAlwaysUpToDate` follow, for overlapping
workers too. `SerialLogInOrder` joins it with `SerialInv` and `LogTail`: the events of a worker that runs are the last of the log.

*Hardware.* `HardwareInv` is `GpusFine` (records, throttling, health and the symptom of
an injected GPU, for a given cap) with `OthersFine`. One lemma per method shows it
preserved; the lemmas on `RefreshThrottle`, `RefreshHealth`, `TickGpu` and `TickNvme`
carry the arithmetic. An injected GPU is clamped to at least 93 °C, which is what keeps it throttled.

*Control loop.* `ServiceImplementsHardware` maps every step of the service to a step of
`HardwareSpec` or a stutter, so `HardwareStaysConsistent` comes without a second induction.
`ServiceTypeCorrect` and `WakeupNeverLost` use `ControlOK`, which ties `running_`, the flag and
the worker to the main thread. `CapAlwaysMatches` strengthens the property by what the worker
holds between the two calls (`CapInvariant`). `NeverSpurious` needs `EventsInvariant`: a device that is
faulty and not latched is owed exactly its event. `SleepsOnlySettled` rests on
`CycleInvariant`: after each call of a cycle, `Calm` (no session is between its change and its request, and
none was requested) implies that the policies evaluated so far match the current hardware, step by step until
all of `Settled` holds.

*Application.* `LifeInv` ties the flags `serving`, `cycling`, `running` and the bus to the place of the main thread, and each
thread to the flag it obeys. After a failure at any step the clean-up meets only what was started, so
`NothingLeftRunning` follows; `OnlyOutliversTouch` adds that until the first member goes nothing is
touched, and that from then on only sessions and the firmware worker take steps, the latter only while
logger and itself are alive. `LogInv` is what `LogAlwaysKeepsNewest` needs to know of lengths. `OwedInv` is what subscribers have coming:
each stale interface is owed a signal by a thread on its way to an emitter, or by a cycle that runs or is due
(`CycleDue`); a session owes the request for that cycle from the moment it changed the hardware.
`NothingStaysStale` is the case in which nobody owes anything.

*Reassembler.* For any number of messages of any size and `MaxLoss < 4`, `StreamInv`
is inductive: whatever is being assembled is a prefix of some message (`Assembling`), and
the sender is ahead of it by at least the packets lost (`Behind`). Then a packet that
passes the checks is the very next one (`FitsMeansNext`): another message with the same tag
is eight messages ahead and another fragment with the same sequence number four.
`OnlySentIsDelivered` follows; `IntactDelivered` adds `KeptUp`, the receiver's state while
nothing of the current message was lost.

*PLDM requests.* `PldmInv` rests on three facts. The mutex is held by one thread (`OneExchange`). A connection
that its client has not given up is the last of the queue (`LiveIsLast`), so when its answer arrives every older request
has been served and none can undo it. And what is in flight (`Arriving`) is one of the forms in
which the server sends a response, listed by `InFlight` together with what the reassembler has of it: whole,
half, in the wrong order, with a wrong sequence number or cut short. Only the whole form passes
`Accepts` and the reassembler; `AnswersAlwaysGenuine` and `ConfirmedAlwaysHolds` follow.
`ExchangeImplementsCalls` uses the same invariant: a served connection is `Execute`, with or without a reply, a
packet that completes an answer is `Answer`, every other end is `Fail`, and the steps in between are stutters.

*Sensor service.* The invariant has two halves. `ControlOK` says where the threads and
locks are and what types the rest has. `BoardOK` relates the three copies of what is known of a
sensor: the level of the threshold engine, the member `sensors_`, and its two D-Bus objects. They differ only
while the polling thread publishes; `EventsOK`, `PublishOK` and `RestOK` say by how much at each place, in
terms of `newEvents` and `pending`. Steps that touch none of the three are done once (`Quiet`), which
leaves `Initialize`, `Discover`, `Evaluate` and the two publications to argue about.
`ManagerImplementsBoard`, the refinement, `HealthAlwaysMatchesReading`, `HealthNeverFlaps`, `SignalledAlarmsHaveEntries` and
`AggregateAlwaysMatchesLog` are consequences. `InitialAssumption`, that no sensor starts in
alarm, is for the objects that are published before the first evaluation. `HandlersFindNothingQueued`, a theorem
of its own, needs neither half: while handlers run, `DbusFree` keeps the other thread from the table.

*PCIe driver.* `Standing` lists the seven pairs of what is in place and what releases it, the
heart of `LifeOK`: whatever label a failure jumps to, the two match. `DriverInvariant` adds
who may be where in which phase; `AlwaysReleasedInOrder`, `NeverUsedAfterFree`, `TelemetryAlwaysMatches` and
`WakeupNeverLost` follow.

*Only model-checked:* the liveness properties, which with what needs `ENABLED` are beyond the prover:
`EveryRequestAnswered`, both `ShutdownCompletes`, `FaultReported`, `OverTempCooled`, both `StopCompletes`,
`ExchangeEnds`, `ChangesAnnounced`, `InjectAnswered`, `FaultReflected`, `EventsReported`, `UnloadCompletes`. Every
invariant, action property and refinement that a passing run checks is also a theorem. That
`SumOver` adds up the powers is used nowhere in the proofs, since what a fold computes needs induction.

## Not modelled

* Wording of events, JSON, HTTP parsing and routing, D-Bus marshalling, the profile's file:
  formatting or input.
* Real time: sleeps and timers are nondeterministic delays.
* `HardwareModel` with profiles that give fans different PWM values.
* `Application` does not repeat what the control loop and the firmware updater compute; that a snapshot
  joins hardware and firmware states of different moments has no consequence in the code, which only prints it.
* MCTP: a packet's bytes (header, flags, type) and several senders into one reassembler;
  a client that connects and stays silent, which blocks the server (`mctp_ping` and the sensor
  service send at once).
* PDR contents: discovery is the number of records read and the limits they give.
* `SensorManager` treats an exchange as one of its outcomes; `PldmExchange` has its steps. The growth of the event list and of the
  object table is not modelled, one entry per sensor stands for all.
* The REST service's single bus connection used by several HTTP threads: sd-bus leaves it undefined.
* Of the nine files of the PCIe device only the fault mode and the health: the others differ in
  counters and names, which no decision of the service uses.
* Which combination of values read from several files is wrong: mixtures of two faults happen in the model as in
  the code, but nothing in the code relates the values, so there is nothing to state.
* What a client may expect of several recorded faults that share the endpoint's one slot: the code and its
  documents say nothing of it.
* `mini_i2c_hwmon` beyond its fault and the values shown: it has no other state.
* Command-line tools and scripts keep no state.

## Plan

What is left, by consequence:

1. Discovery record by record, with an agent that restarts in between.
2. `SensorManager` on top of `EndpointCalls` instead of its own outcomes of an exchange.
3. An abstract specification of the firmware updater (one update at a time, each with one final state),
   implemented under `SerialSpec`.
