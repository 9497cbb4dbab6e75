--------------------------- MODULE MiniPcieTelemetry ---------------------------
(***************************************************************************)
(* The kernel module mini_pcie_telemetry of mini-openbmc-platform-service: *)
(* loading with its error path, unloading, the timer, attributes in sysfs, *)
(* and one process that polls the character device for events.             *)
(*                                                                         *)
(* What runs under the device's lock is one action.  Of the kernel around  *)
(* it is assumed what it documents: an open file keeps the module loaded,  *)
(* device_destroy() waits for callers inside the attributes,               *)
(* del_timer_sync() for a running handler.                                 *)
(***************************************************************************)
EXTENDS Integers, Sequences, FiniteSets, SequencesExt

CONSTANTS
  Users,         \* threads that use the attributes
  Faults,        \* the faults they set
  MaxSequence,   \* bound on event_sequence
  MaxCount       \* bound on correctable_error_count, in hundreds

AllFaults == {"none", "link_down", "link_degraded", "correctable_error_spike",
              "nonfatal_error", "telemetry_timeout", "over_temperature", "over_power"}

ASSUME FaultsAssumption == Faults \subseteq AllFaults
ASSUME BoundsAssumption == MaxSequence \in Nat /\ MaxCount \in Nat \ {0}

\* What init acquires, in this order; the lock and the wait queue come with the memory.
Resources == <<"memory", "region", "cdev", "class", "device", "timer">>

VARIABLES
  module,      \* "absent", "loading", "loaded", "releasing"
  held,        \* the resources in place
  releasing,   \* those that the error path or exit still has to release
  timer,       \* "none", "armed" or "running"
  user,        \* whether each user is inside an attribute
  fault,       \* member fault
  telemetry,   \* member telemetry, its constant parts left out
  sequence,    \* member event_sequence
  file,        \* where the process with the device file is
  context,     \* event_sequence in the file's context
  woken        \* it was woken since it last looked

deviceVars == <<fault, telemetry, sequence>>
fileVars == <<file, context, woken>>
vars == <<module, held, releasing, timer, user, deviceVars, fileVars>>

-----------------------------------------------------------------------------
(* The telemetry.                                                           *)

\* reset_telemetry().
Baseline == [width |-> 16, state |-> "L0", temp |-> 65, power |-> 250,
             correctable |-> 0, nonfatal |-> 0, health |-> "OK"]

ResetTelemetry == Baseline

\* apply_fault(), but for the event.
WithFault(t, f) ==
  CASE f = "link_down" -> [t EXCEPT !.state = "Down", !.health = "Critical"]
    [] f = "link_degraded" -> [t EXCEPT !.width = 8, !.health = "Warning"]
    [] f = "correctable_error_spike" -> [t EXCEPT !.correctable = @ + 1, !.health = "Warning"]
    [] f = "nonfatal_error" -> [t EXCEPT !.nonfatal = @ + 1, !.health = "Critical"]
    [] f = "over_temperature" -> [t EXCEPT !.temp = 95, !.health = "Critical"]
    [] f = "over_power" -> [t EXCEPT !.power = 350, !.health = "Critical"]
    [] OTHER -> t

\* Mutation of Queued: poll() registers after it has compared.
QueuedLate == file = "asleep"

\* The file's process is in the wait queue.
Queued == file \in {"registered", "differs", "compared", "asleep"}

\* event_sequence++ and wake_up_interruptible().
Event ==
  /\ sequence < MaxSequence
  /\ sequence' = sequence + 1
  /\ woken' = (woken \/ Queued)

ApplyFault(f) ==
  /\ fault' = f
  /\ telemetry' = WithFault(ResetTelemetry, f)
  /\ Event

Init ==
  /\ module = "absent"
  /\ held = {} /\ releasing = <<>>
  /\ timer = "none"
  /\ user = [u \in Users |-> "outside"]
  /\ fault = "none" /\ telemetry = Baseline /\ sequence = 0
  /\ file = "closed" /\ context = 0 /\ woken = FALSE

-----------------------------------------------------------------------------
(* mini_pcie_init and mini_pcie_exit.                                       *)

NextResource == Resources[Cardinality(held) + 1]

\* Mutation of ErrorPath: without a class the character device is left in place.
ErrorPathKeepsCdev(failed) ==
  CASE failed = "memory" -> <<>>
    [] failed = "region" -> <<"memory">>
    [] failed = "cdev" -> <<"region", "memory">>
    [] failed = "class" -> <<"region", "memory">>
    [] failed = "device" -> <<"class", "cdev", "region", "memory">>

\* What the label releases to which a failure jumps.
ErrorPath(failed) ==
  CASE failed = "memory" -> <<>>
    [] failed = "region" -> <<"memory">>
    [] failed = "cdev" -> <<"region", "memory">>
    [] failed = "class" -> <<"cdev", "region", "memory">>
    [] failed = "device" -> <<"class", "cdev", "region", "memory">>

Load ==
  /\ module = "absent"
  /\ module' = "loading"
  /\ UNCHANGED <<held, releasing, timer, user, deviceVars, fileVars>>

Acquire ==
  /\ module = "loading"
  /\ held' = held \cup {NextResource}
  /\ IF NextResource = "memory"           \* kzalloc(), reset_telemetry()
     THEN fault' = "none" /\ telemetry' = Baseline /\ sequence' = 0
     ELSE UNCHANGED deviceVars
  /\ timer' = IF NextResource = "timer" THEN "armed" ELSE timer
  /\ module' = IF NextResource = "timer" THEN "loaded" ELSE module
  /\ UNCHANGED <<releasing, user, fileVars>>

Fail ==
  /\ module = "loading"
  /\ NextResource # "timer"
  /\ releasing' = ErrorPath(NextResource)
  /\ module' = "releasing"
  /\ UNCHANGED <<held, timer, user, deviceVars, fileVars>>

\* rmmod: refused while a file is open.
Unload ==
  /\ module = "loaded"
  /\ file = "closed"
  /\ releasing' = <<"timer", "device", "class", "cdev", "region", "memory">>
  /\ module' = "releasing"
  /\ UNCHANGED <<held, timer, user, deviceVars, fileVars>>

\* Mutation of TimerIdle: del_timer() does not wait for the handler.
TimerIdleOrNot == TRUE

\* Mutation of TimerIdle: exit waits for a timer that always arms itself again.
TimerIdleForGood == timer = "none"

TimerIdle == timer # "running"

Release ==
  /\ module = "releasing"
  /\ releasing # <<>>
  /\ Head(releasing) = "timer" => TimerIdle
  /\ Head(releasing) = "device" => \A u \in Users : user[u] = "outside"
  /\ timer' = IF Head(releasing) = "timer" /\ timer = "armed" THEN "none" ELSE timer
  /\ held' = held \ {Head(releasing)}
  /\ releasing' = Tail(releasing)
  /\ UNCHANGED <<module, user, deviceVars, fileVars>>

Released ==
  /\ module = "releasing"
  /\ releasing = <<>>
  /\ module' = "absent"
  /\ UNCHANGED <<held, releasing, timer, user, deviceVars, fileVars>>

-----------------------------------------------------------------------------
(* mini_pcie_timer.                                                         *)

Fire ==
  /\ timer = "armed"
  /\ timer' = "running"
  /\ UNCHANGED <<module, held, releasing, user, deviceVars, fileVars>>

\* Mutation of Spiking: the handler does not look at the fault under the lock.
SpikingOrNot == TRUE

Spiking == fault = "correctable_error_spike"

\* The handler, up to mod_timer().
Tick ==
  /\ timer = "running"
  /\ timer' = "armed"
  /\ \/ /\ Spiking
        /\ telemetry.correctable < MaxCount
        /\ telemetry' = [telemetry EXCEPT !.correctable = @ + 1]
        /\ Event
     \/ /\ ~Spiking \/ telemetry.correctable >= MaxCount \/ sequence >= MaxSequence
        /\ UNCHANGED <<telemetry, sequence, woken>>
  /\ UNCHANGED <<module, held, releasing, user, fault, file, context>>

-----------------------------------------------------------------------------
(* The attributes.                                                          *)

\* They exist from device_create_with_groups() to device_destroy(), which
\* deactivates them before it waits.
Enter(u) ==
  /\ "device" \in held
  /\ ~(module = "releasing" /\ Head(releasing) = "device")
  /\ user[u] = "outside"
  /\ user' = [user EXCEPT ![u] = "inside"]
  /\ UNCHANGED <<module, held, releasing, timer, deviceVars, fileVars>>

\* fault_mode_store().
Store(u) ==
  /\ user[u] = "inside"
  /\ \E f \in Faults : ApplyFault(f)
  /\ user' = [user EXCEPT ![u] = "outside"]
  /\ UNCHANGED <<module, held, releasing, timer, file, context>>

\* Any show function, or a store of something else.
Show(u) ==
  /\ user[u] = "inside"
  /\ user' = [user EXCEPT ![u] = "outside"]
  /\ UNCHANGED <<module, held, releasing, timer, deviceVars, fileVars>>

-----------------------------------------------------------------------------
(* The character device.                                                    *)

FileOnly == UNCHANGED <<module, held, releasing, timer, user, deviceVars>>

\* The device node appears with the device.
Open ==
  /\ file = "closed"
  /\ "device" \in held
  /\ module \in {"loading", "loaded"}
  /\ file' = "open"
  /\ context' = sequence
  /\ woken' = FALSE
  /\ FileOnly

Close ==
  /\ file = "open"
  /\ file' = "closed"
  /\ FileOnly
  /\ UNCHANGED <<context, woken>>

\* MINI_PCIE_SET_FAULT, MINI_PCIE_CLEAR_FAULT and MINI_PCIE_INJECT_EVENT.
Ioctl ==
  /\ file = "open"
  /\ \/ \E f \in Faults \cup {"none"} : ApplyFault(f)
     \/ Event /\ UNCHANGED <<fault, telemetry>>
  /\ UNCHANGED <<module, held, releasing, timer, user, file, context>>

\* poll_wait() in a first call of mini_pcie_poll().
PollWait ==
  /\ file = "open"
  /\ file' = "registered"
  /\ woken' = FALSE
  /\ FileOnly
  /\ UNCHANGED context

\* The comparison; nothing is locked.
Compare ==
  /\ file = "registered"
  /\ file' = IF context # sequence THEN "differs" ELSE "compared"
  /\ FileOnly
  /\ UNCHANGED <<context, woken>>

\* The second read; poll() returns with an event.
Report ==
  /\ file = "differs"
  /\ context' = sequence
  /\ file' = "open"
  /\ FileOnly
  /\ UNCHANGED woken

\* The kernel sleeps unless woken since, and calls mini_pcie_poll() again then.
Sleep ==
  /\ file = "compared"
  /\ ~woken
  /\ file' = "asleep"
  /\ FileOnly
  /\ UNCHANGED <<context, woken>>

LookAgain ==
  /\ file \in {"compared", "asleep"}
  /\ woken
  /\ file' = "registered"
  /\ woken' = FALSE
  /\ FileOnly
  /\ UNCHANGED context

PollTimesOut ==
  /\ file = "asleep"
  /\ file' = "open"
  /\ FileOnly
  /\ UNCHANGED <<context, woken>>

Poll == PollWait \/ Compare \/ Report \/ Sleep \/ LookAgain

Next ==
  \/ Load \/ Acquire \/ Fail \/ Unload \/ Release \/ Released
  \/ Fire \/ Tick
  \/ \E u \in Users : Enter(u) \/ Store(u) \/ Show(u)
  \/ Open \/ Close \/ Ioctl \/ Poll \/ PollTimesOut

Spec == Init /\ [][Next]_vars

\* A release goes on: del_timer_sync() tries again until it meets the timer between
\* two ticks, which are a second apart, hence SF.  The handler runs once called, and
\* callers get out of the attributes.  Nothing makes the timer fire or a poll time out.
FairSpec ==
  /\ Spec
  /\ SF_vars(Release) /\ WF_vars(Released) /\ WF_vars(Tick)
  /\ \A u \in Users : WF_vars(Show(u))
-----------------------------------------------------------------------------
(* Properties                                                               *)

TypeOK ==
  /\ module \in {"absent", "loading", "loaded", "releasing"}
  /\ held \subseteq Range(Resources)
  /\ releasing \in Seq(Range(Resources))
  /\ timer \in {"none", "armed", "running"}
  /\ user \in [Users -> {"outside", "inside"}]
  /\ fault \in AllFaults
  /\ telemetry.correctable \in 0..MaxCount
  /\ sequence \in 0..MaxSequence
  /\ file \in {"closed", "open", "registered", "differs", "compared", "asleep"}
  /\ context \in 0..MaxSequence
  /\ woken \in BOOLEAN

\* While anything still stands, all that it was built on does; when the module is
\* gone, be it after an unload or after a failure at any step of loading, nothing
\* is left behind (mini_pcie_telemetry.c:418 to 427 and 432 to 438).
ReleasedInOrder ==
  /\ \A i \in 1..(Len(Resources) - 1) : Resources[i + 1] \in held => Resources[i] \in held
  /\ module = "absent" => held = {}

\* Nobody is inside the driver, and no timer is armed or running, once its memory is
\* freed.
NoUseAfterFree ==
  "memory" \notin held =>
    timer = "none" /\ file = "closed" /\ \A u \in Users : user[u] = "outside"

\* Whatever faults came before and whenever the timer ticked: the telemetry is the
\* baseline with the fault in force, and only a spike counts on.
TelemetryMatchesFault ==
  /\ telemetry = [WithFault(Baseline, fault) EXCEPT !.correctable = telemetry.correctable]
  /\ IF fault = "correctable_error_spike" THEN telemetry.correctable >= 1
                                          ELSE telemetry.correctable = 0

\* A poller never sleeps through an event: it is registered before it compares
\* (mini_pcie_telemetry.c:359).
NoWakeupLost == file = "asleep" /\ context # sequence => woken

\* A process that keeps polling, without a timeout, hears of every event; an event
\* between the two reads is reported with the one before (line 361).
EventsReported ==
  WF_vars(Poll) => (file # "closed" /\ context # sequence ~> file = "closed" \/ context = sequence)

\* Unloading ends although the timer arms itself again and attributes are in use.
UnloadCompletes == module = "releasing" ~> module = "absent"
=============================================================================
