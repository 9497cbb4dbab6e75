--------------------------- MODULE ApplicationProofs ---------------------------
(***************************************************************************)
(* What start-up, shutdown and destruction of the application keep true,   *)
(* for any number of HTTP sessions and any size of the event log.          *)
(***************************************************************************)
EXTENDS Application, SequenceTheorems, TLAPS

-----------------------------------------------------------------------------
(* Members and their destruction.                                           *)

LEMMA MembersAre ==
  /\ Len(Members) = 8 /\ DOMAIN Members = 1..8
  /\ Members[1] = "redfish" /\ Members[2] = "bridge" /\ Members[3] = "management"
  /\ Members[4] = "faults" /\ Members[5] = "sensor" /\ Members[6] = "firmware"
  /\ Members[7] = "logger" /\ Members[8] = "hardware"
  /\ Range(Members) = {"redfish", "bridge", "management", "faults", "sensor", "firmware",
                       "logger", "hardware"}
<1>1. /\ Len(Members) = 8 /\ DOMAIN Members = 1..8
      /\ Members[1] = "redfish" /\ Members[2] = "bridge" /\ Members[3] = "management"
      /\ Members[4] = "faults" /\ Members[5] = "sensor" /\ Members[6] = "firmware"
      /\ Members[7] = "logger" /\ Members[8] = "hardware"
  BY DEF Members
<1>2. 1..8 = {1, 2, 3, 4, 5, 6, 7, 8}
  OBVIOUS
<1>3. Range(Members) = {Members[i] : i \in 1..8}
  BY <1>1 DEF Range
<1> QED
  BY <1>1, <1>2, <1>3

LEMMA AliveIs ==
  ASSUME alive \in 0..8
  PROVE  /\ alive = 8 => \A m \in Range(Members) : Alive(m)
         /\ Alive("firmware") <=> alive >= 3
         /\ alive >= 3 => Alive("logger")
<1>1. alive = 8 => \A m \in Range(Members) : Alive(m)
  BY MembersAre DEF Alive, Range
<1>2. Alive("firmware") <=> 6 > 8 - alive
  BY MembersAre DEF Alive
<1>3. Alive("logger") <=> 7 > 8 - alive
  BY MembersAre DEF Alive
<1> QED
  BY <1>1, <1>2, <1>3

-----------------------------------------------------------------------------
(* The course of a life.                                                    *)

AtOK ==
  /\ at \in [Threads -> {"absent", "top", "processing", "between", "waiting", "ended",
                         "work", "event", "status", "cycle", "all", "open", "injected"}]
  /\ at["loop"] \in {"absent", "top", "processing", "between", "waiting", "ended"}
  /\ at["sensor"] \in {"absent", "work", "event", "cycle", "all", "waiting", "ended"}
  /\ at["firmware"] \in {"absent", "work", "event", "status"}
  /\ \A h \in Sessions : at[h] \in {"absent", "open", "work", "injected"}

MainOK ==
  /\ main \in {"start bridge", "start sensor", "start redfish", "request", "run",
               "stop redfish", "stop sensor", "join sensor", "stop bridge", "join bridge",
               "destroy", "exited"}
  /\ serving \in BOOLEAN /\ cycling \in BOOLEAN /\ running \in BOOLEAN
  /\ bus \in {"none", "system", "user"}
  /\ alive \in 0..8
  /\ serving => main \in {"request", "run", "stop redfish"}
  /\ cycling => main \in {"start redfish", "request", "run", "stop redfish", "stop sensor"}
  /\ running => main \notin {"start bridge", "join bridge", "destroy", "exited"}
  /\ bus # "none" => main \notin {"start bridge", "destroy", "exited"}
  /\ alive # 8 => main \in {"destroy", "exited"}

Ended(t) == at[t] \in {"absent", "ended"}

ThreadsOK ==
  /\ bus = "none" /\ main \notin {"destroy", "exited"} => at["loop"] = "absent"
  /\ main \in {"destroy", "exited"} => Ended("loop")
  /\ main \in {"start bridge", "start sensor"} => at["sensor"] = "absent"
  /\ main \in {"stop bridge", "join bridge", "destroy", "exited"} => Ended("sensor")
  /\ at["firmware"] # "absent" => alive >= 3

LifeInv == AtOK /\ MainOK /\ ThreadsOK

LEMMA ThreadNames ==
  /\ "loop" \in Threads /\ "sensor" \in Threads /\ "firmware" \in Threads
  /\ Sessions \subseteq Threads
  /\ \A h \in Sessions : h # "loop" /\ h # "sensor" /\ h # "firmware"
BY SessionsAssumption DEF Threads

\* A thread that goes to a place moves no other.
LEMMA Moved ==
  ASSUME AtOK, NEW t \in Threads, NEW place, Goes(t, place)
  PROVE  /\ DOMAIN at' = Threads
         /\ at'[t] = place
         /\ \A x \in Threads \ {t} : at'[x] = at[x]
BY DEF AtOK, Goes

\* The places of each thread are closed under its moves.
LEMMA MovedOK ==
  ASSUME AtOK, NEW t \in Threads, NEW place, Goes(t, place),
         \/ /\ t = "loop"
            /\ place \in {"absent", "top", "processing", "between", "waiting", "ended"}
         \/ /\ t = "sensor"
            /\ place \in {"absent", "work", "event", "cycle", "all", "waiting", "ended"}
         \/ t = "firmware" /\ place \in {"absent", "work", "event", "status"}
         \/ t \in Sessions /\ place \in {"absent", "open", "work", "injected"}
  PROVE  AtOK'
<1>1. at' = [at EXCEPT ![t] = place]
  BY DEF Goes
<1> QED
  BY <1>1, ThreadNames DEF AtOK

-----------------------------------------------------------------------------
(* Every step keeps the invariant.                                          *)

LEMMA LifeInit == Init => LifeInv
<1> SUFFICES ASSUME Init PROVE LifeInv
  OBVIOUS
<1>1. AtOK
  BY ThreadNames DEF Init, AtOK
<1>2. MainOK
  <2>1. alive = 8 /\ main = "start bridge" /\ bus = "none"
    BY MembersAre DEF Init
  <2>2. serving \in BOOLEAN /\ cycling \in BOOLEAN /\ running \in BOOLEAN
    BY DEF Init
  <2>3. serving = FALSE /\ cycling = FALSE /\ running = FALSE
    BY Zenon DEF Init
  <2>4. 8 \in 0..8
    OBVIOUS
  <2>5. bus \in {"none", "system", "user"} /\ ~(bus # "none")
    BY <2>1
  <2> QED
    BY <2>1, <2>2, <2>3, <2>4, <2>5, Zenon DEF MainOK
<1>3. ThreadsOK
  <2>1. \A t \in Threads : at[t] = "absent"
    BY DEF Init
  <2>2. main = "start bridge" /\ bus = "none"
    BY DEF Init
  <2> QED
    BY <2>1, <2>2, ThreadNames DEF ThreadsOK
<1> QED
  BY <1>1, <1>2, <1>3 DEF LifeInv

\* What a worker does that only moves itself.
LEMMA LoopKeeps == LifeInv /\ Loop => LifeInv'
<1> SUFFICES ASSUME LifeInv, Loop PROVE LifeInv'
  OBVIOUS
<1>1. /\ at["loop"] \in {"top", "processing", "between", "waiting"}
      /\ \E to \in {"processing", "between", "waiting", "top", "ended"} : Goes("loop", to)
      /\ UNCHANGED <<main, serving, cycling, running, bus, alive>>
  BY DEF Loop, LoopStep, LoopEnds
<1>2. AtOK' /\ at'["sensor"] = at["sensor"] /\ at'["firmware"] = at["firmware"]
  BY <1>1, Moved, MovedOK, ThreadNames DEF LifeInv
<1>3. bus # "none" /\ main \notin {"destroy", "exited"}
  BY <1>1 DEF LifeInv, MainOK, ThreadsOK, Ended
<1> QED
  BY <1>1, <1>2, <1>3 DEF LifeInv, MainOK, ThreadsOK, Ended

LEMMA SensorKeeps ==
  ASSUME LifeInv, SensorWork \/ CycleDone \/ SensorWakes \/ Emit("sensor")
  PROVE  LifeInv'
<1>1. /\ ~Ended("sensor")
      /\ \/ at' = at
         \/ \E to \in {"work", "event", "cycle", "all", "waiting", "ended"} : Goes("sensor", to)
      /\ UNCHANGED <<main, serving, cycling, running, bus, alive>>
  BY DEF SensorWork, CycleDone, SensorWakes, Emit, Emitting, After, Ended
<1>2. AtOK' /\ at'["loop"] = at["loop"] /\ at'["firmware"] = at["firmware"]
  <2>1. CASE at' = at
    BY <2>1 DEF LifeInv, AtOK
  <2>2. CASE \E to \in {"work", "event", "cycle", "all", "waiting", "ended"} :
               Goes("sensor", to)
    BY <2>2, Moved, MovedOK, ThreadNames DEF LifeInv
  <2> QED
    BY <1>1, <2>1, <2>2
<1> QED
  BY <1>1, <1>2 DEF LifeInv, MainOK, ThreadsOK, Ended

LEMMA FirmwareKeeps ==
  ASSUME LifeInv, FirmwareWork \/ Emit("firmware")
  PROVE  LifeInv'
<1>1. /\ at["firmware"] # "absent"
      /\ \E to \in {"absent", "work", "event", "status"} : Goes("firmware", to)
      /\ UNCHANGED <<main, serving, cycling, running, bus, alive>>
  BY DEF FirmwareWork, Emit, Emitting, After, LifeInv, AtOK
<1>2. AtOK' /\ at'["loop"] = at["loop"] /\ at'["sensor"] = at["sensor"]
  BY <1>1, Moved, MovedOK, ThreadNames DEF LifeInv
<1> QED
  BY <1>1, <1>2 DEF LifeInv, MainOK, ThreadsOK, Ended

\* A session may also start the firmware worker.
LEMMA SessionKeeps ==
  ASSUME LifeInv, NEW h \in Sessions, Accept(h) \/ Session(h)
  PROVE  LifeInv'
<1>1. UNCHANGED <<main, serving, cycling, running, bus, alive>>
  BY DEF Accept, Session, Read, Respond, Inject, RequestCycle, RequestUpdate
<1>2. CASE \E to \in {"open", "absent", "work", "injected"} : Goes(h, to)
  <2>1. AtOK' /\ \A t \in {"loop", "sensor", "firmware"} : at'[t] = at[t]
    BY <1>2, Moved, MovedOK, ThreadNames DEF LifeInv
  <2> QED
    BY <1>1, <2>1 DEF LifeInv, MainOK, ThreadsOK, Ended
<1>3. CASE Goes("firmware", "work") /\ Alive("firmware")
  <2>1. AtOK' /\ at'["loop"] = at["loop"] /\ at'["sensor"] = at["sensor"]
    BY <1>3, Moved, MovedOK, ThreadNames DEF LifeInv
  <2>2. alive >= 3
    BY <1>3, AliveIs DEF LifeInv, MainOK
  <2> QED
    BY <1>1, <2>1, <2>2 DEF LifeInv, MainOK, ThreadsOK, Ended
<1>4. CASE at' = at
  <2>1. AtOK'
    BY <1>4 DEF LifeInv, AtOK
  <2> QED
    BY <1>1, <1>4, <2>1 DEF LifeInv, MainOK, ThreadsOK, Ended
<1>5. Accept(h) => Goes(h, "open")
  BY DEF Accept
<1>6. Session(h) => \/ \E to \in {"absent", "work", "injected"} : Goes(h, to)
                    \/ Goes("firmware", "work") /\ Alive("firmware")
                    \/ at' = at
  BY DEF Session, Read, Respond, Inject, RequestCycle, RequestUpdate
<1> QED
  BY <1>2, <1>3, <1>4, <1>5, <1>6

LEMMA MainKeeps == LifeInv /\ (MainProgress \/ Signal) => LifeInv'
<1> SUFFICES ASSUME LifeInv, MainProgress \/ Signal PROVE LifeInv'
  OBVIOUS
<1>1. CASE StartBridge
  <2>1. CASE /\ Buses # {}
             /\ bus' = ConnectedBus /\ running' = TRUE /\ Goes("loop", "top")
             /\ main' = "start sensor"
    <3>1. AtOK' /\ at'["sensor"] = at["sensor"] /\ at'["firmware"] = at["firmware"]
      BY <2>1, Moved, MovedOK, ThreadNames DEF LifeInv
    <3>2. bus' \in {"system", "user"}
      BY <2>1 DEF ConnectedBus
    <3> QED
      BY <1>1, <2>1, <3>1, <3>2 DEF StartBridge, LifeInv, MainOK, ThreadsOK, Ended
  <2>2. CASE main' = "stop redfish" /\ UNCHANGED <<bus, running, at>>
    BY <1>1, <2>2 DEF StartBridge, LifeInv, AtOK, MainOK, ThreadsOK, Ended
  <2> QED
    BY <1>1, <2>1, <2>2 DEF StartBridge
<1>2. CASE StartSensor
  <2>1. AtOK' /\ at'["loop"] = at["loop"] /\ at'["firmware"] = at["firmware"]
    BY <1>2, Moved, MovedOK, ThreadNames DEF LifeInv, StartSensor
  <2> QED
    BY <1>2, <2>1 DEF StartSensor, LifeInv, MainOK, ThreadsOK, Ended
<1>3. CASE Exit
  <2>1. AtOK' /\ at'["loop"] = "absent" /\ at'["sensor"] = "absent"
        /\ at'["firmware"] = "absent"
    BY <1>3, ThreadNames DEF Exit, AtOK
  <2> QED
    BY <1>3, <2>1 DEF Exit, LifeInv, MainOK, ThreadsOK, Ended
<1>4. CASE Destroy
  <2>1. alive' \in 0..8 /\ AtOK' /\ alive' = alive - 1
    BY <1>4 DEF Destroy, LifeInv, MainOK, AtOK
  <2>2. alive = 3 => at["firmware"] = "absent"
    BY <1>4, MembersAre DEF Destroy
  <2> QED
    BY <1>4, <2>1, <2>2 DEF Destroy, LifeInv, MainOK, ThreadsOK, Ended
<1>5. ASSUME at' = at PROVE AtOK' /\ \A x \in Threads : Ended(x)' <=> Ended(x)
  BY <1>5 DEF LifeInv, AtOK, Ended
<1>6. CASE StartRedfish
  <2>1. at' = at
    BY <1>6 DEF StartRedfish
  <2>2. MainOK'
    BY <1>6 DEF StartRedfish, LifeInv, MainOK
  <2>3. ThreadsOK'
    BY <1>6, <2>1, <1>5 DEF StartRedfish, LifeInv, MainOK, ThreadsOK, Ended
  <2> QED
    BY <2>1, <2>2, <2>3, <1>5 DEF LifeInv
<1>7. CASE RequestFirst
  <2>1. at' = at
    BY <1>7 DEF RequestFirst
  <2>2. MainOK'
    BY <1>7 DEF RequestFirst, LifeInv, MainOK
  <2>3. ThreadsOK'
    BY <1>7, <2>1, <1>5 DEF RequestFirst, LifeInv, MainOK, ThreadsOK, Ended
  <2> QED
    BY <2>1, <2>2, <2>3, <1>5 DEF LifeInv
<1>8. CASE Signal
  <2>1. at' = at
    BY <1>8 DEF Signal
  <2>2. MainOK'
    BY <1>8 DEF Signal, LifeInv, MainOK
  <2>3. ThreadsOK'
    BY <1>8, <2>1, <1>5 DEF Signal, LifeInv, MainOK, ThreadsOK, Ended
  <2> QED
    BY <2>1, <2>2, <2>3, <1>5 DEF LifeInv
<1>9. CASE StopRedfish
  <2>1. at' = at
    BY <1>9 DEF StopRedfish
  <2>2. MainOK'
    BY <1>9 DEF StopRedfish, LifeInv, MainOK
  <2>3. ThreadsOK'
    BY <1>9, <2>1, <1>5 DEF StopRedfish, LifeInv, MainOK, ThreadsOK, Ended
  <2> QED
    BY <2>1, <2>2, <2>3, <1>5 DEF LifeInv
<1>10. CASE StopSensor
  <2>1. at' = at
    BY <1>10 DEF StopSensor
  <2>2. MainOK'
    BY <1>10 DEF StopSensor, LifeInv, MainOK
  <2>3. ThreadsOK'
    BY <1>10, <2>1, <1>5 DEF StopSensor, LifeInv, MainOK, ThreadsOK, Ended
  <2> QED
    BY <2>1, <2>2, <2>3, <1>5 DEF LifeInv
<1>11. CASE JoinSensor
  <2>1. at' = at
    BY <1>11 DEF JoinSensor
  <2>2. MainOK'
    BY <1>11 DEF JoinSensor, LifeInv, MainOK
  <2>3. ThreadsOK'
    BY <1>11, <2>1, <1>5 DEF JoinSensor, SensorGone, LifeInv, MainOK, ThreadsOK, Ended
  <2> QED
    BY <2>1, <2>2, <2>3, <1>5 DEF LifeInv
<1>12. CASE StopBridge
  <2>1. at' = at
    BY <1>12 DEF StopBridge
  <2>2. MainOK'
    BY <1>12 DEF StopBridge, LifeInv, MainOK
  <2>3. ThreadsOK'
    BY <1>12, <2>1, <1>5 DEF StopBridge, LifeInv, MainOK, ThreadsOK, Ended
  <2> QED
    BY <2>1, <2>2, <2>3, <1>5 DEF LifeInv
<1>13. CASE CloseBridge
  <2>1. at' = at
    BY <1>13 DEF CloseBridge
  <2>2. MainOK'
    BY <1>13 DEF CloseBridge, LifeInv, MainOK
  <2>3. ThreadsOK'
    BY <1>13, <2>1, <1>5 DEF CloseBridge, LoopGone, LifeInv, MainOK, ThreadsOK, Ended
  <2> QED
    BY <2>1, <2>2, <2>3, <1>5 DEF LifeInv
<1> QED
  BY <1>1, <1>2, <1>3, <1>4, <1>6, <1>7, <1>8, <1>9, <1>10, <1>11, <1>12, <1>13 DEF MainProgress

LEMMA LifeStep == LifeInv /\ [Next]_vars => LifeInv'
<1> SUFFICES ASSUME LifeInv, [Next]_vars PROVE LifeInv'
  OBVIOUS
<1>1. CASE UNCHANGED vars
  <2>1. AtOK'
    BY <1>1 DEF vars, LifeInv, AtOK
  <2>2. MainOK'
    BY <1>1 DEF vars, LifeInv, MainOK
  <2>3. ThreadsOK'
    BY <1>1 DEF vars, LifeInv, ThreadsOK, Ended
  <2> QED
    BY <2>1, <2>2, <2>3 DEF LifeInv
<1>2. CASE \E t \in Emitters : Emit(t)
  BY <1>2, SensorKeeps, FirmwareKeeps DEF Emitters
<1>3. CASE Next /\ ~(\E t \in Emitters : Emit(t))
  BY <1>3, LoopKeeps, SensorKeeps, FirmwareKeeps, SessionKeeps, MainKeeps, <1>1
     DEF Next, Done
<1> QED
  BY <1>1, <1>2, <1>3

\* The course of the application's life, for any number of sessions.
THEOREM LifeInvariant == Spec => []LifeInv
BY LifeInit, LifeStep, PTL DEF Spec

\* When the destructors run, no thread of a service is left that they do not wait for.
THEOREM NothingLeftRunning == Spec => []NothingRunsAtDestruction
<1>1. LifeInv => NothingRunsAtDestruction
  BY DEF LifeInv, MainOK, ThreadsOK, Ended, NothingRunsAtDestruction
<1> QED
  BY <1>1, LifeInvariant, PTL

-----------------------------------------------------------------------------
(* Who touches what is gone.                                                *)

\* Who works while all members stand touches nothing that is gone.
LEMMA UsesAlive ==
  ASSUME LifeInv, alive = 8, NEW t, NEW ms \in SUBSET Range(Members), Uses(t, ms)
  PROVE  touched' = touched
<1>1. \A m \in ms : Alive(m)
  BY AliveIs
<1>2. {m \in ms : ~Alive(m)} = {}
  BY <1>1
<1>3. {<<t, m>> : m \in {m \in ms : ~Alive(m)}} = {}
  BY <1>2
<1> QED
  BY <1>3 DEF Uses

LEMMA UsesMembers ==
  ASSUME NEW t, NEW ms \in SUBSET Range(Members), Uses(t, ms)
  PROVE  touched' \subseteq touched \cup ({t} \X ms)
BY DEF Uses

LEMMA MembersUsed ==
  /\ Managed \subseteq Range(Members) /\ PropertiesRead \subseteq Range(Members)
  /\ {"redfish"} \cup Managed \subseteq Range(Members)
  /\ {"bridge"} \subseteq Range(Members) /\ {"sensor"} \subseteq Range(Members)
  /\ {"sensor", "hardware", "logger"} \subseteq Range(Members)
  /\ {"firmware", "logger"} \subseteq Range(Members)
  /\ {"management", "faults", "hardware"} \subseteq Range(Members)
  /\ {"faults", "sensor"} \subseteq Range(Members)
  /\ {"management", "firmware", "logger"} \subseteq Range(Members)
BY MembersAre DEF Managed, PropertiesRead

Outliving == (Sessions \X Range(Members)) \cup {<<"firmware", "bridge">>}

LEMMA LoopTouches ==
  ASSUME LifeInv, Loop
  PROVE  touched' = touched
<1>1. alive = 8
  BY DEF Loop, LoopStep, LoopEnds, LifeInv, MainOK, ThreadsOK, Ended
<1>2. Uses("loop", PropertiesRead) \/ Uses("loop", {"bridge"})
  BY DEF Loop, LoopStep, LoopEnds
<1> QED
  BY <1>1, <1>2, UsesAlive, MembersUsed

LEMMA SensorTouches ==
  ASSUME LifeInv, SensorWork \/ CycleDone \/ SensorWakes \/ Emit("sensor")
  PROVE  touched' = touched
<1>1. ~Ended("sensor")
  BY DEF SensorWork, CycleDone, SensorWakes, Emit, Emitting, Ended
<1>2. alive = 8
  BY <1>1 DEF LifeInv, MainOK, ThreadsOK
<1>3. Alive("bridge")
  BY <1>2, AliveIs, MembersAre DEF LifeInv, MainOK
<1>4. CASE SensorWork \/ CycleDone \/ SensorWakes
  <2>1. Uses("sensor", {"sensor", "hardware", "logger"}) \/ Uses("sensor", {"sensor"})
    BY <1>4 DEF SensorWork, CycleDone, SensorWakes
  <2> QED
    BY <1>2, <2>1, UsesAlive, MembersUsed
<1>5. CASE Emit("sensor")
  <2>1. Uses("sensor", {"bridge"}) \/ Uses("sensor", PropertiesRead)
    BY <1>3, <1>5 DEF Emit
  <2> QED
    BY <1>2, <2>1, UsesAlive, MembersUsed
<1> QED
  BY <1>4, <1>5

\* The firmware worker is joined before its manager goes, but after the bridge.
LEMMA FirmwareTouches ==
  ASSUME LifeInv, FirmwareWork \/ Emit("firmware")
  PROVE  touched' \subseteq touched \cup {<<"firmware", "bridge">>}
<1>1. alive \in 0..8 /\ alive >= 3
  BY DEF FirmwareWork, Emit, Emitting, LifeInv, MainOK, ThreadsOK
<1>2. CASE FirmwareWork
  <2>1. Uses("firmware", {"firmware", "logger"})
    BY <1>2 DEF FirmwareWork
  <2>2. Alive("firmware") /\ Alive("logger")
    BY <1>1, AliveIs
  <2> QED
    BY <2>1, <2>2 DEF Uses
<1>3. CASE Emit("firmware")
  <2>1. CASE bus = "none"
    <3>1. Uses("firmware", {"bridge"}) \/ touched' = touched
      BY <1>3, <2>1 DEF Emit
    <3> QED
      BY <3>1 DEF Uses
  <2>2. CASE bus # "none"
    <3>1. alive = 8
      BY <2>2 DEF LifeInv, MainOK
    <3>2. Uses("firmware", PropertiesRead) \/ touched' = touched
      BY <1>3, <2>2 DEF Emit
    <3> QED
      BY <3>1, <3>2, UsesAlive, MembersUsed
  <2> QED
    BY <2>1, <2>2
<1> QED
  BY <1>2, <1>3

LEMMA SessionTouches ==
  ASSUME LifeInv, NEW h \in Sessions, Accept(h) \/ Session(h)
  PROVE  touched' \subseteq touched \cup (Sessions \X Range(Members))
<1>1. \/ touched' = touched
      \/ Uses(h, {"redfish"} \cup Managed) \/ Uses(h, {"management", "faults", "hardware"})
      \/ Uses(h, {"faults", "sensor"}) \/ Uses(h, {"management", "firmware"})
  BY DEF Accept, Session, Read, Respond, Inject, RequestCycle, RequestUpdate
<1>2. ASSUME NEW ms \in SUBSET Range(Members), Uses(h, ms)
      PROVE  touched' \subseteq touched \cup (Sessions \X Range(Members))
  BY <1>2, UsesMembers
<1> QED
  BY <1>1, <1>2, MembersUsed

LEMMA TouchStep ==
  ASSUME LifeInv, touched \subseteq Outliving, [Next]_vars
  PROVE  touched' \subseteq Outliving
<1>1. CASE \E t \in Emitters : Emit(t)
  <2>1. \/ touched' = touched
        \/ touched' \subseteq touched \cup {<<"firmware", "bridge">>}
    BY <1>1, SensorTouches, FirmwareTouches DEF Emitters
  <2> QED
    BY <2>1 DEF Outliving
<1>2. CASE MainProgress \/ Signal \/ Done \/ UNCHANGED vars
  <2>1. touched' = touched
    BY <1>2 DEF MainProgress, Signal, Done, vars, StartBridge, StartSensor, StartRedfish,
                RequestFirst, StopRedfish, StopSensor, JoinSensor, StopBridge, CloseBridge,
                Destroy, Exit, MainUnchanged
  <2> QED
    BY <2>1
<1>3. CASE Loop \/ SensorWork \/ CycleDone \/ SensorWakes
  <2>1. touched' = touched
    BY <1>3, LoopTouches, SensorTouches
  <2> QED
    BY <2>1
<1>4. CASE FirmwareWork
  BY <1>4, FirmwareTouches DEF Outliving
<1>5. ASSUME NEW h \in Sessions, Accept(h) \/ Session(h)
      PROVE  touched' \subseteq Outliving
  BY <1>5, SessionTouches DEF Outliving
<1> QED
  BY <1>1, <1>2, <1>3, <1>4, <1>5 DEF Next

\* Only detached sessions, and for the bridge the firmware worker, use members that
\* are destroyed, however many sessions there are.
THEOREM OnlyOutliversTouch == Spec => []OnlyOutliversTouchDestroyed
<1>1. Init => touched \subseteq Outliving
  BY DEF Init
<1>2. touched \subseteq Outliving => OnlyOutliversTouchDestroyed
  BY DEF Outliving, OnlyOutliversTouchDestroyed
<1>3. LifeInv /\ touched \subseteq Outliving /\ [Next]_vars => (touched \subseteq Outliving)'
  BY TouchStep DEF Outliving
<1> QED
  BY <1>1, <1>2, <1>3, LifeInvariant, PTL DEF Spec

-----------------------------------------------------------------------------
(* Types, and the log.                                                      *)

DataOK ==
  /\ immediate \in BOOLEAN
  /\ left \in 0..MaxSteps
  /\ stale \subseteq Interfaces
  /\ logged \in Seq(Emitters) /\ entries \in Seq(Emitters)

\* The log as it is described in LogKeepsNewest, entry by entry.
LogInv ==
  /\ Len(entries) = IF Len(logged) > MaxEntries THEN MaxEntries ELSE Len(logged)
  /\ \A i \in 1..Len(entries) : entries[i] = logged[Len(logged) - Len(entries) + i]

\* Making room and adding an event keeps the newest ones.
LEMMA LogStep ==
  ASSUME DataOK, LogInv, NEW t \in Emitters, LogEvent(t)
  PROVE  /\ logged' \in Seq(Emitters) /\ entries' \in Seq(Emitters)
         /\ stale' \subseteq Interfaces
         /\ LogInv'
<1>1. /\ logged \in Seq(Emitters) /\ entries \in Seq(Emitters)
      /\ logged' = Append(logged, t) /\ entries' = Append(Trimmed, t)
      /\ stale' = stale \cup {"EventLog"}
  BY DEF DataOK, LogEvent
<1>2. /\ logged' \in Seq(Emitters) /\ Len(logged') = Len(logged) + 1
      /\ logged'[Len(logged) + 1] = t
      /\ \A i \in 1..Len(logged) : logged'[i] = logged[i]
  BY <1>1, AppendProperties
<1>3. stale' \subseteq Interfaces
  BY <1>1 DEF DataOK, Interfaces
<1>4. CASE Len(entries) >= MaxEntries
  <2>1. entries # <<>> /\ Len(entries) = MaxEntries /\ MaxEntries \in Nat \ {0}
    BY <1>1, <1>4, BoundsAssumption DEF LogInv
  <2>2. Trimmed = Tail(entries)
    BY <1>4 DEF Trimmed
  <2>3. /\ Tail(entries) \in Seq(Emitters) /\ Len(Tail(entries)) = Len(entries) - 1
        /\ \A i \in 1..Len(Tail(entries)) : Tail(entries)[i] = entries[i + 1]
    BY <1>1, <2>1, HeadTailProperties
  <2>4. /\ entries' \in Seq(Emitters) /\ Len(entries') = Len(entries)
        /\ entries'[Len(entries)] = t
        /\ \A i \in 1..(Len(entries) - 1) : entries'[i] = entries[i + 1]
    BY <1>1, <2>1, <2>2, <2>3, AppendProperties
  <2>5. Len(logged) \in Nat /\ Len(logged) >= MaxEntries
    BY <1>1, <2>1 DEF LogInv
  <2>6. ASSUME NEW i \in 1..Len(entries')
        PROVE  entries'[i] = logged'[Len(logged') - Len(entries') + i]
    <3>1. i \in Nat /\ i >= 1 /\ i <= MaxEntries
      BY <2>1, <2>4
    <3>2. Len(logged') - Len(entries') + i = Len(logged) - MaxEntries + i + 1
      BY <1>2, <2>1, <2>4, <2>5, <3>1
    <3>3. i = MaxEntries => entries'[i] = logged'[Len(logged) - MaxEntries + i + 1]
      BY <1>2, <2>1, <2>4, <2>5
    <3>4. i # MaxEntries => entries'[i] = logged'[Len(logged) - MaxEntries + i + 1]
      <4> SUFFICES ASSUME i # MaxEntries
                   PROVE  entries'[i] = logged'[Len(logged) - MaxEntries + i + 1]
        OBVIOUS
      <4>1. i + 1 \in 1..Len(entries) /\ i \in 1..(Len(entries) - 1)
        BY <2>1, <3>1
      <4>2. entries'[i] = entries[i + 1]
        BY <2>4, <4>1
      <4>3. entries[i + 1] = logged[Len(logged) - Len(entries) + (i + 1)]
        BY <4>1 DEF LogInv
      <4>4. Len(logged) - Len(entries) + (i + 1) = Len(logged) - MaxEntries + i + 1
        BY <2>1, <2>5, <3>1
      <4>5. Len(logged) - MaxEntries + i + 1 \in 1..Len(logged)
        BY <2>1, <2>5, <4>1
      <4> QED
        BY <1>2, <4>2, <4>3, <4>4, <4>5
    <3> QED
      BY <3>2, <3>3, <3>4
  <2>7. Len(logged') > MaxEntries /\ Len(entries') = MaxEntries
    <3>1. Len(logged') = Len(logged) + 1 /\ Len(entries') = MaxEntries
      BY <1>2, <2>1, <2>4
    <3> QED
      BY <2>1, <2>5, <3>1
  <2>8. LogInv'
    BY <2>6, <2>7 DEF LogInv
  <2> QED
    BY <1>2, <1>3, <2>4, <2>8
<1>5. CASE Len(entries) < MaxEntries
  <2>1. Trimmed = entries /\ Len(entries) = Len(logged)
    BY <1>1, <1>5, BoundsAssumption DEF Trimmed, LogInv
  <2>2. /\ entries' \in Seq(Emitters) /\ Len(entries') = Len(entries) + 1
        /\ entries'[Len(entries) + 1] = t
        /\ \A i \in 1..Len(entries) : entries'[i] = entries[i]
    BY <1>1, <2>1, AppendProperties
  <2>3. ASSUME NEW i \in 1..Len(entries')
        PROVE  entries'[i] = logged'[Len(logged') - Len(entries') + i]
    <3>1. /\ Len(entries) \in Nat /\ Len(logged) = Len(entries)
          /\ i \in Nat /\ i >= 1 /\ i <= Len(entries) + 1
      BY <1>1, <2>1, <2>2
    <3>2. Len(logged') - Len(entries') + i = i
      BY <1>2, <2>2, <3>1
    <3>3. i = Len(entries) + 1 => entries'[i] = logged'[i]
      BY <1>2, <2>2, <3>1
    <3>4. i # Len(entries) + 1 => entries'[i] = logged'[i]
      <4> SUFFICES ASSUME i # Len(entries) + 1 PROVE entries'[i] = logged'[i]
        OBVIOUS
      <4>1. i \in 1..Len(entries) /\ i \in 1..Len(logged)
        BY <3>1
      <4>2. entries[i] = logged[Len(logged) - Len(entries) + i]
        BY <4>1 DEF LogInv
      <4>3. Len(logged) - Len(entries) + i = i
        BY <3>1
      <4>4. entries'[i] = entries[i] /\ logged'[i] = logged[i]
        BY <1>2, <2>2, <4>1
      <4> QED
        BY <4>2, <4>3, <4>4
    <3> QED
      BY <3>2, <3>3, <3>4
  <2>4. Len(entries') = IF Len(logged') > MaxEntries THEN MaxEntries ELSE Len(logged')
    BY <1>1, <1>2, <1>5, <2>1, <2>2, BoundsAssumption
  <2> QED
    BY <1>2, <1>3, <2>2, <2>3, <2>4 DEF LogInv
<1> QED
  BY <1>1, <1>4, <1>5, BoundsAssumption

\* A step logs one event or leaves the log as it is.
LEMMA LogsOrNot ==
  ASSUME LifeInv, DataOK, [Next]_vars
  PROVE  /\ \/ \E t \in Emitters : LogEvent(t)
            \/ logged' = logged /\ entries' = entries
         /\ immediate' \in BOOLEAN /\ left' \in 0..MaxSteps
         /\ (logged' = logged /\ entries' = entries) => stale' \subseteq Interfaces
<1> USE DEF DataOK, MainUnchanged
<1>1. CASE MainProgress \/ Signal
  <2>1. /\ logged' = logged /\ entries' = entries /\ stale' = stale /\ left' = left
        /\ immediate' \in BOOLEAN
    <3>1. CASE StopSensor
      BY <3>1 DEF StopSensor
    <3>2. CASE RequestFirst
      BY <3>2 DEF RequestFirst
    <3>3. CASE StartBridge
      BY <3>3 DEF StartBridge
    <3>4. CASE MainUnchanged
      BY <3>4
    <3>5. StartSensor \/ StartRedfish \/ Signal \/ StopRedfish \/ JoinSensor \/ StopBridge
            \/ CloseBridge \/ Destroy \/ Exit => MainUnchanged
      BY DEF StartSensor, StartRedfish, Signal, StopRedfish, JoinSensor, StopBridge,
             CloseBridge, Destroy, Exit
    <3> QED
      BY <1>1, <3>1, <3>2, <3>3, <3>4, <3>5 DEF MainProgress
  <2> QED
    BY <2>1
<1>2. CASE Loop
  <2>1. UNCHANGED <<immediate, left, logged, entries, stale>>
    BY <1>2 DEF Loop, LoopStep, LoopEnds
  <2> QED
    BY <2>1
<1>3. CASE \E t \in Emitters : Emit(t)
  <2>1. PICK t \in Emitters : Emit(t)
    BY <1>3
  <2>2. UNCHANGED <<immediate, left, logged, entries>> /\ stale' \subseteq stale
    BY <2>1 DEF Emit
  <2> QED
    BY <2>2
<1>4. CASE SensorWork
  <2>1. UNCHANGED <<immediate, left>>
    BY <1>4 DEF SensorWork
  <2>2. LogEvent("sensor") \/ (stale' = stale \cup HardwareInterfaces
                               /\ logged' = logged /\ entries' = entries)
    BY <1>4 DEF SensorWork
  <2>3. logged' = logged /\ LogEvent("sensor") => stale' \subseteq Interfaces
    BY DEF LogEvent, Interfaces
  <2> QED
    BY <2>1, <2>2, <2>3 DEF Emitters, Interfaces
<1>5. CASE CycleDone \/ SensorWakes
  <2>1. UNCHANGED <<left, logged, entries, stale>> /\ immediate' \in BOOLEAN
    BY <1>5 DEF CycleDone, SensorWakes
  <2> QED
    BY <2>1
<1>6. CASE FirmwareWork
  <2>1. immediate' = immediate /\ left' \in 0..MaxSteps
    BY <1>6, BoundsAssumption DEF FirmwareWork
  <2>2. LogEvent("firmware") \/ (stale' \subseteq stale \cup {"Server"}
                                 /\ logged' = logged /\ entries' = entries)
    BY <1>6 DEF FirmwareWork
  <2>3. logged' = logged /\ LogEvent("firmware") => stale' \subseteq Interfaces
    BY DEF LogEvent, Interfaces
  <2> QED
    BY <2>1, <2>2, <2>3 DEF Emitters, Interfaces, HardwareInterfaces
<1>7. ASSUME NEW h \in Sessions, Accept(h) \/ Session(h)
      PROVE  /\ logged' = logged /\ entries' = entries
             /\ immediate' \in BOOLEAN /\ left' \in 0..MaxSteps
             /\ stale' \subseteq Interfaces
  <2>1. CASE RequestUpdate(h)
    <3>1. /\ UNCHANGED <<logged, entries, immediate, stale>>
          /\ left' = left \/ left' = MaxSteps
      BY <2>1, Zenon DEF RequestUpdate
    <3> QED
      BY <3>1, BoundsAssumption
  <2>2. CASE Accept(h) \/ Read(h) \/ Respond(h)
    BY <2>2 DEF Accept, Read, Respond
  <2>3. CASE Inject(h) \/ RequestCycle(h)
    <3>1. /\ UNCHANGED <<logged, entries, left>>
          /\ immediate' \in BOOLEAN
          /\ stale' = stale \/ stale' \subseteq stale \cup Interfaces
      BY <2>3 DEF Inject, RequestCycle, Interfaces
    <3> QED
      BY <3>1
  <2> QED
    BY <1>7, <2>1, <2>2, <2>3 DEF Session
<1>8. CASE Done \/ UNCHANGED vars
  <2>1. UNCHANGED <<immediate, left, logged, entries, stale>>
    BY <1>8 DEF Done, vars
  <2> QED
    BY <2>1
<1> QED
  BY <1>1, <1>2, <1>3, <1>4, <1>5, <1>6, <1>7, <1>8 DEF Next, Emitters

LEMMA DataInit == Init => DataOK /\ LogInv
<1> SUFFICES ASSUME Init PROVE DataOK /\ LogInv
  OBVIOUS
<1>1. logged = <<>> /\ entries = <<>> /\ stale = {} /\ left = 0
  BY DEF Init
<1>2. immediate \in BOOLEAN
  BY DEF Init
<1> QED
  BY <1>1, <1>2, BoundsAssumption DEF DataOK, LogInv

LEMMA DataStep == LifeInv /\ DataOK /\ LogInv /\ [Next]_vars => DataOK' /\ LogInv'
<1> SUFFICES ASSUME LifeInv, DataOK, LogInv, [Next]_vars PROVE DataOK' /\ LogInv'
  OBVIOUS
<1>1. CASE \E t \in Emitters : LogEvent(t)
  BY <1>1, LogsOrNot, LogStep DEF DataOK
<1>2. CASE logged' = logged /\ entries' = entries
  <2>1. DataOK'
    BY <1>2, LogsOrNot DEF DataOK
  <2>2. LogInv'
    BY <1>2 DEF LogInv
  <2> QED
    BY <2>1, <2>2
<1> QED
  BY <1>1, <1>2, LogsOrNot

LEMMA DataInvariant == Spec => [](DataOK /\ LogInv)
BY DataInit, DataStep, LifeInvariant, PTL DEF Spec

\* Every variable keeps to its values.
THEOREM ApplicationTypeCorrect == Spec => []TypeOK
<1>1. LifeInv /\ DataOK /\ OnlyOutliversTouchDestroyed => TypeOK
  <2> SUFFICES ASSUME LifeInv, DataOK, OnlyOutliversTouchDestroyed PROVE TypeOK
    OBVIOUS
  <2>1. touched \subseteq Threads \X Range(Members)
    BY MembersAre, ThreadNames DEF OnlyOutliversTouchDestroyed
  <2>2. at["loop"] \in {"top", "processing", "between", "waiting"} => bus # "none"
    BY DEF LifeInv, ThreadsOK, Ended
  <2>3. alive \in 0..Len(Members)
    BY MembersAre DEF LifeInv, MainOK
  <2> QED
    BY <2>1, <2>2, <2>3 DEF LifeInv, AtOK, MainOK, DataOK, TypeOK
<1> QED
  BY <1>1, LifeInvariant, DataInvariant, OnlyOutliversTouch, PTL

\* Whatever the bound and whoever logs, the log is the newest part of all that was
\* logged.
THEOREM LogAlwaysKeepsNewest == Spec => []LogKeepsNewest
<1>1. DataOK /\ LogInv => LogKeepsNewest
  <2> SUFFICES ASSUME DataOK, LogInv PROVE LogKeepsNewest
    OBVIOUS
  <2> DEFINE n == Len(logged)
             m == IF n > MaxEntries THEN n - MaxEntries + 1 ELSE 1
  <2>1. /\ logged \in Seq(Emitters) /\ entries \in Seq(Emitters)
        /\ n \in Nat /\ MaxEntries \in Nat \ {0}
        /\ Len(entries) = n - m + 1
    BY BoundsAssumption DEF DataOK, LogInv
  <2>2. m \in 1..(n + 1) /\ n \in m - 1 .. n
    BY <2>1
  <2>3. /\ SubSeq(logged, m, n) \in Seq(Emitters)
        /\ Len(SubSeq(logged, m, n)) = n - m + 1
        /\ \A i \in 1..(n - m + 1) : SubSeq(logged, m, n)[i] = logged[m + i - 1]
    <3> HIDE DEF m
    <3> QED
      BY <2>1, <2>2, SubSeqProperties
  <2>4. LogKeepsNewest <=> entries = SubSeq(logged, m, n)
    BY DEF LogKeepsNewest
  <2>5. \A i \in 1..Len(entries) : entries[i] = logged[n - Len(entries) + i]
    BY DEF LogInv
  <2> HIDE DEF m, n
  <2>6. ASSUME NEW i \in 1..Len(entries)
        PROVE  entries[i] = SubSeq(logged, m, n)[i]
    <3>1. i \in Int /\ n \in Int /\ m \in Int /\ i \in 1..(n - m + 1)
      BY <2>1, <2>2
    <3>2. n - (n - m + 1) + i = m + i - 1
      BY <3>1
    <3> QED
      BY <2>1, <2>3, <2>5, <3>1, <3>2
  <2>7. entries = SubSeq(logged, m, n)
    BY <2>1, <2>3, <2>6, SeqEqual
  <2> QED
    BY <2>4, <2>7
<1> QED
  BY <1>1, DataInvariant, PTL

-----------------------------------------------------------------------------
(* What D-Bus subscribers were told.                                        *)

\* A cycle runs after whatever the sensor worker now does, or none will any more.
CycleDue ==
  \/ immediate = TRUE
  \/ Ended("sensor")
  \/ \E h \in Sessions : at[h] = "injected"

\* Whatever changed since its last signal is signalled by a thread that is on its way to
\* do so, or by the next cycle.  The sensor worker signals the server first, and the
\* other two interfaces of the hardware after that.
Owed ==
  /\ "EventLog" \in stale => \E t \in Threads : at[t] = "event"
  /\ "Server" \in stale =>
       \/ at["sensor"] \in {"work", "event", "cycle"}
       \/ at["firmware"] = "status"
       \/ CycleDue
  /\ stale \cap {"Power", "Sensor"} # {} =>
       at["sensor"] \in {"work", "event", "cycle", "all"} \/ CycleDue

\* Before the bridge is connected nothing happens that it could have to signal.
OwedInv ==
  /\ main = "start bridge" => stale = {} /\ \A t \in Threads : at[t] = "absent"
  /\ bus # "none" => Owed

\* The main thread only ever makes cycles due.
LEMMA MainOwes ==
  ASSUME LifeInv, OwedInv, MainProgress \/ Signal
  PROVE  OwedInv'
<1>1. main' # "start bridge" /\ stale' = stale
  BY DEF MainProgress, MainUnchanged, StartBridge, StartSensor, StartRedfish, RequestFirst,
         Signal, StopRedfish, StopSensor, JoinSensor, StopBridge, CloseBridge, Destroy, Exit,
         LifeInv, MainOK
<1>2. CASE StartBridge
  <2>1. stale' = {}
    BY <1>1, <1>2 DEF StartBridge, OwedInv
  <2> QED
    BY <1>1, <2>1 DEF OwedInv, Owed
<1>3. CASE StartSensor
  <2>1. at'["sensor"] = "work" /\ at'["firmware"] = at["firmware"]
    BY <1>3, Moved, ThreadNames DEF StartSensor, LifeInv
  <2>2. \A t \in Threads \ {"sensor"} : at'[t] = at[t]
    BY <1>3, Moved, ThreadNames DEF StartSensor, LifeInv
  <2>3. bus' = bus /\ at["sensor"] # "event"
    BY <1>3 DEF StartSensor, LifeInv, ThreadsOK
  <2> QED
    BY <1>1, <2>1, <2>2, <2>3 DEF OwedInv, Owed
<1>4. CASE Exit \/ CloseBridge
  <2>1. bus' = "none"
    BY <1>4 DEF Exit, CloseBridge, LifeInv, MainOK
  <2> QED
    BY <1>1, <2>1 DEF OwedInv
<1>5. ASSUME at' = at, bus' = bus, immediate = TRUE => immediate' = TRUE
      PROVE  OwedInv'
  BY <1>1, <1>5 DEF OwedInv, Owed, CycleDue, Ended
<1>6. StopSensor => at' = at /\ bus' = bus /\ (immediate = TRUE => immediate' = TRUE)
  BY DEF StopSensor
<1>7. RequestFirst => at' = at /\ bus' = bus /\ immediate' = TRUE
  BY DEF RequestFirst
<1>8. StartRedfish \/ Signal \/ StopRedfish \/ JoinSensor \/ StopBridge \/ Destroy
      => at' = at /\ bus' = bus /\ immediate' = immediate
  BY DEF MainUnchanged, StartRedfish, Signal, StopRedfish, JoinSensor, StopBridge, Destroy
<1> QED
  BY <1>2, <1>3, <1>4, <1>5, <1>6, <1>7, <1>8 DEF MainProgress

\* A worker or a session that acts has been started, so there was a bus to signal on.
LEMMA OthersAct ==
  ASSUME LifeInv, OwedInv, NEW t \in Threads, main = "start bridge"
  PROVE  at[t] = "absent" /\ ~serving
BY DEF OwedInv, LifeInv, MainOK

LEMMA LoopOwes ==
  ASSUME LifeInv, OwedInv, Loop
  PROVE  OwedInv'
<1>1. /\ at["loop"] \in {"top", "processing", "between", "waiting"}
      /\ \E to \in {"processing", "between", "waiting", "top", "ended"} : Goes("loop", to)
      /\ UNCHANGED <<main, bus, stale, immediate>>
  BY DEF Loop, LoopStep, LoopEnds
<1>2. \A t \in Threads \ {"loop"} : at'[t] = at[t]
  BY <1>1, Moved, ThreadNames DEF LifeInv
<1>3. main # "start bridge"
  BY <1>1, OthersAct, ThreadNames
<1> QED
  BY <1>1, <1>2, <1>3, ThreadNames DEF OwedInv, Owed, CycleDue, Ended

\* The sensor worker takes on what is due when it wakes, and signals all of it before
\* it sleeps again.
LEMMA SensorOwes ==
  ASSUME LifeInv, OwedInv, SensorWork \/ CycleDone \/ SensorWakes
  PROVE  OwedInv'
<1>1. /\ at["sensor"] \in {"work", "waiting"} /\ UNCHANGED <<main, bus>>
      /\ main # "start bridge"
  BY OthersAct, ThreadNames DEF SensorWork, CycleDone, SensorWakes
<1>2. CASE SensorWork /\ LogEvent("sensor") /\ Goes("sensor", "event")
  <2>1. at'["sensor"] = "event"
    BY <1>2, Moved, ThreadNames DEF LifeInv
  <2> QED
    BY <1>1, <2>1, ThreadNames DEF OwedInv, Owed
<1>3. CASE SensorWork /\ stale' = stale \cup HardwareInterfaces /\ at' = at
  <2>1. at'["sensor"] = "work" /\ ("EventLog" \in stale' => "EventLog" \in stale)
    BY <1>3 DEF SensorWork, HardwareInterfaces
  <2> QED
    BY <1>1, <1>3, <2>1 DEF OwedInv, Owed
<1>4. ASSUME NEW to \in {"work", "cycle", "ended"}, Goes("sensor", to), stale' = stale
      PROVE  OwedInv'
  <2>1. at'["sensor"] = to /\ \A t \in Threads \ {"sensor"} : at'[t] = at[t]
    BY <1>4, Moved, ThreadNames DEF LifeInv
  <2>2. to = "ended" => CycleDue'
    BY <2>1 DEF CycleDue, Ended
  <2>3. at["sensor"] # "event"
    BY <1>1
  <2> QED
    BY <1>1, <1>4, <2>1, <2>2, <2>3 DEF OwedInv, Owed
<1>5. CycleDone => Goes("sensor", "cycle") /\ stale' = stale
  BY DEF CycleDone
<1>6. SensorWakes => /\ Goes("sensor", "work") \/ Goes("sensor", "ended")
                     /\ stale' = stale
  BY DEF SensorWakes
<1>7. SensorWork => \/ LogEvent("sensor") /\ Goes("sensor", "event")
                    \/ stale' = stale \cup HardwareInterfaces /\ at' = at
  BY DEF SensorWork
<1> QED
  BY <1>2, <1>3, <1>4, <1>5, <1>6, <1>7

\* Who signals an interface leaves it current.
LEMMA EmitOwes ==
  ASSUME LifeInv, OwedInv, NEW t \in Threads, Emit(t)
  PROVE  OwedInv'
<1>1. /\ Goes(t, After(t)) /\ UNCHANGED <<main, bus, immediate>>
      /\ at[t] \in {"event", "status", "cycle", "all"} /\ main # "start bridge"
      /\ bus # "none" => stale' = stale \ Emitted(t)
  BY OthersAct DEF Emit, Emitting
<1>2. at'[t] = After(t) /\ \A x \in Threads \ {t} : at'[x] = at[x]
  BY <1>1, Moved DEF LifeInv
<1> SUFFICES ASSUME bus # "none" PROVE Owed'
  BY <1>1 DEF OwedInv
<1>3. Owed /\ stale' = stale \ Emitted(t)
  BY <1>1 DEF OwedInv
<1>4. CASE at[t] = "event"
  <2>1. Emitted(t) = {"EventLog"} /\ After(t) = "work"
    BY <1>4 DEF Emitted, After
  <2>2. "EventLog" \notin stale' /\ stale' \subseteq stale
    BY <1>3, <2>1
  <2>3. /\ at["sensor"] \in {"work", "event", "cycle"}
           => at'["sensor"] \in {"work", "event", "cycle"}
        /\ at["sensor"] \in {"work", "event", "cycle", "all"}
           => at'["sensor"] \in {"work", "event", "cycle", "all"}
        /\ at["firmware"] = "status" => at'["firmware"] = "status"
        /\ CycleDue => CycleDue'
    BY <1>1, <1>2, <1>4, <2>1, ThreadNames DEF CycleDue, Ended
  <2> QED
    BY <1>3, <2>2, <2>3 DEF Owed
<1>5. CASE at[t] = "status"
  <2>1. Emitted(t) = {"Server"} /\ After(t) = "work"
    BY <1>5 DEF Emitted, After, ServerEmitted
  <2>2. "Server" \notin stale' /\ stale' \subseteq stale
    BY <1>3, <2>1
  <2>3. t = "firmware"
    BY <1>5, ThreadNames DEF LifeInv, AtOK, Threads
  <2>4. /\ at'["sensor"] = at["sensor"]
        /\ \A x \in Threads : at[x] = "event" => at'[x] = "event"
        /\ CycleDue => CycleDue'
    BY <1>1, <1>2, <1>5, <2>3, ThreadNames DEF CycleDue, Ended
  <2> QED
    BY <1>3, <2>2, <2>4 DEF Owed
<1>6. CASE at[t] \in {"cycle", "all"}
  <2>1. t = "sensor"
    BY <1>6, ThreadNames DEF LifeInv, AtOK, Threads
  <2>2. /\ at'["firmware"] = at["firmware"]
        /\ \A x \in Threads : at[x] = "event" => at'[x] = "event"
        /\ CycleDue => CycleDue'
    BY <1>1, <1>2, <1>6, <2>1, ThreadNames DEF CycleDue, Ended
  <2>3. CASE at[t] = "cycle"
    <3>1. Emitted(t) = {"Server"} /\ After(t) = "all"
      BY <2>3 DEF Emitted, After, ServerEmitted
    <3>2. "Server" \notin stale' /\ stale' \subseteq stale /\ at'["sensor"] = "all"
      BY <1>2, <1>3, <2>1, <3>1
    <3> QED
      BY <1>3, <2>2, <3>2 DEF Owed
  <2>4. CASE at[t] = "all"
    <3>1. Emitted(t) = {"Power", "EventLog", "Sensor"}
      BY <2>4 DEF Emitted
    <3>2. /\ "EventLog" \notin stale' /\ stale' \cap {"Power", "Sensor"} = {}
          /\ stale' \subseteq stale
      BY <1>3, <3>1
    <3>3. at["sensor"] = "all"
      BY <2>1, <2>4
    <3> QED
      BY <1>3, <2>2, <3>2, <3>3 DEF Owed
  <2> QED
    BY <1>6, <2>3, <2>4
<1> QED
  BY <1>1, <1>4, <1>5, <1>6

\* The firmware worker announces each change of state itself.
LEMMA FirmwareOwes ==
  ASSUME LifeInv, OwedInv, FirmwareWork
  PROVE  OwedInv'
<1>1. at["firmware"] = "work" /\ UNCHANGED <<main, bus, immediate>> /\ main # "start bridge"
  BY OthersAct, ThreadNames DEF FirmwareWork
<1>2. ASSUME NEW to, Goes("firmware", to)
      PROVE  /\ at'["firmware"] = to /\ at'["sensor"] = at["sensor"]
             /\ \A x \in Threads : at[x] = "event" => at'[x] = "event"
             /\ CycleDue => CycleDue'
  <2>1. at'["firmware"] = to /\ \A x \in Threads \ {"firmware"} : at'[x] = at[x]
    BY <1>2, Moved, ThreadNames DEF LifeInv
  <2> QED
    BY <1>1, <2>1, ThreadNames DEF CycleDue, Ended
<1>3. CASE LogEvent("firmware") /\ Goes("firmware", "event")
  <2>1. stale' = stale \cup {"EventLog"}
    BY <1>3 DEF LogEvent
  <2>2. /\ at'["firmware"] = "event" /\ at'["sensor"] = at["sensor"]
        /\ CycleDue => CycleDue'
    BY <1>2, <1>3
  <2> QED
    BY <1>1, <2>1, <2>2, ThreadNames DEF OwedInv, Owed
<1>4. CASE stale' = stale \cup {"Server"} /\ Goes("firmware", "status")
  <2>1. /\ at'["firmware"] = "status" /\ at'["sensor"] = at["sensor"]
        /\ \A x \in Threads : at[x] = "event" => at'[x] = "event"
        /\ CycleDue => CycleDue'
    BY <1>2, <1>4
  <2>2. /\ "EventLog" \in stale' => "EventLog" \in stale
        /\ stale' \cap {"Power", "Sensor"} # {} => stale \cap {"Power", "Sensor"} # {}
    BY <1>4
  <2> QED
    BY <1>1, <2>1, <2>2 DEF OwedInv, Owed
<1>5. CASE stale' = stale /\ Goes("firmware", "absent")
  <2>1. /\ at'["sensor"] = at["sensor"]
        /\ \A x \in Threads : at[x] = "event" => at'[x] = "event"
        /\ CycleDue => CycleDue'
    BY <1>2, <1>5
  <2> QED
    BY <1>1, <1>5, <2>1 DEF OwedInv, Owed
<1>6. \/ LogEvent("firmware") /\ Goes("firmware", "event")
      \/ stale' = stale \cup {"Server"} /\ Goes("firmware", "status")
      \/ stale' = stale /\ Goes("firmware", "absent")
  BY DEF FirmwareWork
<1> QED
  BY <1>3, <1>4, <1>5, <1>6

\* A session that changes the hardware requests a cycle before it does anything else.
LEMMA SessionOwes ==
  ASSUME LifeInv, OwedInv, NEW h \in Sessions, Accept(h) \/ Session(h)
  PROVE  OwedInv'
<1>1. UNCHANGED <<main, bus>> /\ main # "start bridge"
  BY OthersAct, ThreadNames
     DEF Accept, Session, Read, Respond, Inject, RequestCycle, RequestUpdate
<1>2. h \in Threads /\ h # "sensor" /\ h # "firmware"
  BY ThreadNames
<1>3. ASSUME NEW to, Goes(h, to)
      PROVE  /\ at'[h] = to /\ at'["sensor"] = at["sensor"] /\ at'["firmware"] = at["firmware"]
             /\ \A x \in Threads \ {h} : at'[x] = at[x]
  BY <1>2, <1>3, Moved, ThreadNames DEF LifeInv
<1>4. CASE Accept(h) \/ Read(h) \/ Respond(h)
  <2>1. PICK to : Goes(h, to)
    BY <1>4 DEF Accept, Read, Respond
  <2>2. /\ at[h] \in {"absent", "open", "work"}
        /\ stale' = stale /\ immediate' = immediate
    BY <1>4 DEF Accept, Read, Respond
  <2>3. /\ \A x \in Threads : at[x] = "event" => at'[x] = "event"
        /\ CycleDue => CycleDue'
    BY <1>3, <2>1, <2>2, ThreadNames DEF CycleDue, Ended
  <2> QED
    BY <1>1, <1>3, <2>1, <2>2, <2>3 DEF OwedInv, Owed
<1>5. CASE Inject(h)
  <2>1. at[h] = "work" /\ Goes(h, "injected") /\ stale' = stale \cup HardwareInterfaces
    BY <1>5 DEF Inject
  <2>2. CycleDue'
    BY <1>3, <2>1 DEF CycleDue
  <2>3. /\ \A x \in Threads : at[x] = "event" => at'[x] = "event"
        /\ "EventLog" \in stale' => "EventLog" \in stale
    BY <1>3, <2>1 DEF HardwareInterfaces
  <2> QED
    BY <1>1, <2>2, <2>3 DEF OwedInv, Owed
<1>6. CASE RequestCycle(h)
  <2>1. /\ at[h] = "injected" /\ Goes(h, "work") /\ stale' = stale
        /\ immediate' = TRUE
    BY <1>6 DEF RequestCycle
  <2>2. CycleDue'
    BY <2>1 DEF CycleDue
  <2>3. \A x \in Threads : at[x] = "event" => at'[x] = "event"
    BY <1>3, <2>1
  <2> QED
    BY <1>1, <2>1, <2>2, <2>3 DEF OwedInv, Owed
<1>7. CASE RequestUpdate(h)
  <2>1. /\ stale' = stale /\ immediate' = immediate
        /\ at' = at \/ (at["firmware"] = "absent" /\ Goes("firmware", "work"))
    BY <1>7 DEF RequestUpdate
  <2>2. /\ at'["sensor"] = at["sensor"]
        /\ at["firmware"] = "status" => at'["firmware"] = "status"
        /\ \A x \in Threads : at[x] = "event" => at'[x] = "event"
        /\ \A x \in Sessions : at'[x] = at[x]
    BY <2>1, Moved, ThreadNames DEF LifeInv
  <2>3. CycleDue => CycleDue'
    BY <2>1, <2>2 DEF CycleDue, Ended
  <2> QED
    BY <1>1, <2>1, <2>2, <2>3 DEF OwedInv, Owed
<1> QED
  BY <1>4, <1>5, <1>6, <1>7 DEF Session

LEMMA OwedStep == LifeInv /\ OwedInv /\ [Next]_vars => OwedInv'
<1> SUFFICES ASSUME LifeInv, OwedInv, [Next]_vars PROVE OwedInv'
  OBVIOUS
<1>1. CASE Done \/ UNCHANGED vars
  <2>1. UNCHANGED <<main, at, bus, stale, immediate>>
    BY <1>1 DEF Done, vars
  <2> QED
    BY <2>1 DEF OwedInv, Owed, CycleDue, Ended
<1>2. Emitters \subseteq Threads
  BY ThreadNames DEF Emitters
<1> QED
  BY <1>1, <1>2, MainOwes, LoopOwes, SensorOwes, EmitOwes, FirmwareOwes, SessionOwes DEF Next

\* Whatever D-Bus subscribers have not been told yet is owed to them.
THEOREM SignalsOwed == Spec => []OwedInv
<1>1. Init => OwedInv
  BY DEF Init, OwedInv
<1> QED
  BY <1>1, OwedStep, LifeInvariant, PTL DEF Spec

\* For any number of sessions, whatever they inject and whoever logs: when nobody is on
\* the way to an emitter and no cycle runs or is due, subscribers are up to date.
THEOREM NothingStaysStale == Spec => []NothingStaleAtRest
<1>1. DataOK /\ OwedInv => NothingStaleAtRest
  <2> SUFFICES ASSUME DataOK, OwedInv, bus # "none", at["sensor"] = "waiting", ~immediate,
                      \A t \in Threads : ~Emitting(t) /\ at[t] # "injected"
               PROVE  stale = {}
    BY DEF NothingStaleAtRest
  <2>1. Owed /\ stale \subseteq {"Server", "Power", "Sensor", "EventLog"}
    BY DEF OwedInv, DataOK, Interfaces, HardwareInterfaces
  <2>2. immediate # TRUE
    OBVIOUS
  <2>3. \A t \in Threads : at[t] \notin {"event", "status"} /\ at[t] # "injected"
    BY DEF Emitting
  <2>4. ~CycleDue
    BY <2>2, <2>3, ThreadNames DEF CycleDue, Ended
  <2> QED
    BY <2>1, <2>3, <2>4, ThreadNames DEF Owed
<1> QED
  BY <1>1, SignalsOwed, DataInvariant, PTL
=============================================================================
