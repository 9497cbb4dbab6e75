---------------------------- MODULE HardwareProofs ----------------------------
(***************************************************************************)
(* What HardwareModel keeps true for every profile, every noise and every  *)
(* order of calls.                                                         *)
(***************************************************************************)
EXTENDS HardwareModel, TLAPS

-----------------------------------------------------------------------------
(* Pure parts.                                                              *)

GpuRecord == [temp : Int, power : Int, throttled : BOOLEAN, health : Healths,
              injected : BOOLEAN]

\* Refreshing the throttle state changes nothing else of a GPU.
LEMMA ThrottleRefreshed ==
  ASSUME NEW gpus \in [Gpus -> GpuRecord], NEW cap \in BOOLEAN
  PROVE  /\ RefreshThrottle(gpus, cap) \in [Gpus -> GpuRecord]
         /\ \A g \in Gpus :
              LET y == RefreshThrottle(gpus, cap)[g]
              IN  /\ y.throttled <=> cap \/ gpus[g].temp > 900
                  /\ y.temp = gpus[g].temp /\ y.power = gpus[g].power
                  /\ y.health = gpus[g].health /\ y.injected = gpus[g].injected
<1> DEFINE hot(g) == cap \/ gpus[g].temp > 900
<1>1. \A g \in Gpus : gpus[g] \in GpuRecord /\ hot(g) \in BOOLEAN
  OBVIOUS
<1>2. \A g \in Gpus : RefreshThrottle(gpus, cap)[g] = [gpus[g] EXCEPT !.throttled = hot(g)]
  BY DEF RefreshThrottle
<1>3. RefreshThrottle(gpus, cap) = [g \in Gpus |-> RefreshThrottle(gpus, cap)[g]]
  BY DEF RefreshThrottle
<1> HIDE DEF hot
<1>4. \A g \in Gpus :
        LET y == RefreshThrottle(gpus, cap)[g]
        IN  /\ y \in GpuRecord
            /\ y.throttled <=> hot(g)
            /\ y.temp = gpus[g].temp /\ y.power = gpus[g].power
            /\ y.health = gpus[g].health /\ y.injected = gpus[g].injected
  BY <1>1, <1>2 DEF GpuRecord
<1>5. RefreshThrottle(gpus, cap) \in [Gpus -> GpuRecord]
  BY <1>3, <1>4
<1> QED
  BY <1>4, <1>5 DEF hot

\* So does refreshing the health.
LEMMA HealthRefreshed ==
  ASSUME NEW gpus \in [Gpus -> GpuRecord]
  PROVE  /\ RefreshHealth(gpus) \in [Gpus -> GpuRecord]
         /\ \A g \in Gpus :
              LET y == RefreshHealth(gpus)[g]
              IN  /\ y.health = GpuHealth(gpus[g].temp)
                  /\ y.temp = gpus[g].temp
                  /\ y.injected = gpus[g].injected
<1>1. \A g \in Gpus : gpus[g] \in GpuRecord /\ GpuHealth(gpus[g].temp) \in Healths
  BY DEF GpuHealth, Healths
<1>2. \A g \in Gpus : RefreshHealth(gpus)[g] = [gpus[g] EXCEPT !.health = GpuHealth(gpus[g].temp)]
  BY DEF RefreshHealth
<1>3. RefreshHealth(gpus) = [g \in Gpus |-> RefreshHealth(gpus)[g]]
  BY DEF RefreshHealth
<1>4. \A g \in Gpus :
        LET y == RefreshHealth(gpus)[g]
        IN  /\ y \in GpuRecord
            /\ y.health = GpuHealth(gpus[g].temp)
            /\ y.temp = gpus[g].temp
            /\ y.injected = gpus[g].injected
  BY <1>1, <1>2 DEF GpuRecord
<1> QED
  BY <1>3, <1>4

\* A tick keeps an injected over-temperature above 90 C.
LEMMA TickedGpu ==
  ASSUME NEW x \in GpuRecord, NEW heat \in GpuTempNoise, NEW watts \in GpuPowerNoise,
         pwm \in 0..100
  PROVE  /\ TickGpu(x, heat, watts) \in GpuRecord
         /\ TickGpu(x, heat, watts).injected = x.injected
         /\ x.injected => TickGpu(x, heat, watts).temp > 900
<1>1. /\ heat \in Int /\ watts \in Int
      /\ x.temp \in Int /\ x.power \in Int
  BY NoiseAssumption DEF GpuRecord
<1>2. CASE x.injected
  <2> DEFINE t == Clamp(x.temp + heat, 930, 980)
             p == Clamp(x.power + watts, 3200, 3500)
  <2>1. t \in Int /\ p \in Int /\ t > 900
    BY <1>1 DEF Clamp
  <2>2. TickGpu(x, heat, watts) = [x EXCEPT !.temp = t, !.power = p]
    BY <1>2 DEF TickGpu
  <2> HIDE DEF t, p
  <2> QED
    BY <2>1, <2>2 DEF GpuRecord
<1>3. CASE ~x.injected
  <2> DEFINE workload == IF x.throttled THEN -120 ELSE 50
             base     == IF x.throttled THEN 1800 ELSE 2450
             t        == Clamp(x.temp + heat + workload - pwm \div 4, 460, 880)
             p        == Clamp(base + ((t - 550) * 28) \div 10 + watts, 1400, 3100)
  <2>1. workload \in Int /\ base \in Int /\ pwm \div 4 \in Int
    OBVIOUS
  <2>2. t \in Int
    <3> HIDE DEF workload
    <3> QED
      BY <1>1, <2>1 DEF Clamp
  <2>3. p \in Int
    <3> HIDE DEF base, t
    <3>1. ((t - 550) * 28) \div 10 \in Int
      BY <2>2
    <3> QED
      BY <1>1, <2>1, <3>1 DEF Clamp
  <2>4. TickGpu(x, heat, watts) = [x EXCEPT !.temp = t, !.power = p]
    BY <1>3 DEF TickGpu
  <2> HIDE DEF t, p
  <2> QED
    BY <1>3, <2>2, <2>3, <2>4 DEF GpuRecord
<1> QED
  BY <1>2, <1>3 DEF GpuRecord

\* A tick keeps an injected NVMe fault critical.
LEMMA TickedNvme ==
  ASSUME NEW x \in [temp : Int, health : Healths, injected : BOOLEAN],
         NEW heat \in NvmeTempNoise
  PROVE  LET y == TickNvme(x, heat)
         IN  /\ y \in [temp : Int, health : Healths, injected : BOOLEAN]
             /\ y.injected => y.health = "Critical"
<1>1. heat \in Int /\ x.temp \in Int
  BY NoiseAssumption
<1>2. CASE x.injected
  <2> DEFINE t == Clamp(x.temp + heat, 840, 920)
  <2>1. t \in Int
    BY <1>1 DEF Clamp
  <2>2. TickNvme(x, heat) = [x EXCEPT !.temp = t, !.health = "Critical"]
    BY <1>2 DEF TickNvme
  <2> HIDE DEF t
  <2> QED
    BY <2>1, <2>2 DEF Healths
<1>3. CASE ~x.injected
  <2> DEFINE t == Clamp(x.temp + heat, 320, 580)
             h == IF t >= 650 THEN "Warning" ELSE "OK"
  <2>1. t \in Int
    BY <1>1 DEF Clamp
  <2>2. h \in Healths
    BY DEF Healths
  <2>3. TickNvme(x, heat) = [x EXCEPT !.temp = t, !.health = h]
    BY <1>3 DEF TickNvme
  <2> HIDE DEF t, h
  <2> QED
    BY <1>3, <2>1, <2>2, <2>3
<1> QED
  BY <1>2, <1>3

-----------------------------------------------------------------------------
(* The invariant.  Its parts about GPUs are inductive only together: the     *)
(* throttle state is recomputed from temperatures that TickedGpu bounds.     *)

GpusFine(gpus, cap) ==
  /\ gpus \in [Gpus -> GpuRecord]
  /\ \A g \in Gpus :
       /\ gpus[g].throttled <=> cap \/ gpus[g].temp > 900
       /\ gpus[g].health = GpuHealth(gpus[g].temp)
       /\ gpus[g].injected => gpus[g].temp > 900

OthersFine ==
  /\ fan \in [Fans -> [failed : BOOLEAN, injected : BOOLEAN]]
  /\ pwm \in 0..100
  /\ psu \in [Psus -> [healthy : BOOLEAN, injected : BOOLEAN]]
  /\ nvme \in [Nvmes -> [temp : Int, health : Healths, injected : BOOLEAN]]
  /\ powerCap \in BOOLEAN
  /\ \A f \in Fans : fan[f].injected => fan[f].failed
  /\ \A p \in Psus : psu[p].injected => ~psu[p].healthy
  /\ \A n \in Nvmes : nvme[n].injected => nvme[n].health = "Critical"
  /\ supply.by = HealthyPsus(psu)

HardwareInv == GpusFine(gpu, powerCap) /\ OthersFine

\* The inductive invariant implies the properties of HardwareModel.
LEMMA InvImplies ==
  ASSUME HardwareInv
  PROVE  HardwareTypeOK /\ HardwareConsistent
<1>1. HardwareTypeOK
  BY DEF HardwareInv, GpusFine, OthersFine, HardwareTypeOK, GpuRecord, HealthyPsus
<1>2. GpusConsistent
  BY DEF HardwareInv, GpusFine, GpusConsistent
<1>3. FaultsHold
  BY DEF HardwareInv, GpusFine, OthersFine, FaultsHold
<1> QED
  BY <1>1, <1>2, <1>3 DEF HardwareInv, OthersFine, HealthyCarryLoad, HardwareConsistent

\* What the constructor and clearFaults() leave of the GPUs, at any cap.
LEMMA BaselineGpuFine ==
  ASSUME NEW cap \in BOOLEAN
  PROVE  GpusFine(BaselineGpu(cap), cap)
<1> DEFINE raw == [g \in Gpus |-> [temp |-> Baseline.gpu[g].temp,
                                  power |-> Baseline.gpu[g].power,
                                  throttled |-> FALSE, health |-> "OK",
                                  injected |-> FALSE]]
<1>1. raw \in [Gpus -> GpuRecord]
  BY BaselineAssumption DEF GpuRecord, Healths
<1>2. \A g \in Gpus : ~raw[g].injected
  OBVIOUS
<1>3. BaselineGpu(cap) = RefreshThrottle(RefreshHealth(raw), cap)
  BY DEF BaselineGpu
<1> HIDE DEF raw
<1>4. /\ RefreshHealth(raw) \in [Gpus -> GpuRecord]
      /\ \A g \in Gpus : /\ RefreshHealth(raw)[g].health = GpuHealth(RefreshHealth(raw)[g].temp)
                        /\ ~RefreshHealth(raw)[g].injected
  BY <1>1, <1>2, HealthRefreshed
<1> QED
  BY <1>3, <1>4, ThrottleRefreshed DEF GpusFine

\* ... and of the other devices.
LEMMA BaselineOthersFine ==
  /\ BaselineFan \in [Fans -> [failed : BOOLEAN, injected : BOOLEAN]]
  /\ \A f \in Fans : ~BaselineFan[f].injected
  /\ BaselinePsu \in [Psus -> [healthy : BOOLEAN, injected : BOOLEAN]]
  /\ \A p \in Psus : ~BaselinePsu[p].injected
  /\ BaselineNvme \in [Nvmes -> [temp : Int, health : Healths, injected : BOOLEAN]]
  /\ \A n \in Nvmes : ~BaselineNvme[n].injected
  /\ Baseline.pwm \in 0..100
<1>1. \A f \in Fans : (f \in Baseline.failedFans) \in BOOLEAN
  OBVIOUS
<1>2. \A p \in Psus : (p \in Baseline.healthyPsus) \in BOOLEAN
  OBVIOUS
<1> QED
  BY <1>1, <1>2, BaselineAssumption DEF BaselineFan, BaselinePsu, BaselineNvme

\* The load itself is a sum over all devices; who carries it is not.
LEMMA Carriers ==
  ASSUME NEW gpus, NEW fans, NEW percent, NEW psus, NEW nvmes
  PROVE  RefreshSupply(gpus, fans, percent, psus, nvmes).by = HealthyPsus(psus)
BY DEF RefreshSupply

\* The constructor establishes the invariant.
LEMMA InitInv == HardwareInit => HardwareInv
<1> SUFFICES ASSUME HardwareInit PROVE HardwareInv
  OBVIOUS
<1>1. GpusFine(BaselineGpu(FALSE), FALSE)
  BY BaselineGpuFine
<1>2. GpusFine(gpu, powerCap)
  BY <1>1 DEF HardwareInit
<1>3. supply.by = HealthyPsus(psu)
  BY Carriers DEF HardwareInit
<1>4. OthersFine
  BY <1>3, BaselineOthersFine DEF HardwareInit, OthersFine
<1> QED
  BY <1>2, <1>4 DEF HardwareInv

\* simulateSensorTick() keeps the invariant: noise, clamps and refreshes together.
LEMMA TickInv == HardwareInv /\ SimulateSensorTick => HardwareInv'
<1> SUFFICES ASSUME HardwareInv, SimulateSensorTick PROVE HardwareInv'
  OBVIOUS
<1>1. GpusFine(gpu, powerCap)'
  <2>1. PICK heat \in [Gpus -> GpuTempNoise], watts \in [Gpus -> GpuPowerNoise] :
          gpu' = RefreshThrottle(
                   RefreshHealth([g \in Gpus |-> TickGpu(gpu[g], heat[g], watts[g])]), powerCap)
    BY DEF SimulateSensorTick
  <2> DEFINE raw == [g \in Gpus |-> TickGpu(gpu[g], heat[g], watts[g])]
  <2>a. /\ gpu \in [Gpus -> GpuRecord] /\ pwm \in 0..100
        /\ \A g \in Gpus : heat[g] \in GpuTempNoise /\ watts[g] \in GpuPowerNoise
    BY DEF HardwareInv, GpusFine, OthersFine
  <2>2. \A g \in Gpus : TickGpu(gpu[g], heat[g], watts[g]) \in GpuRecord
    BY <2>a, TickedGpu
  <2>b. \A g \in Gpus : TickGpu(gpu[g], heat[g], watts[g]).injected
                         => TickGpu(gpu[g], heat[g], watts[g]).temp > 900
    <3> TAKE g \in Gpus
    <3> DEFINE x == gpu[g]
               y == TickGpu(x, heat[g], watts[g])
    <3>1. y.injected = x.injected /\ (x.injected => y.temp > 900)
      BY <2>a, TickedGpu
    <3> HIDE DEF y, x
    <3>2. y.injected => y.temp > 900
      BY <3>1
    <3> QED
      BY <3>2 DEF y, x
  <2>3. /\ raw \in [Gpus -> GpuRecord]
        /\ \A g \in Gpus : raw[g].injected => raw[g].temp > 900
    <3>1. raw \in [Gpus -> GpuRecord]
      BY <2>2
    <3>2. \A g \in Gpus : raw[g] = TickGpu(gpu[g], heat[g], watts[g])
      OBVIOUS
    <3> HIDE DEF raw
    <3> QED
      BY <2>b, <3>1, <3>2
  <2>4. gpu' = RefreshThrottle(RefreshHealth(raw), powerCap)
    BY <2>1
  <2> HIDE DEF raw
  <2>5. /\ RefreshHealth(raw) \in [Gpus -> GpuRecord]
        /\ \A g \in Gpus :
             /\ RefreshHealth(raw)[g].health = GpuHealth(RefreshHealth(raw)[g].temp)
             /\ RefreshHealth(raw)[g].injected => RefreshHealth(raw)[g].temp > 900
    BY <2>3, HealthRefreshed
  <2>6. powerCap \in BOOLEAN /\ powerCap' = powerCap
    BY DEF HardwareInv, OthersFine, SimulateSensorTick
  <2>7. GpusFine(RefreshThrottle(RefreshHealth(raw), powerCap), powerCap)
    BY <2>5, <2>6, ThrottleRefreshed DEF GpusFine
  <2> QED
    BY <2>4, <2>6, <2>7 DEF GpusFine
<1>2. /\ fan' \in [Fans -> [failed : BOOLEAN, injected : BOOLEAN]]
      /\ \A f \in Fans : fan'[f].injected => fan'[f].failed
  <2>1. fan \in [Fans -> [failed : BOOLEAN, injected : BOOLEAN]]
    BY DEF HardwareInv, OthersFine
  <2>2. ASSUME NEW f \in Fans
        PROVE  /\ TickFan(fan[f]) \in [failed : BOOLEAN, injected : BOOLEAN]
               /\ TickFan(fan[f]).injected => TickFan(fan[f]).failed
    <3> DEFINE x == fan[f]
               broken == x.injected \/ x.failed
    <3>1. x \in [failed : BOOLEAN, injected : BOOLEAN] /\ broken \in BOOLEAN
      BY <2>1
    <3>2. TickFan(x) = [x EXCEPT !.failed = broken] /\ (x.injected => broken)
      BY DEF TickFan
    <3> HIDE DEF broken, x
    <3>3. /\ TickFan(x) \in [failed : BOOLEAN, injected : BOOLEAN]
          /\ TickFan(x).injected = x.injected
          /\ TickFan(x).failed = broken
      BY <3>1, <3>2
    <3> QED
      BY <3>2, <3>3 DEF x
  <2>3. fan' = [f \in Fans |-> TickFan(fan[f])]
    BY DEF SimulateSensorTick
  <2>4. \A f \in Fans : fan'[f] = TickFan(fan[f])
    BY <2>3
  <2>5. fan' \in [Fans -> [failed : BOOLEAN, injected : BOOLEAN]]
    <3>1. \A f \in Fans : TickFan(fan[f]) \in [failed : BOOLEAN, injected : BOOLEAN]
      BY <2>2
    <3> QED
      BY <2>3, <3>1
  <2> QED
    BY <2>2, <2>4, <2>5
<1>3. /\ nvme' \in [Nvmes -> [temp : Int, health : Healths, injected : BOOLEAN]]
      /\ \A n \in Nvmes : nvme'[n].injected => nvme'[n].health = "Critical"
  <2>1. PICK heat \in [Nvmes -> NvmeTempNoise] :
          nvme' = [n \in Nvmes |-> TickNvme(nvme[n], heat[n])]
    BY DEF SimulateSensorTick
  <2>2. \A n \in Nvmes :
          LET y == TickNvme(nvme[n], heat[n])
          IN  /\ y \in [temp : Int, health : Healths, injected : BOOLEAN]
              /\ y.injected => y.health = "Critical"
    BY TickedNvme DEF HardwareInv, OthersFine
  <2> QED
    BY <2>1, <2>2
<1> QED
  BY <1>1, <1>2, <1>3, Carriers DEF HardwareInv, OthersFine, SimulateSensorTick

\* injectGpuOverTemp() keeps the invariant although it sets health itself.
LEMMA InjectGpuInv ==
  ASSUME HardwareInv, NEW g \in Gpus, InjectGpuOverTemp(g)
  PROVE  HardwareInv'
<1> DEFINE over == [temp |-> 950, power |-> 3400, throttled |-> gpu[g].throttled,
                    health |-> "Critical", injected |-> TRUE]
           hot == [gpu EXCEPT ![g] = over]
<1>1. gpu \in [Gpus -> GpuRecord] /\ gpu[g].throttled \in BOOLEAN
  BY DEF HardwareInv, GpusFine, GpuRecord
<1>2. /\ over \in GpuRecord
      /\ over.temp = 950
      /\ over.health = "Critical"
  BY <1>1 DEF GpuRecord, Healths
<1>3. gpu' = RefreshThrottle(hot, powerCap)
  BY <1>1 DEF InjectGpuOverTemp
<1> HIDE DEF over
<1>4. hot \in [Gpus -> GpuRecord]
  BY <1>1, <1>2
<1>5. \A h \in Gpus : hot[h] = IF h = g THEN over ELSE gpu[h]
  BY <1>1
<1> HIDE DEF hot
<1>6. \A h \in Gpus : hot[h].health = GpuHealth(hot[h].temp)
  BY <1>2, <1>5 DEF HardwareInv, GpusFine, GpuHealth
<1>7. \A h \in Gpus : hot[h].injected => hot[h].temp > 900
  BY <1>2, <1>5 DEF HardwareInv, GpusFine
<1>8. powerCap \in BOOLEAN /\ powerCap' = powerCap
  BY DEF HardwareInv, OthersFine, InjectGpuOverTemp
<1>9. GpusFine(RefreshThrottle(hot, powerCap), powerCap)
  BY <1>4, <1>6, <1>7, <1>8, ThrottleRefreshed DEF GpusFine
<1>10. GpusFine(gpu, powerCap)'
  BY <1>3, <1>8, <1>9 DEF GpusFine
<1>11. supply'.by = HealthyPsus(psu')
  BY Carriers DEF InjectGpuOverTemp
<1>12. OthersFine'
  BY <1>11 DEF HardwareInv, OthersFine, InjectGpuOverTemp
<1> QED
  BY <1>10, <1>12 DEF HardwareInv

\* setPowerCapActive() keeps the invariant although it refreshes the throttle only.
LEMMA CapInv ==
  ASSUME HardwareInv, NEW active \in BOOLEAN, SetPowerCapActive(active)
  PROVE  HardwareInv'
<1>1. GpusFine(RefreshThrottle(gpu, active), active)
  BY ThrottleRefreshed DEF HardwareInv, GpusFine
<1> QED
  BY <1>1 DEF HardwareInv, GpusFine, OthersFine, SetPowerCapActive

\* Every method of the class keeps the invariant.
LEMMA StepInv == HardwareInv /\ [HardwareStep]_hwVars => HardwareInv'
<1> SUFFICES ASSUME HardwareInv, [HardwareStep]_hwVars PROVE HardwareInv'
  OBVIOUS
<1>1. CASE UNCHANGED hwVars
  BY <1>1 DEF hwVars, HardwareInv, GpusFine, OthersFine
<1>2. CASE SimulateSensorTick
  BY <1>2, TickInv
<1>3. ASSUME NEW g \in Gpus, InjectGpuOverTemp(g) PROVE HardwareInv'
  BY <1>3, InjectGpuInv
<1>4. ASSUME NEW f \in Fans, InjectFanFailure(f) PROVE HardwareInv'
  BY <1>4 DEF InjectFanFailure, HardwareInv, GpusFine, OthersFine
<1>5. ASSUME NEW p \in Psus, InjectPsuFailure(p) PROVE HardwareInv'
  BY <1>5 DEF InjectPsuFailure, HardwareInv, GpusFine, OthersFine, RefreshSupply
<1>6. ASSUME NEW n \in Nvmes, InjectNvmeFault(n) PROVE HardwareInv'
  BY <1>6 DEF InjectNvmeFault, HardwareInv, GpusFine, OthersFine, RefreshSupply, Healths
<1>7. CASE ClearFaults
  <2>1. GpusFine(BaselineGpu(powerCap), powerCap)
    BY BaselineGpuFine DEF HardwareInv, OthersFine
  <2> QED
    BY <1>7, <2>1, BaselineOthersFine
       DEF ClearFaults, HardwareInv, GpusFine, OthersFine, RefreshSupply
<1>8. ASSUME NEW percent \in 0..100, SetAllFanPwm(percent) PROVE HardwareInv'
  BY <1>8 DEF SetAllFanPwm, HardwareInv, GpusFine, OthersFine, Clamp
<1>9. ASSUME NEW active \in BOOLEAN, SetPowerCapActive(active) PROVE HardwareInv'
  BY <1>9, CapInv
<1>10. CASE UpdatePowerTelemetry(telemetry')
  BY <1>10 DEF UpdatePowerTelemetry, HardwareInv, GpusFine, OthersFine
<1> QED
  BY <1>1, <1>2, <1>3, <1>4, <1>5, <1>6, <1>7, <1>8, <1>9, <1>10 DEF HardwareStep

\* The inductive invariant holds in every state.
THEOREM HardwareInvariant == HardwareSpec => []HardwareInv
<1>1. HardwareInit => HardwareInv
  BY InitInv
<1>2. HardwareInv /\ [HardwareStep]_hwVars => HardwareInv'
  BY StepInv
<1> QED
  BY <1>1, <1>2, PTL DEF HardwareSpec

\* Whatever the callers do, the model's members keep their types, GPU throttling
\* and health follow temperature and cap, injected faults hold until cleared,
\* and exactly the healthy PSUs carry the load.
THEOREM HardwareCorrect == HardwareSpec => [](HardwareTypeOK /\ HardwareConsistent)
BY HardwareInvariant, InvImplies, PTL
=============================================================================
