---------------------------- MODULE HardwareModel ----------------------------
(***************************************************************************)
(* hardware/HardwareModel.cpp of openbmc-ai-server-management-stack: the   *)
(* simulated server.  Every public method locks mutex_ for its whole body, *)
(* so each is one action here; the callers are in SensorService.           *)
(*                                                                         *)
(* Temperatures are in 0.1 C, powers in 0.1 W.  Noise is a choice from a   *)
(* set.  A fan's rpm is left out: it is 0 exactly when the fan failed.     *)
(* The profile gives all fans one pwm_percent (as ai_server_profile.json   *)
(* does), and every write keeps it common, so pwm is one number.           *)
(***************************************************************************)
EXTENDS Integers, FiniteSetsExt, Functions

CONSTANTS
  Gpus, Fans, Psus, Nvmes,  \* the devices of the profile
  CpuCount,                 \* cpus_.size()
  Baseline,                 \* baselineProfile_: the devices as configured
  GpuTempNoise,             \* values of gpuTempNoise, in 0.1 C
  GpuPowerNoise,            \* values of gpuPowerNoise, in 0.1 W
  NvmeTempNoise             \* values of nvmeTempNoise, in 0.1 C

Healths == {"OK", "Warning", "Critical"}

ASSUME NoiseAssumption ==
  /\ GpuTempNoise \subseteq -15..25
  /\ GpuPowerNoise \subseteq -120..120
  /\ NvmeTempNoise \subseteq -8..14

ASSUME BaselineAssumption ==
  /\ Baseline.gpu \in [Gpus -> [temp : Int, power : Int]]
  /\ Baseline.pwm \in 0..100
  /\ Baseline.failedFans \subseteq Fans
  /\ Baseline.healthyPsus \subseteq Psus
  /\ Baseline.nvme \in [Nvmes -> [temp : Int, health : Healths]]
  /\ CpuCount \in Nat

VARIABLES
  gpu,        \* gpus_
  fan,        \* fans_, but for the PWM
  pwm,        \* pwmPercent of every fan
  psu,        \* psus_, but for the output
  supply,     \* outputWatts of all PSUs: the load, and who carries it
  nvme,       \* nvmes_
  powerCap,   \* powerCapActive_
  telemetry   \* powerTelemetry_

hwVars == <<gpu, fan, pwm, psu, supply, nvme, powerCap, telemetry>>

Clamp(value, low, high) ==
  IF value < low THEN low ELSE IF value > high THEN high ELSE value

-----------------------------------------------------------------------------
(* Derived state: the three refresh...Locked() methods and power sums.      *)

RefreshThrottle(gpus, cap) ==
  [g \in Gpus |-> [gpus[g] EXCEPT !.throttled = cap \/ gpus[g].temp > 900]]

GpuHealth(temp) ==
  IF temp > 900 THEN "Critical" ELSE IF temp >= 850 THEN "Warning" ELSE "OK"

RefreshHealth(gpus) ==
  [g \in Gpus |-> [gpus[g] EXCEPT !.health = GpuHealth(gpus[g].temp)]]

SumOver(watts) == FoldFunction(+, 0, watts)

GpuPower(gpus) == SumOver([g \in Gpus |-> gpus[g].power])

Working(fans) == {f \in Fans : ~fans[f].failed}

FanPower(fans, percent) == Cardinality(Working(fans)) * (20 + (percent * 12) \div 10)

Critical(nvmes) == {n \in Nvmes : nvmes[n].health = "Critical"}

NvmePower(nvmes) == 120 * Cardinality(Nvmes) + 40 * Cardinality(Critical(nvmes))

HealthyPsus(psus) == {p \in Psus : psus[p].healthy}

\* Each healthy PSU outputs load / Cardinality(by), the others nothing.
RefreshSupply(gpus, fans, percent, psus, nvmes) ==
  [load |-> IF HealthyPsus(psus) = {} THEN 0
            ELSE GpuPower(gpus) + FanPower(fans, percent) + NvmePower(nvmes) + 900 * CpuCount,
   by   |-> HealthyPsus(psus)]

-----------------------------------------------------------------------------
BaselineGpu(cap) ==
  RefreshThrottle(
    RefreshHealth([g \in Gpus |-> [temp |-> Baseline.gpu[g].temp,
                                   power |-> Baseline.gpu[g].power,
                                   throttled |-> FALSE, health |-> "OK",
                                   injected |-> FALSE]]), cap)

BaselineFan == [f \in Fans |-> [failed |-> f \in Baseline.failedFans, injected |-> FALSE]]

BaselinePsu == [p \in Psus |-> [healthy |-> p \in Baseline.healthyPsus, injected |-> FALSE]]

BaselineNvme == [n \in Nvmes |-> [temp |-> Baseline.nvme[n].temp,
                                  health |-> Baseline.nvme[n].health,
                                  injected |-> FALSE]]

NoTelemetry == [gpu |-> 0, fan |-> 0, psu |-> 0, nvme |-> 0, system |-> 0,
                budgetExceeded |-> FALSE]

HardwareInit ==
  /\ gpu = BaselineGpu(FALSE)
  /\ fan = BaselineFan
  /\ pwm = Baseline.pwm
  /\ psu = BaselinePsu
  /\ nvme = BaselineNvme
  /\ supply = RefreshSupply(gpu, fan, pwm, psu, nvme)
  /\ powerCap = FALSE
  /\ telemetry = NoTelemetry

-----------------------------------------------------------------------------
(* The methods.  An ID that names no device changes nothing.                *)

\* One GPU through simulateSensorTick(), before the refreshes.
TickGpu(g, heat, watts) ==
  IF g.injected
  THEN [g EXCEPT !.temp = Clamp(g.temp + heat, 930, 980),
                 !.power = Clamp(g.power + watts, 3200, 3500)]
  ELSE LET workload == IF g.throttled THEN -120 ELSE 50
           base     == IF g.throttled THEN 1800 ELSE 2450
           t        == Clamp(g.temp + heat + workload - pwm \div 4, 460, 880)
       IN  [g EXCEPT !.temp = t,
                     !.power = Clamp(base + ((t - 550) * 28) \div 10 + watts, 1400, 3100)]

TickNvme(n, heat) ==
  IF n.injected
  THEN [n EXCEPT !.temp = Clamp(n.temp + heat, 840, 920), !.health = "Critical"]
  ELSE LET t == Clamp(n.temp + heat, 320, 580)
       IN  [n EXCEPT !.temp = t, !.health = IF t >= 650 THEN "Warning" ELSE "OK"]

\* Mutation of TickFan: the tick recomputes the state from the RPM only.
TickFanRecovers(f) == [f EXCEPT !.failed = FALSE]

TickFan(f) == [f EXCEPT !.failed = f.injected \/ f.failed]

SimulateSensorTick ==
  /\ \E heat \in [Gpus -> GpuTempNoise], watts \in [Gpus -> GpuPowerNoise] :
       gpu' = RefreshThrottle(
                RefreshHealth([g \in Gpus |-> TickGpu(gpu[g], heat[g], watts[g])]),
                powerCap)
  /\ fan' = [f \in Fans |-> TickFan(fan[f])]
  /\ \E heat \in [Nvmes -> NvmeTempNoise] :
       nvme' = [n \in Nvmes |-> TickNvme(nvme[n], heat[n])]
  /\ supply' = RefreshSupply(gpu', fan', pwm, psu, nvme')
  /\ UNCHANGED <<pwm, psu, powerCap, telemetry>>

InjectGpuOverTemp(g) ==
  /\ gpu' = RefreshThrottle(
              [gpu EXCEPT ![g] = [temp |-> 950, power |-> 3400, throttled |-> @.throttled,
                                  health |-> "Critical", injected |-> TRUE]], powerCap)
  /\ supply' = RefreshSupply(gpu', fan, pwm, psu, nvme)
  /\ UNCHANGED <<fan, pwm, psu, nvme, powerCap, telemetry>>

\* The supply is not refreshed here.
InjectFanFailure(f) ==
  /\ fan' = [fan EXCEPT ![f] = [failed |-> TRUE, injected |-> TRUE]]
  /\ UNCHANGED <<gpu, pwm, psu, supply, nvme, powerCap, telemetry>>

InjectPsuFailure(p) ==
  /\ psu' = [psu EXCEPT ![p] = [healthy |-> FALSE, injected |-> TRUE]]
  /\ supply' = RefreshSupply(gpu, fan, pwm, psu', nvme)
  /\ UNCHANGED <<gpu, fan, pwm, nvme, powerCap, telemetry>>

InjectNvmeFault(n) ==
  /\ nvme' = [nvme EXCEPT ![n] = [temp |-> 880, health |-> "Critical", injected |-> TRUE]]
  /\ supply' = RefreshSupply(gpu, fan, pwm, psu, nvme')
  /\ UNCHANGED <<gpu, fan, pwm, psu, powerCap, telemetry>>

\* Mutation of ClearFaults: the cap is lifted as well.
ClearFaultsAndCap ==
  /\ gpu' = BaselineGpu(FALSE)
  /\ fan' = BaselineFan
  /\ pwm' = Baseline.pwm
  /\ psu' = BaselinePsu
  /\ nvme' = BaselineNvme
  /\ supply' = RefreshSupply(gpu', fan', pwm', psu', nvme')
  /\ powerCap' = FALSE
  /\ UNCHANGED telemetry

\* The power cap and the telemetry stay as they are.
ClearFaults ==
  /\ gpu' = BaselineGpu(powerCap)
  /\ fan' = BaselineFan
  /\ pwm' = Baseline.pwm
  /\ psu' = BaselinePsu
  /\ nvme' = BaselineNvme
  /\ supply' = RefreshSupply(gpu', fan', pwm', psu', nvme')
  /\ UNCHANGED <<powerCap, telemetry>>

SetAllFanPwm(percent) ==
  /\ pwm' = Clamp(percent, 0, 100)
  /\ UNCHANGED <<gpu, fan, psu, supply, nvme, powerCap, telemetry>>

SetPowerCapActive(active) ==
  /\ powerCap' = active
  /\ gpu' = RefreshThrottle(gpu, active)
  /\ UNCHANGED <<fan, pwm, psu, supply, nvme, telemetry>>

UpdatePowerTelemetry(report) ==
  /\ telemetry' = report
  /\ UNCHANGED <<gpu, fan, pwm, psu, supply, nvme, powerCap>>

\* What a caller gets from snapshot().
Snapshot == [gpu |-> gpu, fan |-> fan, pwm |-> pwm, psu |-> psu,
             supply |-> supply, nvme |-> nvme]

\* Any caller, any order: a step of the class seen from outside.
HardwareStep ==
  \/ SimulateSensorTick
  \/ \E g \in Gpus : InjectGpuOverTemp(g)
  \/ \E f \in Fans : InjectFanFailure(f)
  \/ \E p \in Psus : InjectPsuFailure(p)
  \/ \E n \in Nvmes : InjectNvmeFault(n)
  \/ ClearFaults
  \/ \E percent \in 0..100 : SetAllFanPwm(percent)
  \/ \E active \in BOOLEAN : SetPowerCapActive(active)
  \/ UpdatePowerTelemetry(telemetry')

HardwareSpec == HardwareInit /\ [][HardwareStep]_hwVars

-----------------------------------------------------------------------------
(* Properties                                                               *)

HardwareTypeOK ==
  /\ gpu \in [Gpus -> [temp : Int, power : Int, throttled : BOOLEAN,
                       health : Healths, injected : BOOLEAN]]
  /\ fan \in [Fans -> [failed : BOOLEAN, injected : BOOLEAN]]
  /\ pwm \in 0..100
  /\ psu \in [Psus -> [healthy : BOOLEAN, injected : BOOLEAN]]
  /\ nvme \in [Nvmes -> [temp : Int, health : Healths, injected : BOOLEAN]]
  /\ supply.by \subseteq Psus
  /\ powerCap \in BOOLEAN

\* A GPU is throttled exactly when the power cap is on or it is above 90 C,
\* and its health is the one of its temperature: between any two methods, also
\* after those that refresh only one of the two or neither (lines 182-187, 273).
GpusConsistent ==
  \A g \in Gpus :
    /\ gpu[g].throttled <=> powerCap \/ gpu[g].temp > 900
    /\ gpu[g].health = GpuHealth(gpu[g].temp)

\* An injected fault shows its symptom until it is cleared: no tick, policy or
\* further injection makes the device look healthy while the flag is up.
FaultsHold ==
  /\ \A g \in Gpus : gpu[g].injected => gpu[g].temp > 900 /\ gpu[g].throttled
  /\ \A f \in Fans : fan[f].injected => fan[f].failed
  /\ \A p \in Psus : psu[p].injected => ~psu[p].healthy
  /\ \A n \in Nvmes : nvme[n].injected => nvme[n].health = "Critical"

\* Only healthy PSUs output power, and all of them do (lines 343-352).
HealthyCarryLoad == supply.by = HealthyPsus(psu)

\* The derived state of all devices matches its sources between any two methods.
HardwareConsistent == GpusConsistent /\ FaultsHold /\ HealthyCarryLoad
=============================================================================
