----------------------------- MODULE MiniPcieProofs -----------------------------
(***************************************************************************)
(* What the kernel module keeps true for any number of users and whatever  *)
(* faults they set.                                                        *)
(***************************************************************************)
EXTENDS MiniPcieTelemetry, FiniteSetTheorems, TLAPS

-----------------------------------------------------------------------------
(* The resources come and go in one order.  Each member of Standing is what *)
(* is in place, with what releases it.                                      *)

Upto(n) == {Resources[i] : i \in 1..n}

Standing == {
  <<0, <<>>>>,
  <<1, <<"memory">>>>,
  <<2, <<"region", "memory">>>>,
  <<3, <<"cdev", "region", "memory">>>>,
  <<4, <<"class", "cdev", "region", "memory">>>>,
  <<5, <<"device", "class", "cdev", "region", "memory">>>>,
  <<6, <<"timer", "device", "class", "cdev", "region", "memory">>>>}

LEMMA StandingIs ==
  /\ Upto(0) = {}
  /\ Upto(1) = {"memory"}
  /\ Upto(2) = {"memory", "region"}
  /\ Upto(3) = {"memory", "region", "cdev"}
  /\ Upto(4) = {"memory", "region", "cdev", "class"}
  /\ Upto(5) = {"memory", "region", "cdev", "class", "device"}
  /\ Upto(6) = {"memory", "region", "cdev", "class", "device", "timer"}
  /\ Range(Resources) = Upto(6)
<1>0. /\ Resources[1] = "memory" /\ Resources[2] = "region" /\ Resources[3] = "cdev"
      /\ Resources[4] = "class" /\ Resources[5] = "device" /\ Resources[6] = "timer"
      /\ DOMAIN Resources = 1..6
  BY DEF Resources
<1>1. /\ 1..0 = {} /\ 1..1 = {1} /\ 1..2 = {1, 2} /\ 1..3 = {1, 2, 3} /\ 1..4 = {1, 2, 3, 4}
      /\ 1..5 = {1, 2, 3, 4, 5} /\ 1..6 = {1, 2, 3, 4, 5, 6}
  OBVIOUS
<1>2. Upto(0) = {}
  BY <1>1 DEF Upto
<1>3. Upto(1) = {"memory"}
  BY <1>0, <1>1 DEF Upto
<1>4. Upto(2) = {"memory", "region"}
  BY <1>0, <1>1 DEF Upto
<1>5. Upto(3) = {"memory", "region", "cdev"}
  BY <1>0, <1>1 DEF Upto
<1>6. Upto(4) = {"memory", "region", "cdev", "class"}
  BY <1>0, <1>1 DEF Upto
<1>7. Upto(5) = {"memory", "region", "cdev", "class", "device"}
  BY <1>0, <1>1 DEF Upto
<1>8. Upto(6) = {"memory", "region", "cdev", "class", "device", "timer"}
  BY <1>0, <1>1 DEF Upto
<1>9. Range(Resources) = Upto(6)
  BY <1>0 DEF Range, Upto
<1> QED
  BY <1>2, <1>3, <1>4, <1>5, <1>6, <1>7, <1>8, <1>9

LEMMA StandingCounted == \A n \in 0..6 : Cardinality(Upto(n)) = n
<1>1. Cardinality({}) = 0 /\ IsFiniteSet({})
  BY FS_EmptySet
<1>2. Cardinality({"memory"}) = 1 /\ IsFiniteSet({"memory"})
  <2>1. {"memory"} = {} \cup {"memory"} /\ "memory" \notin {}
    OBVIOUS
  <2> QED
    BY <1>1, <2>1, FS_AddElement
<1>3. Cardinality({"memory", "region"}) = 2 /\ IsFiniteSet({"memory", "region"})
  <2>1. {"memory", "region"} = {"memory"} \cup {"region"} /\ "region" \notin {"memory"}
    OBVIOUS
  <2> QED
    BY <1>2, <2>1, FS_AddElement
<1>4. /\ Cardinality({"memory", "region", "cdev"}) = 3
      /\ IsFiniteSet({"memory", "region", "cdev"})
  <2>1. /\ {"memory", "region", "cdev"} = {"memory", "region"} \cup {"cdev"}
        /\ "cdev" \notin {"memory", "region"}
    OBVIOUS
  <2> QED
    BY <1>3, <2>1, FS_AddElement
<1>5. /\ Cardinality({"memory", "region", "cdev", "class"}) = 4
      /\ IsFiniteSet({"memory", "region", "cdev", "class"})
  <2>1. /\ {"memory", "region", "cdev", "class"} = {"memory", "region", "cdev"} \cup {"class"}
        /\ "class" \notin {"memory", "region", "cdev"}
    OBVIOUS
  <2> QED
    BY <1>4, <2>1, FS_AddElement
<1>6. /\ Cardinality({"memory", "region", "cdev", "class", "device"}) = 5
      /\ IsFiniteSet({"memory", "region", "cdev", "class", "device"})
  <2>1. /\ {"memory", "region", "cdev", "class", "device"}
             = {"memory", "region", "cdev", "class"} \cup {"device"}
        /\ "device" \notin {"memory", "region", "cdev", "class"}
    OBVIOUS
  <2> QED
    BY <1>5, <2>1, FS_AddElement
<1>7. /\ Cardinality({"memory", "region", "cdev", "class", "device", "timer"}) = 6
      /\ IsFiniteSet({"memory", "region", "cdev", "class", "device", "timer"})
  <2>1. /\ {"memory", "region", "cdev", "class", "device", "timer"}
             = {"memory", "region", "cdev", "class", "device"} \cup {"timer"}
        /\ "timer" \notin {"memory", "region", "cdev", "class", "device"}
    OBVIOUS
  <2> QED
    BY <1>6, <2>1, FS_AddElement
<1> QED
  BY <1>1, <1>2, <1>3, <1>4, <1>5, <1>6, <1>7, StandingIs

-----------------------------------------------------------------------------
(* The invariant.                                                           *)

LifeOK ==
  /\ module # "releasing" => releasing = <<>>
  /\ \E n \in 0..6 :
       /\ held = Upto(n)
       /\ module = "absent" => n = 0
       /\ module = "loading" => n < 6
       /\ module = "loaded" => n = 6
       /\ module = "releasing" => <<n, releasing>> \in Standing

ControlOK ==
  /\ module \in {"absent", "loading", "loaded", "releasing"}
  /\ timer \in {"none", "armed", "running"}
  /\ timer # "none" <=> "timer" \in held
  /\ user \in [Users -> {"outside", "inside"}]
  /\ \A u \in Users : user[u] = "inside" => "device" \in held
  /\ file \in {"closed", "open", "registered", "differs", "compared", "asleep"}
  /\ file # "closed" => "device" \in held /\ module \in {"loading", "loaded"}

DeviceOK ==
  /\ fault \in AllFaults
  /\ telemetry.correctable \in 0..MaxCount
  /\ sequence \in 0..MaxSequence
  /\ TelemetryMatchesFault

PollOK ==
  /\ context \in 0..MaxSequence
  /\ woken \in BOOLEAN
  /\ file \in {"compared", "asleep"} /\ context # sequence => woken

Inv == LifeOK /\ ControlOK /\ DeviceOK /\ PollOK

\* Each fault leaves a telemetry that counts one error for a spike and none otherwise.
LEMMA FaultCounted ==
  ASSUME NEW f
  PROVE  /\ "correctable" \in DOMAIN WithFault(Baseline, f)
         /\ WithFault(Baseline, f).correctable = IF f = "correctable_error_spike" THEN 1 ELSE 0
BY DEF WithFault, Baseline

\* Writing the counter that is there changes nothing.
LEMMA FaultTelemetry ==
  ASSUME NEW f
  PROVE  LET t == WithFault(Baseline, f) IN t = [t EXCEPT !.correctable = t.correctable]
<1> DEFINE B == Baseline
<1>0. B = [x \in DOMAIN B |-> B[x]] /\ B.correctable = 0 /\ "correctable" \in DOMAIN B
  BY DEF Baseline
<1> HIDE DEF B
<1>1. \A h, s : LET t == [B EXCEPT !.state = s, !.health = h] IN t = [t EXCEPT !.correctable = t.correctable]
  BY <1>0
<1>2. \A h, s : LET t == [B EXCEPT !.width = s, !.health = h] IN t = [t EXCEPT !.correctable = t.correctable]
  BY <1>0
<1>3. \A h : LET t == [B EXCEPT !.correctable = @ + 1, !.health = h] IN t = [t EXCEPT !.correctable = t.correctable]
  BY <1>0
<1>4. \A h : LET t == [B EXCEPT !.nonfatal = @ + 1, !.health = h] IN t = [t EXCEPT !.correctable = t.correctable]
  BY <1>0
<1>5. \A h, s : LET t == [B EXCEPT !.temp = s, !.health = h] IN t = [t EXCEPT !.correctable = t.correctable]
  BY <1>0
<1>6. \A h, s : LET t == [B EXCEPT !.power = s, !.health = h] IN t = [t EXCEPT !.correctable = t.correctable]
  BY <1>0
<1>7. B = [B EXCEPT !.correctable = B.correctable]
  BY <1>0
<1>8. CASE f = "link_down"
  <2>1. WithFault(B, f) = [B EXCEPT !.state = "Down", !.health = "Critical"]
    BY <1>8 DEF WithFault
  <2> QED
    BY <2>1, <1>1 DEF B
<1>9. CASE f = "link_degraded"
  <2>1. WithFault(B, f) = [B EXCEPT !.width = 8, !.health = "Warning"]
    BY <1>9 DEF WithFault
  <2> QED
    BY <2>1, <1>2 DEF B
<1>10. CASE f = "correctable_error_spike"
  <2>1. WithFault(B, f) = [B EXCEPT !.correctable = @ + 1, !.health = "Warning"]
    BY <1>10 DEF WithFault
  <2> QED
    BY <2>1, <1>3 DEF B
<1>11. CASE f = "nonfatal_error"
  <2>1. WithFault(B, f) = [B EXCEPT !.nonfatal = @ + 1, !.health = "Critical"]
    BY <1>11 DEF WithFault
  <2> QED
    BY <2>1, <1>4 DEF B
<1>12. CASE f = "over_temperature"
  <2>1. WithFault(B, f) = [B EXCEPT !.temp = 95, !.health = "Critical"]
    BY <1>12 DEF WithFault
  <2> QED
    BY <2>1, <1>5 DEF B
<1>13. CASE f = "over_power"
  <2>1. WithFault(B, f) = [B EXCEPT !.power = 350, !.health = "Critical"]
    BY <1>13 DEF WithFault
  <2> QED
    BY <2>1, <1>6 DEF B
<1>14. CASE f \notin {"link_down", "link_degraded", "correctable_error_spike", "nonfatal_error", "over_temperature", "over_power"}
  <2>1. WithFault(B, f) = B
    BY <1>14 DEF WithFault
  <2> QED
    BY <2>1, <1>7 DEF B
<1> QED
  BY <1>8, <1>9, <1>10, <1>11, <1>12, <1>13, <1>14

\* Only the last write to the counter remains.
LEMMA WrittenTwice ==
  ASSUME NEW t, NEW x, NEW y
  PROVE  [[t EXCEPT !.correctable = x] EXCEPT !.correctable = y] = [t EXCEPT !.correctable = y]
OBVIOUS

LEMMA Faulted ==
  ASSUME DeviceOK, NEW f \in AllFaults, ApplyFault(f)
  PROVE  DeviceOK' /\ woken' = (woken \/ Queued)
<1>1. telemetry' = WithFault(Baseline, f) /\ fault' = f
  BY DEF ApplyFault, ResetTelemetry
<1>2. sequence' \in 0..MaxSequence /\ woken' = (woken \/ Queued)
  BY BoundsAssumption DEF DeviceOK, ApplyFault, Event
<1>3. /\ telemetry'.correctable \in 0..MaxCount
      /\ IF fault' = "correctable_error_spike" THEN telemetry'.correctable >= 1
                                               ELSE telemetry'.correctable = 0
  BY <1>1, FaultCounted, BoundsAssumption
<1>4. telemetry' = [WithFault(Baseline, fault') EXCEPT !.correctable = telemetry'.correctable]
  BY <1>1, FaultTelemetry
<1> QED
  BY <1>1, <1>2, <1>3, <1>4 DEF DeviceOK, TelemetryMatchesFault

LEMMA InitInv == Init => Inv
<1> SUFFICES ASSUME Init PROVE Inv
  OBVIOUS
<1>1. LifeOK
  <2>1. held = Upto(0) /\ module = "absent"
    BY StandingIs DEF Init
  <2> QED
    BY <2>1 DEF LifeOK, Init
<1>2. ControlOK
  BY DEF Init, ControlOK
<1>3. DeviceOK
  <2>1. telemetry = WithFault(Baseline, "none") /\ "none" \in AllFaults
    BY DEF Init, WithFault, AllFaults
  <2>2. fault = "none" /\ sequence = 0
    BY DEF Init
  <2>3. telemetry.correctable = 0
    BY <2>1, FaultCounted
  <2>4. telemetry = [WithFault(Baseline, fault) EXCEPT !.correctable = telemetry.correctable]
    BY <2>1, <2>2, FaultTelemetry
  <2> QED
    BY <2>1, <2>2, <2>3, <2>4, BoundsAssumption DEF DeviceOK, TelemetryMatchesFault
<1>4. PollOK
  <2>1. context = 0 /\ woken = FALSE /\ file = "closed"
    BY DEF Init
  <2>2. context \in 0..MaxSequence
    BY <2>1, BoundsAssumption
  <2>3. woken \in BOOLEAN
    BY <2>1
  <2>4. ~(file \in {"compared", "asleep"})
    BY <2>1
  <2> QED
    BY <2>2, <2>3, <2>4 DEF PollOK
<1> QED
  BY <1>1, <1>2, <1>3, <1>4 DEF Inv

-----------------------------------------------------------------------------
(* Loading and unloading.                                                   *)

\* What a failure releases is what stands.
LEMMA ErrorPathReleasesAll ==
  ASSUME NEW n \in 0..4
  PROVE  <<n, ErrorPath(Resources[n + 1])>> \in Standing
<1>1. Resources[1] = "memory" /\ Resources[2] = "region" /\ Resources[3] = "cdev"
      /\ Resources[4] = "class" /\ Resources[5] = "device"
  BY DEF Resources
<1>2. CASE n = 0
  BY <1>1, <1>2 DEF ErrorPath, Standing
<1>3. CASE n = 1
  BY <1>1, <1>3 DEF ErrorPath, Standing
<1>4. CASE n = 2
  BY <1>1, <1>4 DEF ErrorPath, Standing
<1>5. CASE n = 3
  BY <1>1, <1>5 DEF ErrorPath, Standing
<1>6. CASE n = 4
  BY <1>1, <1>6 DEF ErrorPath, Standing
<1> QED
  BY <1>2, <1>3, <1>4, <1>5, <1>6

\* Releasing the first of the rest leaves what stands below it.
LEMMA ReleaseOne ==
  ASSUME NEW n \in 0..6, NEW rest, <<n, rest>> \in Standing, rest # <<>>
  PROVE  /\ n > 0 /\ Head(rest) = Resources[n]
         /\ Upto(n) \ {Head(rest)} = Upto(n - 1)
         /\ <<n - 1, Tail(rest)>> \in Standing
<1>1. /\ Resources[1] = "memory" /\ Resources[2] = "region" /\ Resources[3] = "cdev"
      /\ Resources[4] = "class" /\ Resources[5] = "device" /\ Resources[6] = "timer"
  BY DEF Resources
<1>2. CASE n = 0
  BY <1>2 DEF Standing
<1>3. CASE n = 1
  <2>1. rest = <<"memory">>
    BY <1>3 DEF Standing
  <2>2. Head(rest) = "memory" /\ Tail(rest) = <<>>
    BY <2>1
  <2> QED
    BY <1>1, <1>3, <2>2, StandingIs DEF Standing
<1>4. CASE n = 2
  <2>1. rest = <<"region", "memory">>
    BY <1>4 DEF Standing
  <2>2. Head(rest) = "region" /\ Tail(rest) = <<"memory">>
    BY <2>1
  <2> QED
    BY <1>1, <1>4, <2>2, StandingIs DEF Standing
<1>5. CASE n = 3
  <2>1. rest = <<"cdev", "region", "memory">>
    BY <1>5 DEF Standing
  <2>2. Head(rest) = "cdev" /\ Tail(rest) = <<"region", "memory">>
    BY <2>1
  <2> QED
    BY <1>1, <1>5, <2>2, StandingIs DEF Standing
<1>6. CASE n = 4
  <2>1. rest = <<"class", "cdev", "region", "memory">>
    BY <1>6 DEF Standing
  <2>2. Head(rest) = "class" /\ Tail(rest) = <<"cdev", "region", "memory">>
    BY <2>1
  <2> QED
    BY <1>1, <1>6, <2>2, StandingIs DEF Standing
<1>7. CASE n = 5
  <2>1. rest = <<"device", "class", "cdev", "region", "memory">>
    BY <1>7 DEF Standing
  <2>2. Head(rest) = "device" /\ Tail(rest) = <<"class", "cdev", "region", "memory">>
    BY <2>1
  <2> QED
    BY <1>1, <1>7, <2>2, StandingIs DEF Standing
<1>8. CASE n = 6
  <2>1. rest = <<"timer", "device", "class", "cdev", "region", "memory">>
    BY <1>8 DEF Standing
  <2>2. Head(rest) = "timer" /\ Tail(rest) = <<"device", "class", "cdev", "region", "memory">>
    BY <2>1
  <2> QED
    BY <1>1, <1>8, <2>2, StandingIs DEF Standing
<1> QED
  BY <1>2, <1>3, <1>4, <1>5, <1>6, <1>7, <1>8

\* Nothing of the module's life changes.
LifeUnchanged == UNCHANGED <<module, held, releasing>>

LEMMA LifeStays == LifeOK /\ LifeUnchanged => LifeOK'
BY DEF LifeOK, LifeUnchanged

LEMMA DeviceStays == DeviceOK /\ UNCHANGED deviceVars => DeviceOK'
BY DEF DeviceOK, deviceVars, TelemetryMatchesFault

LEMMA PollStays == PollOK /\ UNCHANGED <<sequence, fileVars>> => PollOK'
BY DEF PollOK, fileVars

\* Where the devices of a prefix of the resources stand.
LEMMA DeviceStands ==
  ASSUME NEW n \in 0..6
  PROVE  /\ "device" \in Upto(n) <=> n >= 5
         /\ "timer" \in Upto(n) <=> n = 6
         /\ "memory" \in Upto(n) <=> n >= 1
BY StandingIs

\* A resource is added to those that stand.
LEMMA StandOne ==
  ASSUME NEW n \in 0..5
  PROVE  Upto(n) \cup {Resources[n + 1]} = Upto(n + 1)
<1>1. 1..(n + 1) = (1..n) \cup {n + 1}
  OBVIOUS
<1> QED
  BY <1>1 DEF Upto

LEMMA LoadInv == Inv /\ Load => Inv'
<1> SUFFICES ASSUME Inv, Load PROVE Inv'
  OBVIOUS
<1>1. LifeOK'
  BY DEF Inv, LifeOK, Load
<1>2. ControlOK'
  BY DEF Inv, ControlOK, Load, fileVars
<1> QED
  BY <1>1, <1>2, DeviceStays, PollStays DEF Inv, Load, deviceVars

LEMMA AcquireInv == Inv /\ Acquire => Inv'
<1> SUFFICES ASSUME Inv, Acquire PROVE Inv'
  OBVIOUS
<1>1. PICK n \in 0..5 : held = Upto(n)
  BY DEF Inv, LifeOK, Acquire
<1>2. NextResource = Resources[n + 1] /\ held' = Upto(n + 1)
  BY <1>1, StandingCounted, StandOne DEF NextResource, Acquire
<1>3. NextResource = "timer" <=> n = 5
  BY <1>2 DEF Resources
<1>4. NextResource = "memory" <=> n = 0
  BY <1>2 DEF Resources
<1>5. LifeOK'
  BY <1>2, <1>3 DEF LifeOK, Acquire, Inv
<1>6. ControlOK'
  <2>1. /\ "device" \in held' <=> n + 1 >= 5
        /\ "timer" \in held' <=> n + 1 = 6
        /\ "device" \in held <=> n >= 5
        /\ "timer" \in held <=> n = 6
    BY <1>1, <1>2, DeviceStands
  <2> QED
    BY <2>1, <1>3 DEF Inv, ControlOK, Acquire, fileVars
<1>7. DeviceOK'
  <2>1. CASE n = 0
    <3>1. fault' = "none" /\ telemetry' = WithFault(Baseline, "none") /\ sequence' = 0
      BY <1>4, <2>1 DEF Acquire, WithFault
    <3>2. telemetry'.correctable = 0
      BY <3>1, FaultCounted
    <3>3. telemetry' = [WithFault(Baseline, fault') EXCEPT !.correctable = telemetry'.correctable]
      BY <3>1, FaultTelemetry
    <3> QED
      BY <3>1, <3>2, <3>3, BoundsAssumption DEF DeviceOK, TelemetryMatchesFault, AllFaults
  <2>2. CASE n # 0
    BY <1>4, <2>2, DeviceStays DEF Acquire, Inv
  <2> QED
    BY <2>1, <2>2
<1>8. PollOK'
  <2>1. CASE n = 0
    <3>1. file = "closed"
      BY <2>1, <1>1, DeviceStands DEF Inv, ControlOK
    <3> QED
      BY <3>1 DEF Inv, PollOK, Acquire, fileVars
  <2>2. CASE n # 0
    BY <1>4, <2>2, PollStays DEF Acquire, Inv, deviceVars
  <2> QED
    BY <2>1, <2>2
<1> QED
  BY <1>5, <1>6, <1>7, <1>8 DEF Inv

LEMMA FailInv == Inv /\ Fail => Inv'
<1> SUFFICES ASSUME Inv, Fail PROVE Inv'
  OBVIOUS
<1>1. PICK n \in 0..5 : held = Upto(n)
  BY DEF Inv, LifeOK, Fail
<1>2. NextResource = Resources[n + 1]
  BY <1>1, StandingCounted DEF NextResource
<1>3. n \in 0..4
  <2>1. Resources[5 + 1] = "timer"
    BY DEF Resources
  <2> QED
    BY <2>1, <1>2 DEF Fail
<1>4. LifeOK'
  BY <1>1, <1>2, <1>3, ErrorPathReleasesAll DEF LifeOK, Fail
<1>5. ControlOK'
  <2>1. "device" \notin held
    BY <1>1, <1>3, DeviceStands
  <2> QED
    BY <2>1 DEF Inv, ControlOK, Fail, fileVars
<1> QED
  BY <1>4, <1>5, DeviceStays, PollStays DEF Inv, Fail, deviceVars

LEMMA UnloadInv == Inv /\ Unload => Inv'
<1> SUFFICES ASSUME Inv, Unload PROVE Inv'
  OBVIOUS
<1>1. held = Upto(6)
  BY DEF Inv, LifeOK, Unload
<1>2. LifeOK'
  <2>1. <<6, releasing'>> \in Standing
    BY DEF Unload, Standing
  <2> QED
    BY <1>1, <2>1 DEF LifeOK, Unload
<1>3. ControlOK'
  BY DEF Inv, ControlOK, Unload, fileVars
<1> QED
  BY <1>2, <1>3, DeviceStays, PollStays DEF Inv, Unload, deviceVars

LEMMA ReleaseInv == Inv /\ Release => Inv'
<1> SUFFICES ASSUME Inv, Release PROVE Inv'
  OBVIOUS
<1>1. PICK n \in 0..6 : held = Upto(n) /\ <<n, releasing>> \in Standing
  BY DEF Inv, LifeOK, Release
<1>2. /\ n > 0 /\ Head(releasing) = Resources[n]
      /\ held' = Upto(n - 1)
      /\ <<n - 1, releasing'>> \in Standing
  BY <1>1, ReleaseOne DEF Release
<1>3. LifeOK'
  <2>1. n - 1 \in 0..6 /\ module = "releasing" /\ module' = module
    BY <1>2 DEF Release
  <2> QED
    BY <1>2, <2>1 DEF LifeOK
<1>4. ControlOK'
  <2>1. /\ "device" \in held' <=> n - 1 >= 5
        /\ "timer" \in held' <=> n - 1 = 6
        /\ "device" \in held <=> n >= 5
        /\ "timer" \in held <=> n = 6
    BY <1>1, <1>2, DeviceStands
  <2>2. Head(releasing) = "timer" <=> n = 6
    BY <1>2 DEF Resources
  <2>3. Head(releasing) = "device" <=> n = 5
    BY <1>2 DEF Resources
  <2>4. n = 5 => \A u \in Users : user[u] = "outside"
    BY <2>3 DEF Release
  <2>5. n = 6 => timer' = "none"
    BY <2>2, <2>1 DEF Release, TimerIdle, Inv, ControlOK
  <2>6. n # 6 => timer' = timer
    BY <2>2 DEF Release
  <2> QED
    BY <2>1, <2>4, <2>5, <2>6, <1>2 DEF Inv, ControlOK, Release, fileVars
<1> QED
  BY <1>3, <1>4, DeviceStays, PollStays DEF Inv, Release, deviceVars

LEMMA ReleasedInv == Inv /\ Released => Inv'
<1> SUFFICES ASSUME Inv, Released PROVE Inv'
  OBVIOUS
<1>1. PICK n \in 0..6 : held = Upto(n) /\ <<n, <<>>>> \in Standing
  BY DEF Inv, LifeOK, Released
<1>2. n = 0
  BY <1>1 DEF Standing
<1>3. LifeOK'
  BY <1>1, <1>2 DEF LifeOK, Released
<1>4. ControlOK'
  BY DEF Inv, ControlOK, Released, fileVars
<1> QED
  BY <1>3, <1>4, DeviceStays, PollStays DEF Inv, Released, deviceVars

-----------------------------------------------------------------------------
(* The timer, the attributes and the file.                                  *)

LEMMA FireInv == Inv /\ Fire => Inv'
<1> SUFFICES ASSUME Inv, Fire PROVE Inv'
  OBVIOUS
<1>1. ControlOK'
  BY DEF Inv, ControlOK, Fire, fileVars
<1> QED
  BY <1>1, LifeStays, DeviceStays, PollStays DEF Inv, Fire, LifeUnchanged, deviceVars

LEMMA TickInv == Inv /\ Tick => Inv'
<1> SUFFICES ASSUME Inv, Tick PROVE Inv'
  OBVIOUS
<1>1. ControlOK'
  BY DEF Inv, ControlOK, Tick
<1>2. LifeOK'
  BY LifeStays DEF Inv, Tick, LifeUnchanged
<1>3. CASE UNCHANGED <<telemetry, sequence, woken>>
  BY <1>1, <1>2, <1>3, DeviceStays, PollStays DEF Inv, Tick, deviceVars, fileVars
<1>4. CASE /\ Spiking
           /\ telemetry.correctable < MaxCount
           /\ telemetry' = [telemetry EXCEPT !.correctable = @ + 1]
           /\ Event
  <2> DEFINE t == WithFault(Baseline, fault)
  <2>1. fault' = fault /\ fault = "correctable_error_spike" /\ fault \in AllFaults
    BY <1>4 DEF Inv, DeviceOK, Tick, Spiking
  <2>2. telemetry = [t EXCEPT !.correctable = telemetry.correctable]
        /\ telemetry.correctable \in 0..MaxCount /\ telemetry.correctable >= 1
    BY <2>1 DEF Inv, DeviceOK, TelemetryMatchesFault
  <2>3. "correctable" \in DOMAIN t
    BY FaultCounted
  <2>4. telemetry' = [t EXCEPT !.correctable = telemetry.correctable + 1]
    <3> HIDE DEF t
    <3>1. telemetry' = [telemetry EXCEPT !.correctable = telemetry.correctable + 1]
      BY <1>4
    <3> QED
      BY <3>1, <2>2, WrittenTwice
  <2>5. telemetry'.correctable = telemetry.correctable + 1
    <3> HIDE DEF t
    <3> QED
      BY <2>3, <2>4
  <2>6. sequence' \in 0..MaxSequence /\ woken' = (woken \/ Queued) /\ file' = file
        /\ context' = context
    BY <1>4, BoundsAssumption DEF Inv, DeviceOK, Event, Tick
  <2>7. telemetry' = [t EXCEPT !.correctable = telemetry'.correctable]
    BY <2>4, <2>5
  <2>8. telemetry'.correctable \in 0..MaxCount /\ telemetry'.correctable >= 1
    BY <1>4, <2>2, <2>5, BoundsAssumption
  <2>9. DeviceOK'
    BY <2>1, <2>6, <2>7, <2>8 DEF DeviceOK, TelemetryMatchesFault
  <2>10. PollOK'
    BY <2>6 DEF Inv, PollOK, Queued
  <2> QED
    BY <1>1, <1>2, <2>9, <2>10 DEF Inv
<1> QED
  BY <1>3, <1>4 DEF Tick

\* Setting a fault wakes a process that may be about to sleep.
LEMMA FaultedInv ==
  ASSUME Inv, NEW f \in AllFaults, ApplyFault(f), LifeUnchanged,
         UNCHANGED <<timer, file, context>>, user' \in [Users -> {"outside", "inside"}],
         \A u \in Users : user'[u] = "inside" => user[u] = "inside"
  PROVE  Inv'
<1>1. LifeOK'
  BY LifeStays DEF Inv
<1>2. ControlOK'
  BY DEF Inv, ControlOK, LifeUnchanged
<1>3. DeviceOK' /\ woken' = (woken \/ Queued)
  BY Faulted DEF Inv
<1>4. PollOK'
  BY <1>3 DEF Inv, PollOK, Queued
<1> QED
  BY <1>1, <1>2, <1>3, <1>4 DEF Inv

LEMMA UserInv ==
  ASSUME Inv, NEW u \in Users, Enter(u) \/ Store(u) \/ Show(u)
  PROVE  Inv'
<1>1. CASE Enter(u)
  <2>1. ControlOK'
    BY <1>1 DEF Inv, ControlOK, Enter, fileVars
  <2> QED
    BY <1>1, <2>1, LifeStays, DeviceStays, PollStays
       DEF Inv, Enter, LifeUnchanged, deviceVars
<1>2. CASE Show(u)
  <2>1. ControlOK'
    BY <1>2 DEF Inv, ControlOK, Show, fileVars
  <2> QED
    BY <1>2, <2>1, LifeStays, DeviceStays, PollStays
       DEF Inv, Show, LifeUnchanged, deviceVars
<1>3. CASE Store(u)
  <2>1. PICK f \in AllFaults : ApplyFault(f)
    BY <1>3, FaultsAssumption DEF Store
  <2>2. user' = [user EXCEPT ![u] = "outside"]
    BY <1>3 DEF Store
  <2>3. user' \in [Users -> {"outside", "inside"}]
        /\ \A v \in Users : user'[v] = "inside" => user[v] = "inside"
    BY <2>2 DEF Inv, ControlOK
  <2>4. LifeUnchanged /\ UNCHANGED <<timer, file, context>>
    BY <1>3 DEF Store, LifeUnchanged
  <2> QED
    BY <2>1, <2>3, <2>4, FaultedInv
<1> QED
  BY <1>1, <1>2, <1>3

LEMMA FileInv ==
  ASSUME Inv, Open \/ Close \/ Poll \/ PollTimesOut
  PROVE  Inv'
<1> USE DEF FileOnly, deviceVars
<1>1. FileOnly /\ LifeOK' /\ DeviceOK'
  <2>1. FileOnly
    BY DEF Open, Close, Poll, PollTimesOut, PollWait, Compare, Report, Sleep, LookAgain
  <2> QED
    BY <2>1, LifeStays, DeviceStays DEF Inv, LifeUnchanged
<1>2. ControlOK' /\ PollOK'
  <2> USE <1>1 DEF Inv, ControlOK, PollOK, DeviceOK
  <2>1. CASE Open
    BY <2>1 DEF Open
  <2>2. CASE Close
    BY <2>2 DEF Close
  <2>3. CASE PollWait
    BY <2>3 DEF PollWait
  <2>4. CASE Compare
    BY <2>4 DEF Compare
  <2>5. CASE Report
    BY <2>5 DEF Report
  <2>6. CASE Sleep
    BY <2>6 DEF Sleep
  <2>7. CASE LookAgain
    BY <2>7 DEF LookAgain
  <2>8. CASE PollTimesOut
    BY <2>8 DEF PollTimesOut
  <2> QED
    BY <2>1, <2>2, <2>3, <2>4, <2>5, <2>6, <2>7, <2>8 DEF Poll
<1> QED
  BY <1>1, <1>2 DEF Inv

LEMMA IoctlInv == Inv /\ Ioctl => Inv'
<1> SUFFICES ASSUME Inv, Ioctl PROVE Inv'
  OBVIOUS
<1>1. LifeUnchanged /\ UNCHANGED <<timer, user, file, context>>
  BY DEF Ioctl, LifeUnchanged
<1>2. user \in [Users -> {"outside", "inside"}]
  BY DEF Inv, ControlOK
<1>3. CASE \E f \in Faults \cup {"none"} : ApplyFault(f)
  <2>1. PICK f \in AllFaults : ApplyFault(f)
    BY <1>3, FaultsAssumption DEF AllFaults
  <2> QED
    BY <1>1, <1>2, <2>1, FaultedInv
<1>4. CASE Event /\ UNCHANGED <<fault, telemetry>>
  <2>1. sequence' \in 0..MaxSequence /\ woken' = (woken \/ Queued)
    BY <1>4, BoundsAssumption DEF Event, Inv, DeviceOK
  <2>2. DeviceOK'
    BY <1>4, <2>1 DEF Inv, DeviceOK, TelemetryMatchesFault
  <2>3. PollOK'
    BY <1>1, <2>1 DEF Inv, PollOK, Queued
  <2>4. ControlOK'
    BY <1>1 DEF Inv, ControlOK, LifeUnchanged
  <2> QED
    BY <1>1, <2>2, <2>3, <2>4, LifeStays DEF Inv
<1> QED
  BY <1>3, <1>4 DEF Ioctl

-----------------------------------------------------------------------------
(* The theorems.                                                            *)

LEMMA StepInv == Inv /\ [Next]_vars => Inv'
<1> SUFFICES ASSUME Inv, [Next]_vars PROVE Inv'
  OBVIOUS
<1>1. CASE UNCHANGED vars
  <2>1. UNCHANGED <<module, held, releasing, timer, user, deviceVars, fileVars>>
    BY <1>1 DEF vars
  <2>2. ControlOK'
    BY <2>1 DEF Inv, ControlOK, fileVars
  <2> QED
    BY <2>1, <2>2, LifeStays, DeviceStays, PollStays DEF Inv, LifeUnchanged, deviceVars
<1> QED
  BY <1>1, LoadInv, AcquireInv, FailInv, UnloadInv, ReleaseInv, ReleasedInv, FireInv,
     TickInv, UserInv, FileInv, IoctlInv DEF Next

\* The driver's life, its telemetry and its poll() in one inductive invariant.
THEOREM DriverInvariant == Spec => []Inv
BY InitInv, StepInv, PTL DEF Spec

\* Members keep their types, whatever users and the poller do.
THEOREM DriverTypeCorrect == Spec => []TypeOK
<1>1. Inv => TypeOK
  <2> SUFFICES ASSUME Inv PROVE TypeOK
    OBVIOUS
  <2>1. held \subseteq Range(Resources) /\ releasing \in Seq(Range(Resources))
    <3>1. PICK n \in 0..6 :
            held = Upto(n) /\ (releasing = <<>> \/ <<n, releasing>> \in Standing)
      BY DEF Inv, LifeOK, ControlOK
    <3>2. Upto(n) \subseteq Upto(6)
      BY DEF Upto
    <3> DEFINE names == {"memory", "region", "cdev", "class", "device", "timer"}
    <3>3. /\ <<>> \in Seq(names)
          /\ <<"memory">> \in Seq(names)
          /\ <<"region", "memory">> \in Seq(names)
          /\ <<"cdev", "region", "memory">> \in Seq(names)
          /\ <<"class", "cdev", "region", "memory">> \in Seq(names)
          /\ <<"device", "class", "cdev", "region", "memory">> \in Seq(names)
          /\ <<"timer", "device", "class", "cdev", "region", "memory">> \in Seq(names)
      OBVIOUS
    <3>4. releasing \in Seq(names)
      <4> HIDE DEF names
      <4> QED
        BY <3>1, <3>3 DEF Standing
    <3> QED
      BY <3>1, <3>2, <3>4, StandingIs
  <2> QED
    BY <2>1 DEF Inv, ControlOK, DeviceOK, PollOK, TypeOK
<1> QED
  BY <1>1, DriverInvariant, PTL

\* Resources go in the reverse order of their coming, after a failure at any step of
\* loading as after an unload, and none is left behind.
THEOREM AlwaysReleasedInOrder == Spec => []ReleasedInOrder
<1>1. Inv => ReleasedInOrder
  <2> SUFFICES ASSUME Inv PROVE ReleasedInOrder
    OBVIOUS
  <2>1. PICK n \in 0..6 : held = Upto(n) /\ (module = "absent" => n = 0)
    BY DEF Inv, LifeOK
  <2>2. Len(Resources) = 6
    BY DEF Resources
  <2>3. \A i, j \in 1..6 : Resources[i] = Resources[j] => i = j
    BY DEF Resources
  <2>4. \A i \in 1..5 : Resources[i + 1] \in held => Resources[i] \in held
    BY <2>1, <2>3 DEF Upto
  <2>5. module = "absent" => held = {}
    BY <2>1, StandingIs
  <2> QED
    BY <2>2, <2>4, <2>5 DEF ReleasedInOrder
<1> QED
  BY <1>1, DriverInvariant, PTL

\* No user, poller or timer is left when the memory goes, for any number of users.
THEOREM NeverUsedAfterFree == Spec => []NoUseAfterFree
<1>1. Inv => NoUseAfterFree
  <2> SUFFICES ASSUME Inv, "memory" \notin held
               PROVE  timer = "none" /\ file = "closed"
                      /\ \A u \in Users : user[u] = "outside"
    BY DEF NoUseAfterFree
  <2>1. PICK n \in 0..6 : held = Upto(n)
    BY DEF Inv, LifeOK
  <2>2. "device" \notin held /\ "timer" \notin held
    BY <2>1, DeviceStands
  <2> QED
    BY <2>2 DEF Inv, ControlOK
<1> QED
  BY <1>1, DriverInvariant, PTL

\* Telemetry is that of the fault in force, for any history of faults.
THEOREM TelemetryAlwaysMatches == Spec => []TelemetryMatchesFault
<1>1. Inv => TelemetryMatchesFault
  BY DEF Inv, DeviceOK
<1> QED
  BY <1>1, DriverInvariant, PTL

\* The poller never sleeps through an event.
THEOREM WakeupNeverLost == Spec => []NoWakeupLost
<1>1. Inv => NoWakeupLost
  BY DEF Inv, PollOK, NoWakeupLost
<1> QED
  BY <1>1, DriverInvariant, PTL
=============================================================================
