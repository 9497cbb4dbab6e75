---------------------------- MODULE MCSensorManager ----------------------------
(***************************************************************************)
(* Instances of SensorManager for TLC.  Temp stands for GPU0_Core_Temp,    *)
(* Fan for Fan0_Tach, in tenths of a degree and of a revolution per minute.*)
(***************************************************************************)
EXTENDS SensorManager

CONSTANTS Temp, Fan, OutsideLimits

MCBindings == <<Temp>>
MCHwmon == <<Fan>>
MCEid == Temp :> 8
MCLimits ==
  Temp :> [upper |-> 850, lower |-> NoLimit, hysteresis |-> 20, asserted |-> "Critical"]
    @@ Fan :> [upper |-> NoLimit, lower |-> 30000, hysteresis |-> 1, asserted |-> "Warning"]
MCPdr == Temp :> MCLimits[Temp]
MCInitial == Temp :> 650 @@ Fan :> 80000
MCReadings == Temp :> {650, 840, 860}
MCRejected == OutsideLimits
MCFanOutOfRange == Fan :> MCRejected
MCRequests == {<<Temp, "sensor_unavailable">>, <<Fan, "out_of_range">>}
MCSensors == {Temp, Fan}
MCOther == {PcieDevice, <<"entry", Temp>>, <<"entry", Fan>>}
=============================================================================
