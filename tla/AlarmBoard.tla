------------------------------ MODULE AlarmBoard ------------------------------
(***************************************************************************)
(* What the sensor service promises to whoever reads its D-Bus objects,    *)
(* whatever its threads do: the event log of a sensor alternates between   *)
(* an assertion and a recovery, starting with an assertion, and a sensor's *)
(* shown health is that of its newest event, or unknown.                   *)
(***************************************************************************)
CONSTANT Sensors

VARIABLES
  newest,   \* the newest event of each sensor in the log
  shown     \* what the sensor's object says about its health

boardVars == <<newest, shown>>

BoardInit ==
  /\ newest = [s \in Sensors |-> "none"]
  /\ shown = [s \in Sensors |-> "absent"]

Assert(s) ==
  /\ newest[s] \in {"none", "recovered"}
  /\ newest' = [newest EXCEPT ![s] = "asserted"]
  /\ UNCHANGED shown

Recover(s) ==
  /\ newest[s] = "asserted"
  /\ newest' = [newest EXCEPT ![s] = "recovered"]
  /\ UNCHANGED shown

\* All objects appear together, before the first event.
Appear ==
  /\ shown = [s \in Sensors |-> "absent"]
  /\ shown' = [s \in Sensors |-> "OK"]
  /\ UNCHANGED newest

ShowHealth(s) ==
  /\ shown[s] # "absent"
  /\ shown' = [shown EXCEPT ![s] = IF newest[s] = "asserted" THEN "alarm" ELSE "OK"]
  /\ UNCHANGED newest

ShowUnknown(s) ==
  /\ shown[s] # "absent"
  /\ shown' = [shown EXCEPT ![s] = "unknown"]
  /\ UNCHANGED newest

BoardNext ==
  \/ Appear
  \/ \E s \in Sensors : Assert(s) \/ Recover(s) \/ ShowHealth(s) \/ ShowUnknown(s)

BoardSpec == BoardInit /\ [][BoardNext]_boardVars
=============================================================================
