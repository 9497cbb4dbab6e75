--------------------------- MODULE MCSensorService ---------------------------
(* Instances of SensorService for TLC.                                      *)
EXTENDS SensorService, TLC

CONSTANTS g1, g2, f1, f2, p1, p2, n1, c1, c2, c3

\* Without noise.
Quiet == {0}

\* A little noise, so that ups and downs of a capped GPU meet again.
Warming == {9}

\* One GPU that the profile lets run hot.
OneGpu ==
  [gpu  |-> [g \in Gpus |-> [temp |-> 840, power |-> 2900]],
   pwm  |-> 40,
   failedFans |-> {},
   healthyPsus |-> Psus,
   nvme |-> [n \in Nvmes |-> [temp |-> 350, health |-> "OK"]]]

\* The same GPU, already as hot as it gets without an injected fault.
HotGpu == [OneGpu EXCEPT !.gpu = [g \in Gpus |-> [temp |-> 880, power |-> 3100]]]

\* Sessions are interchangeable (safety runs only).
SessionSymmetry == Permutations(Sessions)
=============================================================================
