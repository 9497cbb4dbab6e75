--------------------------- MODULE MCFirmwareUpdate ---------------------------
(* Instances of FirmwareUpdateManager for TLC.                              *)
EXTENDS FirmwareUpdateManager, TLC

CONSTANTS r1, r2, r3

\* Sessions are interchangeable (safety runs only).
RequestSymmetry == Permutations(Requests)
=============================================================================
