------------------------------ MODULE MCMiniPcie ------------------------------
(* Instances of MiniPcieTelemetry for TLC.                                  *)
EXTENDS MiniPcieTelemetry

CONSTANTS u1, u2
=============================================================================
