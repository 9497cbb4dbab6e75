---------------------------- MODULE MCApplication ----------------------------
(* Instances of Application for TLC.                                        *)
EXTENDS Application

CONSTANT h1
=============================================================================
