-------------------------------- MODULE MCMctp --------------------------------
(* An instance of MctpReassembler for TLC.                                  *)
EXTENDS MctpReassembler

\* One to six fragments; the tag of the first message comes back with the ninth.
Lengths == [m \in 1..Messages |-> <<0, 257, 64, 65, 300, 1, 384, 129>>[1 + (m % 8)]]
=============================================================================
