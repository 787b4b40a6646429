---------------------------- MODULE MCCrashServer ----------------------------
(* Constants of CrashServer for TLC.                                          *)
EXTENDS CrashServer

CONSTANTS c1, c2

(* Both clients ask for a dump, or the first asks again after an answer or a  *)
(* timeout.                                                                   *)
TwoDumps == {n \in [Clients -> 0..2] : n[c1] + n[c2] <= 2 /\ n[c2] < 2}
=============================================================================
