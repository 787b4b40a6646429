---------------------------- MODULE MCCrashReport ----------------------------
(* Constants of CrashReport for TLC.                                          *)
EXTENDS CrashReport

(* Two events of the game and two crashes.                                    *)
FourRequests == <<"launch", "level", "crash", "again">>
=============================================================================
