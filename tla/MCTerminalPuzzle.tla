-------------------------- MODULE MCTerminalPuzzle ---------------------------
(* Constants of TerminalPuzzle for TLC.                                       *)
EXTENDS TerminalPuzzle

FourTerminals == <<"t1", "t2", "t3", "t4">>
=============================================================================
