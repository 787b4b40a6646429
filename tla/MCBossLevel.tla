----------------------------- MODULE MCBossLevel -----------------------------
(* Constants of BossLevel for TLC.                                            *)
EXTENDS BossLevel

CONSTANTS voice, black, hint

At(sound, delay) == [sound |-> sound, delay |-> delay]

(* As in MrWright.cpp and BossBertha.cpp, shortened: the mark first.          *)
Words == <<At(Null, 0), At(black, 0), At(voice, 0)>>

(* One zone with a delayed and one with an immediate hint.                    *)
Hints == [z \in Zones |-> IF z = "entrance" THEN <<At(hint, 0)>> ELSE <<At(hint, 2), At(black, 0)>>]

Ticks == {1, 3}
=============================================================================
