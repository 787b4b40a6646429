------------------------------- MODULE MCGuard -------------------------------
(* Constants of Room for TLC: a corridor of three points, a desk the mesh     *)
(* does not reach, and two lasers like those of data/Levels/5/1x2.xml.        *)
EXTENDS Room, SequencesExt

CONSTANT desk

Corridor == 1..3
Floor == Corridor \cup {desk}

Near == {<<p, q>> \in Corridor \X Corridor : p - q \in {-1, 0, 1}} \cup {<<desk, desk>>}

Along(a, b) ==
  IF a <= b THEN [i \in 1..(b - a + 1) |-> a + i - 1] ELSE Reverse([i \in 1..(a - b + 1) |-> b + i - 1])

Ways == [a \in Floor |-> [b \in Floor |-> IF desk \in {a, b} THEN <<>> ELSE Along(a, b)]]

Beat == <<1, 2>>

(* The second laser waits for an interval.                                    *)
Pair == 1..2
Ones == <<1, 1>>
OneLater == <<0, 1>>

(* The corridor is what the theorem FloorKept asks for.                       *)
ASSUME Connected(Corridor)
=============================================================================
