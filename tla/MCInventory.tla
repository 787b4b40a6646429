----------------------------- MODULE MCInventory -----------------------------
(* Constants of Inventory for TLC: two things to throw, a punch card for two  *)
(* doors and one for a third, as in the levels' files.                        *)
EXTENDS Inventory

Things == {"rock", "brick", "red", "blue"}
Locks == {"foyer", "stairwell", "office"}

Types ==
  [x \in Things \cup Locks |->
     IF x \in {"rock", "brick"} THEN "Throwable"
     ELSE IF x \in {"red", "foyer", "office"} THEN "Punchcard_1" ELSE "Punchcard_2"]
=============================================================================
