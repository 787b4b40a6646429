------------------------------ MODULE ItemLife -------------------------------
(* The life of the things in a level as the player sees it: an item lies on   *)
(* the floor, is carried, and, if it is for throwing, flies and breaks; each  *)
(* happens to it once.  A padlock is opened by what is carried and stays open *)
(* (a developer opens all).                                                   *)
CONSTANTS
  Items,      \* the items of the level
  Throwable,  \* those that can be thrown
  Padlocks,   \* the padlocks of the level
  Opens       \* pairs of an item and a padlock it opens

VARIABLES
  place,      \* where each item is
  locked      \* the padlocks still closed

Places == {"floor", "carried", "thrown", "gone"}

Init == place = [i \in Items |-> "floor"] /\ locked = Padlocks

Move(i, from, to) ==
  /\ place[i] = from
  /\ place' = [place EXCEPT ![i] = to]
  /\ UNCHANGED locked

Open(p) ==
  /\ p \in locked
  /\ \E i \in Items : place[i] = "carried" /\ <<i, p>> \in Opens
  /\ locked' = locked \ {p}
  /\ UNCHANGED place

OpenAll == locked' = {} /\ UNCHANGED place

Next ==
  \/ \E i \in Items : Move(i, "floor", "carried")
  \/ \E i \in Throwable : Move(i, "carried", "thrown") \/ Move(i, "thrown", "gone")
  \/ \E p \in Padlocks : Open(p)
  \/ OpenAll

Spec == Init /\ [][Next]_<<place, locked>>
=============================================================================
