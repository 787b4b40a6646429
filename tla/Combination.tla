----------------------------- MODULE Combination -----------------------------
(* What a boss with a combination promises: the symbols of the combination    *)
(* are entered one by one, each by coming to what shows it, and once all are  *)
(* entered, and never before, the boss is beaten for good.  What is shown     *)
(* before the player may change in any way; that alone enters nothing.        *)
EXTENDS Sequences

CONSTANT Symbols

VARIABLES
  left,    \* the symbols still to be entered
  shown,   \* what the player stands before
  beaten

Init == left \in Seq(Symbols) /\ ~beaten

Wander == UNCHANGED <<left, beaten>>

Enter ==
  /\ left # <<>>
  /\ shown' = Head(left)
  /\ left' = Tail(left)
  /\ beaten' \in {FALSE, left' = <<>>}

Beat ==
  /\ left = <<>>
  /\ beaten' = TRUE
  /\ UNCHANGED <<left, shown>>

Next == Wander \/ Enter \/ Beat

Spec == Init /\ [][Next]_<<left, shown, beaten>>
=============================================================================
