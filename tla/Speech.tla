------------------------------- MODULE Speech -------------------------------
(* What the audio manager promises: the sounds it is given are heard one      *)
(* after the other, in the order their author meant, never two at a time.     *)
(* A new batch replaces those still waiting or is lined up after them.        *)
EXTENDS Sequences

CONSTANTS
  Batches,   \* the batches it may be given, in the order to be heard
  Silent     \* a mark among the sounds, which is not heard

VARIABLES
  pending,   \* the sounds still to be heard, the next one first
  speaking   \* a sound is being heard

Init == pending = <<>> /\ speaking = FALSE

Begin ==
  /\ ~speaking
  /\ pending # <<>>
  /\ pending' = Tail(pending)
  /\ speaking' = (Head(pending) # Silent)

Finish == speaking /\ speaking' = FALSE /\ UNCHANGED pending

Accept(batch) ==
  /\ \/ pending' = batch
     \/ pending' = pending \o batch
  /\ UNCHANGED speaking

(* Everything stops: the level is cleared.                                    *)
Reset == pending' = <<>> /\ speaking' = FALSE

Next == Begin \/ Finish \/ Reset \/ \E batch \in Batches : Accept(batch)

Spec == Init /\ [][Next]_<<pending, speaking>>
=============================================================================
