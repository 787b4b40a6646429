-------------------------- MODULE ScoreBoard_proofs --------------------------
(* No attempt is lost, for any levels, bosses, time steps and bounds.         *)
EXTENDS ScoreBoard, TLAPS

Inv ==
  /\ levelTime \in Nat
  /\ totalTime \in Nat
  /\ ended \in Nat
  /\ contacts \in Nat
  /\ NoAttemptLost

(* Counting an attempt adds to both sides alike.                              *)
LEMMA CountKeeps ==
  ASSUME Inv, CountFirst, levelTime' \in Nat, contacts' \in Nat
  PROVE  Inv'
  BY DEF Inv, NoAttemptLost, CountFirst, Count

LEMMA InvStep == ASSUME Inv, [Next]_vars PROVE Inv'
<1>1. ASSUME Clock PROVE Inv'
  BY <1>1, ScoreAssumption DEF Inv, NoAttemptLost, Clock
<1>2. ASSUME Complete PROVE Inv'
  BY <1>2, CountKeeps DEF Complete, Inv
<1>3. ASSUME CompleteLate PROVE Inv'
  BY <1>3 DEF CompleteLate, Count, Inv, NoAttemptLost
<1>4. ASSUME Die PROVE Inv'
  <2>1. contacts' \in Nat
    BY <1>4, ScoreAssumption DEF Die
  <2> QED BY <1>4, <2>1, CountKeeps DEF Die, Inv
<1>5. ASSUME DieAgain PROVE Inv'
  BY <1>5 DEF DieAgain, Count, Inv, NoAttemptLost
<1>6. ASSUME WifeDefeated PROVE Inv'
  BY <1>6, CountKeeps DEF WifeDefeated, Load, Inv
<1>7. ASSUME Continue \/ Reload PROVE Inv'
  BY <1>7 DEF Continue, Reload, Load, Inv, NoAttemptLost
<1>8. ASSUME NewGame PROVE Inv'
  BY <1>8 DEF NewGame, Load, Inv, NoAttemptLost
<1>9. ASSUME Movies \/ UNCHANGED vars PROVE Inv'
  BY <1>9 DEF Movies, score, vars, Inv, NoAttemptLost
<1> QED
  BY <1>1, <1>2, <1>3, <1>4, <1>5, <1>6, <1>7, <1>8, <1>9 DEF Next

(* NoAttemptLost of the specification: the time of every attempt that has     *)
(* ended, in whatever way EndLevel was called, is in the total.               *)
THEOREM AttemptsCounted == Spec => []NoAttemptLost
<1>1. Init => Inv
  BY DEF Init, Inv, NoAttemptLost
<1>2. Inv /\ [Next]_vars => Inv'
  BY InvStep
<1>3. Inv => NoAttemptLost
  BY DEF Inv
<1> QED BY <1>1, <1>2, <1>3, PTL DEF Spec
=============================================================================
