----------------------------- MODULE ScoreBoard ------------------------------
(* The clock of a level and the totals of a game (src/src/Game.cpp), kept     *)
(* along the steps of Campaign, which GameFlow implements.  The clock ticks   *)
(* in hundredths of a second.  The score grows wherever the total time does.  *)
EXTENDS Integers

CONSTANTS
  NumLevels, Late,   \* see Campaign
  TimeSteps,         \* lengths of a frame, in ticks
  MaxContacts,       \* bound: lethal contacts of one physics step
  MaxTime            \* bound: the clocks stop in the model when they reach it

ASSUME ScoreAssumption ==
  /\ TimeSteps \subseteq Nat \ {0}
  /\ MaxContacts \in Nat \ {0}
  /\ MaxTime \in Nat

VARIABLES
  screen, level,
  levelTime,   \* levelTime_
  totalTime,   \* totalTime_
  contacts,    \* lethal contacts of this physics step still to be delivered
  ended        \* what the attempts of this game took that have ended, each once

score == <<levelTime, totalTime, contacts, ended>>
vars == <<screen, level, levelTime, totalTime, contacts, ended>>

Flow == INSTANCE Campaign

Init ==
  /\ Flow!Init
  /\ levelTime = 0
  /\ totalTime = 0
  /\ contacts = 0
  /\ ended = 0

(* The movie stage of HandleUpdate while the level is played.                 *)
Clock ==
  /\ screen = "playing"
  /\ \E step \in TimeSteps :
       /\ totalTime + levelTime + step <= MaxTime
       /\ levelTime' = levelTime + step
  /\ UNCHANGED <<screen, level, totalTime, contacts, ended>>

(* EndLevel counts the attempt, also one that has ended before.               *)
Count == totalTime' = totalTime + levelTime

CountFirst == Count /\ ended' = ended + levelTime

Complete == Flow!Win /\ CountFirst /\ UNCHANGED <<levelTime, contacts>>

(* A boss's last words end a level that was lost meanwhile.                   *)
CompleteLate ==
  /\ contacts = 0
  /\ Flow!WinLate
  /\ Count
  /\ UNCHANGED <<levelTime, contacts, ended>>

Die ==
  /\ Flow!Lose
  /\ CountFirst
  /\ contacts' \in 0..(MaxContacts - 1)
  /\ UNCHANGED levelTime

(* The next contact of the physics step that killed the person.               *)
DieAgain ==
  /\ contacts > 0
  /\ contacts' = contacts - 1
  /\ Count
  /\ UNCHANGED <<screen, level, levelTime, ended>>

(* LoadLevel; a lost or won level is left by [space], after the contacts.     *)
Load == contacts = 0 /\ levelTime' = 0 /\ UNCHANGED contacts

(* A bug: the level is loaded before the attempt is counted.                  *)
WifeDefeatedLoads ==
  /\ screen = "playing"
  /\ Flow!Advance
  /\ Load
  /\ ended' = ended + levelTime
  /\ totalTime' = totalTime + levelTime'

(* EndLevel(false, true) counts and goes on to the credits at once.           *)
WifeDefeated == screen = "playing" /\ Flow!Advance /\ CountFirst /\ Load

(* [space] on the panel of a level.                                           *)
Continue ==
  /\ screen \in {"won", "lost"}
  /\ Flow!Advance \/ Flow!Retry
  /\ Load
  /\ UNCHANGED <<totalTime, ended>>

(* The developer's R.                                                         *)
Reload == screen = "playing" /\ Load /\ UNCHANGED <<screen, level, totalTime, ended>>

(* From the intro, the title's digits or the statistics.                      *)
NewGame ==
  /\ Flow!StartGame \/ Flow!PickLevel
  /\ Load
  /\ ended' = 0
  /\ UNCHANGED totalTime

Movies == (Flow!StartIntro \/ Flow!PickCredits \/ Flow!CreditsEnd) /\ UNCHANGED score

Next ==
  \/ Clock \/ Complete \/ CompleteLate \/ Die \/ DieAgain \/ WifeDefeated
  \/ Continue \/ Reload \/ NewGame \/ Movies

Spec == Init /\ [][Next]_vars

(* -------------------------------- properties ------------------------------ *)

(* However an attempt ends, also in the moment that starts the credits, its   *)
(* time is part of the total.                                                 *)
NoAttemptLost == totalTime >= ended

(* What the statistics ask for, "Can you do better next time?"                *)
(* (src/src/Game.cpp:1501): the total they show is of the game just played.   *)
TotalOfThisGame == screen = "results" => totalTime = ended
=============================================================================
