------------------------------ MODULE Campaign ------------------------------
(* What the program promises the player: the course of a game, without        *)
(* frames, scenes, keys or components.  A level lost is played again, only a  *)
(* level won is followed by the next one, and the last one by the credits.    *)
(*                                                                            *)
(* Late is the set of levels where the promise is known to be weaker: their   *)
(* ending is still announced after the player has died.  Late = {} is the     *)
(* promise of the comment in Game::LoadLevel (src/src/Game.cpp:243).          *)
EXTENDS Integers

CONSTANTS NumLevels, Late

VARIABLES screen, level

Screens == {"menu", "intro", "playing", "lost", "won", "credits", "results"}

Init == screen = "menu" /\ level = 0

Goto(from, to) == screen = from /\ screen' = to

StartIntro == Goto("menu", "intro") /\ UNCHANGED level

PickLevel == Goto("menu", "playing") /\ level' \in 0..(NumLevels - 1)

PickCredits == Goto("menu", "credits") /\ UNCHANGED level

(* The first level follows the intro, and the results of a finished game.     *)
StartGame ==
  /\ screen \in {"intro", "results"}
  /\ screen' = "playing"
  /\ level' = 0

Win == Goto("playing", "won") /\ UNCHANGED level

Lose == Goto("playing", "lost") /\ UNCHANGED level

WinLate == Goto("lost", "won") /\ level \in Late /\ UNCHANGED level

Retry == Goto("lost", "playing") /\ UNCHANGED level

(* On to the next level, from the won screen or, in a level that suppresses   *)
(* that screen, straight from play.                                           *)
Advance ==
  /\ screen \in {"won", "playing"}
  /\ IF level + 1 < NumLevels
     THEN screen' = "playing" /\ level' = level + 1
     ELSE screen' = "credits" /\ level' = 0

CreditsEnd == screen = "credits" /\ screen' \in {"menu", "results"} /\ UNCHANGED level

Next ==
  \/ StartIntro \/ PickLevel \/ PickCredits \/ StartGame
  \/ Win \/ Lose \/ WinLate \/ Retry \/ Advance \/ CreditsEnd

Spec == Init /\ [][Next]_<<screen, level>>
=============================================================================
