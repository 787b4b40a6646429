----------------------------- MODULE MCGameFlow -----------------------------
(* Constants of GameFlow for TLC.                                             *)
EXTENDS GameFlow

(* The game's own nine levels: MrWright in the third, Bertha in the sixth,    *)
(* the wife in the ninth, stairs in the others.                               *)
GameEnding == [l \in 0..8 |-> CASE l \in {2, 5} -> "boss" [] l = 8 -> "wife" [] OTHER -> "stairs"]
ThreeEndings == [l \in 0..2 |-> CASE l = 0 -> "stairs" [] l = 1 -> "boss" [] l = 2 -> "wife"]

Press(digits, space, letters) == [digits |-> digits, space |-> space, letters |-> letters]

(* What a player presses: nothing, [space], a level, the credits, two keys.   *)
PlayerInputs ==
  {Press(d, s, {}) : d \in {{}, {0}, {1}, {2, 3}, {9}, {0, 9}}, s \in BOOLEAN}

(* A developer also enables developer mode, reloads and skips levels.         *)
DeveloperInputs ==
  PlayerInputs \cup {Press(d, s, l) : d \in {{}, {2}, {3}}, s \in BOOLEAN,
                                      l \in {{"grave"}, {"R"}, {"N"}, {"R", "N"}}}

StepTicks == {1, 3}
=============================================================================
