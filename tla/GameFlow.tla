------------------------------ MODULE GameFlow ------------------------------
(* The control flow of the program: class Game (src/src/Game.cpp) driven by   *)
(* the engine's main loop.                                                    *)
(*                                                                            *)
(* The program has one thread.  A frame runs, in this order, the update of    *)
(* the components of the scene, the delivery of the contacts the physics step *)
(* found, Game::HandleUpdate (four stages: the [space] key, the menu, the     *)
(* movies, the developer keys) and Game::HandlePostRenderUpdate.  `phase` is  *)
(* the point the frame has reached.                                           *)
(*                                                                            *)
(* What the components of a level do is seen here only through their calls    *)
(* of Game::EndLevel.  Score, level clock and formatting are in ScoreBoard.   *)
EXTENDS Integers, Sequences, FiniteSets

CONSTANTS
  NumLevels,      \* Levels/1.png ... Levels/<NumLevels>.png exist
  Ending,         \* how each level ends: by stairs, a boss or the wife
  IntroFrames,    \* Textures/intro/1.jpeg ... <IntroFrames>.jpeg exist
  CreditsFrames,  \* Textures/credits/1.jpeg ... <CreditsFrames>.jpeg exist
  FrameTicks,     \* clock ticks in one movie frame (1/23.98 s)
  TimeSteps,      \* lengths a frame of the game may have, in ticks
  Inputs,         \* what may be pressed during one frame
  MaxContacts     \* bound: lethal contacts of one physics step

(* An input: the digit keys, [space] (or the A button), and the developer's   *)
(* keys ("R", "N" and "grave", the key that enables developer mode).          *)
Input == [digits : SUBSET (0..9), space : BOOLEAN, letters : SUBSET {"R", "N", "grave"}]

ASSUME ConstantsAssumption ==
  /\ NumLevels \in Nat \ {0}
  /\ Ending \in [0..(NumLevels - 1) -> {"stairs", "boss", "wife"}]
  /\ IntroFrames \in Nat
  /\ CreditsFrames \in Nat
  /\ FrameTicks \in Nat \ {0}
  /\ TimeSteps \subseteq Nat \ {0}
  /\ Inputs \subseteq Input
  /\ MaxContacts \in Nat

VARIABLES
  phase,          \* how far the current frame is
  gameState,      \* Game::gameState_
  currentLevel,   \* Game::currentLevel_, 0-based
  scene,          \* what Game::scene_ contains
  ui,             \* what the UI root contains
  contacts,       \* lethal contacts of this physics step still to be delivered
  keys,           \* the keys pressed in this frame, as HandleUpdate sees them
  movie,          \* the function-local statics frame and frameTimer of each movie
  developerMode,  \* Game::developerMode_
  debugDraw       \* which of debugPhysics_ and debugNavigation_ are set

flowVars == <<gameState, currentLevel, scene, ui>>
vars == <<phase, gameState, currentLevel, scene, ui, contacts, keys, movie, developerMode, debugDraw>>

Phases == {"scene", "physics", "space", "menu", "movie", "developer", "render", "crashed"}
GameStates == {"MENU", "INTRO", "PLAYING", "DEAD", "STAIRS", "CREDITS", "FINISHED"}

(* "empty" has no child nodes and no scene components but sounds; "level" is  *)
(* the scene of LoadLevel; "frozen" is that scene once EndLevel has disabled  *)
(* the components of its nodes; "title" is the scene built by the menu.       *)
Scenes == {"empty", "title", "level", "frozen"}
UIs == {"empty", "title", "movie", "level", "panel", "stats"}
Movies == {"intro", "credits"}

NoKeys == [digits |-> {}, space |-> FALSE, letters |-> {}]

InLevel(state) == state \in {"PLAYING", "DEAD", "STAIRS"}

Init ==
  /\ phase = "scene"
  /\ gameState = "MENU"
  /\ currentLevel = 0
  /\ scene = "empty"
  /\ ui = "empty"
  /\ contacts = 0
  /\ keys = NoKeys
  /\ movie = [m \in Movies |-> [frame |-> 0, timer |-> 0]]
  /\ developerMode = FALSE
  /\ debugDraw = {}

(* ---------------------- Game::LoadLevel, Game::EndLevel ------------------- *)

(* A bug: advancing whatever the state.                                       *)
NextLevelAlways(state, level) == IF state \in {"STAIRS", "DEAD"} THEN level + 1 ELSE level

(* The next level is taken only after GS_STAIRS.                              *)
NextLevel(state, level) == IF state = "STAIRS" THEN level + 1 ELSE level

StartLevel(level) ==
  /\ currentLevel' = level
  /\ gameState' = "PLAYING"
  /\ scene' = "level"
  /\ ui' = "level"

(* A bug: no sprite for the movie.                                            *)
RollCreditsNoSprite ==
  /\ currentLevel' = 0
  /\ gameState' = "CREDITS"
  /\ scene' = "empty"
  /\ ui' = "empty"

RollCredits ==
  /\ currentLevel' = 0
  /\ gameState' = "CREDITS"
  /\ scene' = "empty"
  /\ ui' = "movie"

(* LoadLevel called in `state` with currentLevel_ = `level`; a level without  *)
(* an image is the credits.                                                   *)
LoadLevel(state, level) ==
  IF NextLevel(state, level) < NumLevels THEN StartLevel(NextLevel(state, level))
                                         ELSE RollCredits

(* A bug of EndLevel: the components are left enabled.                        *)
EndLevelUnfrozen(died, suppressScore) ==
  IF suppressScore
  THEN LoadLevel("STAIRS", currentLevel)
  ELSE /\ gameState' = IF died THEN "DEAD" ELSE "STAIRS"
       /\ ui' = "panel"
       /\ UNCHANGED <<currentLevel, scene>>

(* EndLevel(died, suppressScore): the next level at once, or the panel.       *)
EndLevel(died, suppressScore) ==
  IF suppressScore
  THEN LoadLevel("STAIRS", currentLevel)
  ELSE /\ gameState' = IF died THEN "DEAD" ELSE "STAIRS"
       /\ scene' = "frozen"
       /\ ui' = "panel"
       /\ UNCHANGED currentLevel

(* ------------------------- scene update and physics ----------------------- *)

(* Stairs::Update, within 5 m of the person.  Runs only while enabled.        *)
StairsReached ==
  /\ phase = "scene"
  /\ scene = "level"
  /\ Ending[currentLevel] = "stairs"
  /\ EndLevel(FALSE, FALSE)
  /\ UNCHANGED <<phase, contacts, keys, movie, developerMode, debugDraw>>

(* AudioManager::HandleSceneUpdate takes the NULL sound that ends a boss      *)
(* level.  The manager sits on the scene, which EndLevel does not disable.    *)
EndingPlayed ==
  /\ phase = "scene"
  /\ scene \in {"level", "frozen"}
  /\ Ending[currentLevel] = "boss"
  /\ EndLevel(FALSE, FALSE)
  /\ UNCHANGED <<phase, contacts, keys, movie, developerMode, debugDraw>>

(* Wife::Update once her sequence is empty.                                   *)
WifeDefeated ==
  /\ phase = "scene"
  /\ scene = "level"
  /\ Ending[currentLevel] = "wife"
  /\ EndLevel(FALSE, TRUE)
  /\ UNCHANGED <<phase, contacts, keys, movie, developerMode, debugDraw>>

(* The scene update is over; the physics step computes the contacts between   *)
(* enabled bodies.  Those with a guard, Bertha or the last hit point count.   *)
PhysicsStep ==
  /\ phase = "scene"
  /\ phase' = "physics"
  /\ contacts' \in IF scene = "level" THEN 0..MaxContacts ELSE {0}
  /\ UNCHANGED <<flowVars, keys, movie, developerMode, debugDraw>>

(* Contacts are delivered one by one, also to bodies an earlier one of the    *)
(* same step has disabled.                                                    *)
LethalContact ==
  /\ phase = "physics"
  /\ contacts > 0
  /\ contacts' = contacts - 1
  /\ EndLevel(TRUE, FALSE)
  /\ UNCHANGED <<phase, keys, movie, developerMode, debugDraw>>

ContactsDelivered ==
  /\ phase = "physics"
  /\ contacts = 0
  /\ phase' = "space"
  /\ UNCHANGED <<flowVars, contacts, keys, movie, developerMode, debugDraw>>

(* ----------------------------- Game::HandleUpdate ------------------------- *)

(* [space] outside the menu and the level: skip the intro, retry, advance,    *)
(* play again, or leave the credits.  The key press is then used up.          *)
HandleSpace ==
  /\ phase = "space"
  /\ phase' = "menu"
  /\ \E input \in Inputs :
       IF input.space /\ gameState \notin {"MENU", "PLAYING"}
       THEN /\ keys' = [input EXCEPT !.space = FALSE]
            /\ \/ /\ gameState # "CREDITS"
                  /\ LoadLevel(gameState, currentLevel)
               \/ /\ gameState = "CREDITS"
                  /\ gameState' = "MENU"
                  /\ UNCHANGED <<currentLevel, scene, ui>>
       ELSE /\ keys' = input
            /\ UNCHANGED flowVars
  /\ UNCHANGED <<contacts, movie, developerMode, debugDraw>>

(* The level index a digit key of the menu selects (9: the credits), -1 if    *)
(* none is pressed.  [1] is looked at first, [0] last.                        *)
TargetLevel ==
  LET levels == keys.digits \ {0}
  IN  IF levels # {} THEN (CHOOSE d \in levels : \A e \in levels : d <= e) - 1
      ELSE IF 0 \in keys.digits THEN 9 ELSE -1

(* The menu shows the title scene and UI, building what is missing, and waits *)
(* for a choice.                                                              *)
MenuIdle ==
  /\ ~keys.space
  /\ TargetLevel = -1
  /\ scene' = "title"
  /\ ui' = "title"
  /\ UNCHANGED <<gameState, currentLevel>>

MenuMovie ==
  /\ keys.space \/ TargetLevel = 9
  /\ gameState' = IF keys.space THEN "INTRO" ELSE "CREDITS"
  /\ scene' = "empty"
  /\ ui' = "movie"
  /\ UNCHANGED currentLevel

MenuLevel ==
  /\ ~keys.space
  /\ TargetLevel \in 0..8
  /\ LoadLevel(gameState, TargetLevel)

HandleMenu ==
  /\ phase = "menu"
  /\ phase' = "movie"
  /\ IF gameState = "MENU" THEN MenuIdle \/ MenuMovie \/ MenuLevel
                           ELSE UNCHANGED flowVars
  /\ UNCHANGED <<contacts, keys, movie, developerMode, debugDraw>>

(* The movie that is running, and the number of its last frame.               *)
Length(m) == IF m = "intro" THEN IntroFrames ELSE CreditsFrames

(* A bug: the end of a movie is noticed too late.                             *)
EndsTooLate(m, step) ==
  LET total == movie[m].timer + step
  IN  total >= FrameTicks /\ movie[m].frame + total \div FrameTicks > Length(m) + 1

(* A bug: what is left of the timer behind the last whole frame is dropped.   *)
AdvancedDropsRest(m, step) ==
  LET total == movie[m].timer + step
      frame == movie[m].frame + total \div FrameTicks
  IN  IF total < FrameTicks THEN [movie[m] EXCEPT !.timer = total]
      ELSE IF frame <= Length(m) THEN [frame |-> frame, timer |-> 0]
      ELSE [frame |-> 0, timer |-> 0]

(* A movie's statics after `step` more ticks: whole frames are counted off    *)
(* the timer; past the last frame both start over.                            *)
Advanced(m, step) ==
  LET total == movie[m].timer + step
      frame == movie[m].frame + total \div FrameTicks
  IN  IF total < FrameTicks THEN [movie[m] EXCEPT !.timer = total]
      ELSE IF frame <= Length(m) THEN [frame |-> frame, timer |-> total % FrameTicks]
      ELSE [frame |-> 0, timer |-> 0]

(* The movie has no texture for the frame `step` more ticks lead to.          *)
Ends(m, step) ==
  LET total == movie[m].timer + step
  IN  total >= FrameTicks /\ movie[m].frame + total \div FrameTicks > Length(m)

(* The movie stage of HandleUpdate: the intro ends in the first level, the    *)
(* credits end in the statistics.  In the other states nothing modelled here  *)
(* changes (sprite animations and the level clock).                           *)
HandleMovie ==
  /\ phase = "movie"
  /\ phase' = "developer"
  /\ \E step \in TimeSteps :
       \/ /\ gameState = "INTRO"
          /\ movie' = [movie EXCEPT !["intro"] = Advanced("intro", step)]
          /\ IF Ends("intro", step) THEN LoadLevel("INTRO", currentLevel)
                                    ELSE UNCHANGED flowVars
       \/ /\ gameState = "CREDITS"
          /\ movie' = [movie EXCEPT !["credits"] = Advanced("credits", step)]
          /\ IF Ends("credits", step)
             THEN /\ gameState' = "FINISHED"
                  /\ ui' = "stats"
                  /\ UNCHANGED <<currentLevel, scene>>
             ELSE UNCHANGED flowVars
       \/ /\ gameState \notin {"INTRO", "CREDITS"}
          /\ UNCHANGED <<movie, flowVars>>
  /\ UNCHANGED <<contacts, keys, developerMode, debugDraw>>

(* The debug displays the digit keys 2 and 3 switch on or off.                *)
Toggled ==
  {d \in {"physics", "navigation"} :
     (d \in debugDraw) # ((IF d = "physics" THEN 2 ELSE 3) \in keys.digits)}

(* A bug: the displays are toggled without developer mode.                    *)
HandleDeveloperAlways ==
  /\ phase = "developer"
  /\ phase' = "render"
  /\ debugDraw' = Toggled
  /\ keys' = NoKeys
  /\ UNCHANGED <<flowVars, contacts, movie, developerMode>>

(* The developer's keys: toggle the displays, R reloads the level, N ends it. *)
(* Both are for GS_PLAYING, where R leads back to, so that N has the last     *)
(* word.  Without developer mode, the grave key enables it.                   *)
HandleDeveloper ==
  /\ phase = "developer"
  /\ phase' = "render"
  /\ IF developerMode
     THEN /\ debugDraw' = Toggled
          /\ IF gameState = "PLAYING" /\ "N" \in keys.letters THEN EndLevel(FALSE, FALSE)
             ELSE IF gameState = "PLAYING" /\ "R" \in keys.letters
                  THEN LoadLevel(gameState, currentLevel)
                  ELSE UNCHANGED flowVars
          /\ UNCHANGED developerMode
     ELSE /\ IF "grave" \in keys.letters THEN developerMode' = TRUE ELSE UNCHANGED developerMode
          /\ UNCHANGED <<debugDraw, flowVars>>
  /\ keys' = NoKeys
  /\ UNCHANGED <<contacts, movie>>

(* ----------------------- Game::HandlePostRenderUpdate --------------------- *)

(* The displays are drawn by scene components that the empty scene lacks: the *)
(* pointer the code dereferences is then NULL.                                *)
HandlePostRenderUpdate ==
  /\ phase = "render"
  /\ phase' = IF debugDraw # {} /\ scene = "empty" THEN "crashed" ELSE "scene"
  /\ UNCHANGED <<flowVars, contacts, keys, movie, developerMode, debugDraw>>

(* ------------------------------ specification ----------------------------- *)

Frame ==
  \/ PhysicsStep
  \/ LethalContact
  \/ ContactsDelivered
  \/ HandleSpace
  \/ HandleMenu
  \/ HandleMovie
  \/ HandleDeveloper
  \/ HandlePostRenderUpdate

Next ==
  \/ StairsReached
  \/ EndingPlayed
  \/ WifeDefeated
  \/ Frame

Spec == Init /\ [][Next]_vars

(* The engine keeps running frames; the player and the level's components     *)
(* need not do anything.                                                      *)
FairSpec == Spec /\ WF_vars(Frame)

(* -------------------------------- properties ------------------------------ *)

(* Every variable keeps its type; a movie's frame number always names an      *)
(* existing texture or 0 (the code checks the texture before it keeps it).    *)
TypeOK ==
  /\ phase \in Phases
  /\ gameState \in GameStates
  /\ currentLevel \in 0..(NumLevels - 1)
  /\ scene \in Scenes
  /\ ui \in UIs
  /\ contacts \in 0..MaxContacts
  /\ keys \in Input
  /\ movie \in [Movies -> [frame : Nat, timer : 0..(FrameTicks - 1)]]
  /\ \A m \in Movies : movie[m].frame <= Length(m)
  /\ developerMode \in BOOLEAN
  /\ debugDraw \subseteq {"physics", "navigation"}

(* Outside a level Game::currentLevel_ is 0: whatever was played before, the  *)
(* intro and [space] on the statistics lead into the first level, although    *)
(* neither of them sets currentLevel_.                                        *)
FirstLevelNext == ~InLevel(gameState) => currentLevel = 0

(* gameState_ and the scene agree in every stage of the frame: the level runs *)
(* exactly in GS_PLAYING and is frozen exactly in GS_DEAD and GS_STAIRS, so   *)
(* EndLevel (components, N key) always finds the Person it dereferences.      *)
SceneMatchesState ==
  /\ gameState = "PLAYING" <=> scene = "level"
  /\ gameState \in {"DEAD", "STAIRS"} <=> scene = "frozen"
  /\ contacts > 0 => phase = "physics" /\ gameState \in {"PLAYING", "DEAD"}

(* While the intro or the credits run, the UI root holds the sprite "Movie"   *)
(* that HandleUpdate dereferences for every frame; the title and the          *)
(* statistics are on the screen exactly when they should be.                  *)
UIMatchesState ==
  /\ gameState \in {"INTRO", "CREDITS"} => ui = "movie"
  /\ gameState = "PLAYING" => ui = "level"
  /\ gameState \in {"DEAD", "STAIRS"} => ui = "panel"
  /\ gameState = "FINISHED" => ui = "stats"
  /\ phase \in {"movie", "developer", "render"} =>
       (gameState = "MENU" => ui = "title" /\ scene = "title")

(* Both together: whatever has led into a state of the game, what its scene   *)
(* and its UI hold is what the handlers of that state dereference.            *)
ScreenMatchesState == SceneMatchesState /\ UIMatchesState

(* A player who never enables developer mode is safe from the NULL scene      *)
(* components of HandlePostRenderUpdate, whatever digit keys the menu gets.   *)
NeverCrashes == phase = "crashed" => developerMode

(* What the README promises a developer (src/README.md:29): the displays that *)
(* the keys 2 and 3 switch on can be drawn, on every screen of the game.      *)
DebugRenderingWorks == phase = "render" /\ debugDraw # {} => scene # "empty"

(* The game keeps the promises of Campaign, except that a boss's ending may   *)
(* turn a lost level into a won one (see BossLevel).                          *)
Screen ==
  CASE gameState = "MENU" -> "menu"
    [] gameState = "INTRO" -> "intro"
    [] gameState = "PLAYING" -> "playing"
    [] gameState = "DEAD" -> "lost"
    [] gameState = "STAIRS" -> "won"
    [] gameState = "CREDITS" -> "credits"
    [] gameState = "FINISHED" -> "results"

BossLevels == {l \in DOMAIN Ending : Ending[l] = "boss"}

Promise == INSTANCE Campaign WITH screen <- Screen, level <- currentLevel, Late <- BossLevels
ImplementsCampaign == Promise!Spec

(* A movie plays in real time: as long as it is on the screen every frame     *)
(* adds its length to what has been played, none of it is lost or counted     *)
(* twice where it is divided into pictures, and the movie's end sets it back. *)
(* On no other screen, [space] included, does the movie move.                 *)
Shows(m) == gameState = IF m = "intro" THEN "INTRO" ELSE "CREDITS"
Played(m) == movie[m].frame * FrameTicks + movie[m].timer
MoviesKeepTime ==
  [][\A m \in Movies :
       IF phase = "movie" /\ Shows(m)
       THEN \/ Shows(m)' /\ \E step \in TimeSteps : Played(m)' = Played(m) + step
            \/ ~Shows(m)' /\ Played(m)' = 0
       ELSE Played(m)' = Played(m)]_vars

(* The intro reaches the first level and the credits reach the statistics or  *)
(* the menu, whatever the player does, unless a developer's display crashes   *)
(* the program: every frame moves the movie on.                               *)
MoviesEnd ==
  /\ gameState = "INTRO" ~> gameState = "PLAYING" \/ phase = "crashed"
  /\ gameState = "CREDITS" ~> gameState \in {"FINISHED", "MENU"} \/ phase = "crashed"
=============================================================================
