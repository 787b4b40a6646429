--------------------------- MODULE GameFlow_proofs ---------------------------
(* Proofs about GameFlow for any number of levels, any endings, any movies,   *)
(* time steps and inputs.                                                     *)
EXTENDS GameFlow, TLAPS

(* The invariant of all proofs: the types and the three agreements between    *)
(* gameState_, currentLevel_, the scene and the UI.  None of the agreements   *)
(* is inductive without the others: EndLevel is only called in a level        *)
(* because the scene matches, and LoadLevel only finds a level or rolls the   *)
(* credits with level 0 because the index is in range.                        *)
Inv == TypeOK /\ FirstLevelNext /\ SceneMatchesState /\ UIMatchesState

(* Counting ticks off in whole movie frames leaves a remainder below one      *)
(* frame, and never fewer frames than none.                                   *)
LEMMA WholeFrames ==
  ASSUME NEW total \in Nat, NEW ticks \in Nat \ {0}
  PROVE  total \div ticks \in Nat /\ total % ticks \in 0..(ticks - 1)
  OBVIOUS

(* A movie's statics stay a frame that exists and a timer below one frame.    *)
LEMMA AdvancedType ==
  ASSUME TypeOK, ConstantsAssumption, NEW m \in Movies, NEW step \in TimeSteps
  PROVE  /\ Advanced(m, step) \in [frame : Nat, timer : 0..(FrameTicks - 1)]
         /\ Advanced(m, step).frame <= Length(m)
<1> DEFINE total == movie[m].timer + step
<1>1. /\ movie[m] \in [frame : Nat, timer : 0..(FrameTicks - 1)]
      /\ movie[m].frame <= Length(m)
  BY DEF TypeOK
<1>2. total \in Nat /\ FrameTicks \in Nat \ {0} /\ Length(m) \in Nat
  BY <1>1 DEF ConstantsAssumption, Length
<1>3. total \div FrameTicks \in Nat /\ total % FrameTicks \in 0..(FrameTicks - 1)
  BY <1>2, WholeFrames
<1>4. CASE total < FrameTicks
  <2>1. Advanced(m, step) = [movie[m] EXCEPT !.timer = total]
    BY <1>4 DEF Advanced
  <2> QED BY <2>1, <1>1, <1>2, <1>4, SMTT(60)
<1>5. CASE ~(total < FrameTicks) /\ movie[m].frame + total \div FrameTicks <= Length(m)
  <2>1. Advanced(m, step) = [frame |-> movie[m].frame + total \div FrameTicks,
                             timer |-> total % FrameTicks]
    BY <1>5 DEF Advanced
  <2> QED BY <2>1, <1>1, <1>3, <1>5, SMTT(60)
<1>6. CASE ~(total < FrameTicks) /\ ~(movie[m].frame + total \div FrameTicks <= Length(m))
  <2>1. Advanced(m, step) = [frame |-> 0, timer |-> 0]
    BY <1>6 DEF Advanced
  <2> QED BY <2>1, <1>2
<1> QED BY <1>4, <1>5, <1>6

(* Screens(g, l, s, u): gameState_, currentLevel_, scene and UI belong to one *)
(* of the screens on which LoadLevel and EndLevel leave the game.             *)
LoadedScreen(g, l, s, u) ==
  /\ l \in 0..(NumLevels - 1)
  /\ \/ g = "PLAYING" /\ s = "level" /\ u = "level"
     \/ g = "CREDITS" /\ s = "empty" /\ u = "movie" /\ l = 0

EndedScreen(g, l, s, u) ==
  \/ LoadedScreen(g, l, s, u)
  \/ l \in 0..(NumLevels - 1) /\ g \in {"DEAD", "STAIRS"} /\ s = "frozen" /\ u = "panel"

(* Whatever state and level LoadLevel starts from, it ends in a level that    *)
(* exists or in the credits.                                                  *)
LEMMA LoadLevelResult ==
  ASSUME ConstantsAssumption, NEW state, NEW level \in Nat, LoadLevel(state, level)
  PROVE  LoadedScreen(gameState', currentLevel', scene', ui')
<1> DEFINE next == IF state = "STAIRS" THEN level + 1 ELSE level
<1>1. next \in Nat
  OBVIOUS
<1>2. CASE next < NumLevels
  BY <1>1, <1>2 DEF LoadLevel, NextLevel, StartLevel, RollCredits, LoadedScreen, ConstantsAssumption
<1>3. CASE next >= NumLevels
  BY <1>1, <1>3 DEF LoadLevel, NextLevel, StartLevel, RollCredits, LoadedScreen, ConstantsAssumption
<1> QED BY <1>1, <1>2, <1>3 DEF ConstantsAssumption

(* EndLevel ends in a frozen level or, when it suppresses the score, where    *)
(* LoadLevel ends.                                                            *)
LEMMA EndLevelResult ==
  ASSUME ConstantsAssumption, TypeOK, NEW died, NEW suppress, EndLevel(died, suppress)
  PROVE  EndedScreen(gameState', currentLevel', scene', ui')
<1>1. currentLevel \in Nat
  BY DEF TypeOK, ConstantsAssumption
<1>2. CASE suppress
  <2>1. LoadLevel("STAIRS", currentLevel)
    BY <1>2 DEF EndLevel
  <2> QED BY <2>1, <1>1, LoadLevelResult DEF EndedScreen
<1>3. CASE ~suppress
  BY <1>3 DEF EndLevel, EndedScreen, TypeOK
<1> QED BY <1>2, <1>3

(* Game::Game leaves the program in a state the invariant describes.          *)
LEMMA InitInv == ASSUME ConstantsAssumption, Init PROVE Inv
<1>1. movie \in [Movies -> [frame : Nat, timer : 0..(FrameTicks - 1)]]
  BY DEF Init, ConstantsAssumption
<1>2. \A m \in Movies : movie[m].frame <= Length(m)
  BY DEF Init, ConstantsAssumption, Length
<1>3. keys \in Input
  BY DEF Init, NoKeys, Input
<1>4. /\ phase \in Phases /\ gameState \in GameStates /\ scene \in Scenes /\ ui \in UIs
      /\ developerMode \in BOOLEAN /\ debugDraw \subseteq {"physics", "navigation"}
  BY DEF Init, Phases, GameStates, Scenes, UIs
<1>5. currentLevel \in 0..(NumLevels - 1) /\ contacts \in 0..MaxContacts
  <2>1. currentLevel = 0 /\ contacts = 0
    BY DEF Init
  <2> QED BY <2>1 DEF ConstantsAssumption
<1>6. TypeOK
  BY <1>1, <1>2, <1>3, <1>4, <1>5 DEF TypeOK
<1> QED BY <1>6 DEF Inv, Init, FirstLevelNext, SceneMatchesState, UIMatchesState, InLevel

(* A step that leaves all of the frame's other state alone and ends the level *)
(* outside the physics step preserves the invariant.                          *)
LEMMA ComponentEndsLevel ==
  ASSUME ConstantsAssumption, Inv, phase = "scene",
         NEW died, NEW suppress, EndLevel(died, suppress),
         UNCHANGED <<phase, contacts, keys, movie, developerMode, debugDraw>>
  PROVE  Inv'
<1>1. EndedScreen(gameState', currentLevel', scene', ui')
  BY EndLevelResult DEF Inv
<1>2. contacts = 0 /\ contacts' = 0
  BY DEF Inv, SceneMatchesState, TypeOK, ConstantsAssumption
<1>3. /\ FirstLevelNext' /\ SceneMatchesState' /\ UIMatchesState'
      /\ gameState' \in GameStates /\ currentLevel' \in 0..(NumLevels - 1)
      /\ scene' \in Scenes /\ ui' \in UIs
  BY <1>1, <1>2 DEF EndedScreen, LoadedScreen, FirstLevelNext, SceneMatchesState,
     UIMatchesState, InLevel, GameStates, Scenes, UIs
<1>4. TypeOK'
  BY <1>3 DEF Inv, TypeOK, Length
<1> QED BY <1>3, <1>4 DEF Inv

(* StairsReached, EndingPlayed and WifeDefeated are such steps.               *)
LEMMA ComponentsInv ==
  ASSUME ConstantsAssumption, Inv, StairsReached \/ EndingPlayed \/ WifeDefeated
  PROVE  Inv'
<1>1. CASE StairsReached
  BY <1>1, ComponentEndsLevel DEF StairsReached
<1>2. CASE EndingPlayed
  BY <1>2, ComponentEndsLevel DEF EndingPlayed
<1>3. CASE WifeDefeated
  BY <1>3, ComponentEndsLevel DEF WifeDefeated
<1> QED BY <1>1, <1>2, <1>3

(* The physics step: contacts exist only where the level ran when it began,   *)
(* and each of them finds the level running or lost.                          *)
LEMMA PhysicsInv ==
  ASSUME ConstantsAssumption, Inv, PhysicsStep \/ LethalContact \/ ContactsDelivered
  PROVE  Inv'
<1> USE DEF ConstantsAssumption
<1>1. CASE PhysicsStep
  <2>1. TypeOK'
    BY <1>1 DEF Inv, TypeOK, PhysicsStep, flowVars, Phases, Length
  <2> QED BY <1>1, <2>1 DEF Inv, PhysicsStep, flowVars, FirstLevelNext, SceneMatchesState,
          UIMatchesState, InLevel, TypeOK
<1>2. CASE LethalContact
  <2>1. /\ gameState' = "DEAD" /\ scene' = "frozen" /\ ui' = "panel"
        /\ currentLevel' = currentLevel /\ phase' = "physics"
    BY <1>2 DEF LethalContact, EndLevel
  <2>2. contacts' \in 0..MaxContacts
    BY <1>2 DEF Inv, TypeOK, LethalContact
  <2>3. TypeOK'
    BY <1>2, <2>1, <2>2 DEF Inv, TypeOK, LethalContact, Phases, GameStates, Scenes, UIs, Length
  <2> QED BY <2>1, <2>3 DEF Inv, FirstLevelNext, SceneMatchesState, UIMatchesState, InLevel
<1>3. CASE ContactsDelivered
  <2>1. TypeOK'
    BY <1>3 DEF Inv, TypeOK, ContactsDelivered, flowVars, Phases, Length
  <2> QED BY <1>3, <2>1 DEF Inv, ContactsDelivered, flowVars, FirstLevelNext,
          SceneMatchesState, UIMatchesState, InLevel
<1> QED BY <1>1, <1>2, <1>3

(* Stages of HandleUpdate.  [space] leads from wherever it is handled to a    *)
(* level, to the credits or to the menu.                                      *)
LEMMA SpaceInv ==
  ASSUME ConstantsAssumption, Inv, HandleSpace
  PROVE  Inv'
<1>1. phase = "space" /\ phase' = "menu" /\ contacts = 0 /\ contacts' = 0
  BY DEF HandleSpace, Inv, SceneMatchesState, TypeOK, ConstantsAssumption
<1>2. PICK input \in Inputs :
        \/ /\ keys' = [input EXCEPT !.space = FALSE]
           /\ \/ LoadLevel(gameState, currentLevel)
              \/ gameState = "CREDITS" /\ gameState' = "MENU" /\ UNCHANGED <<currentLevel, scene, ui>>
        \/ keys' = input /\ UNCHANGED flowVars
  BY DEF HandleSpace
<1>3. keys' \in Input
  BY <1>2 DEF ConstantsAssumption, Input
<1>4. CASE LoadLevel(gameState, currentLevel)
  <2>1. LoadedScreen(gameState', currentLevel', scene', ui')
    BY <1>4, LoadLevelResult DEF Inv, TypeOK, ConstantsAssumption
  <2>2. TypeOK'
    BY <1>1, <1>3, <2>1 DEF HandleSpace, Inv, TypeOK, LoadedScreen, Phases, GameStates,
       Scenes, UIs, Length
  <2> QED BY <1>1, <2>1, <2>2 DEF Inv, LoadedScreen, FirstLevelNext, SceneMatchesState,
          UIMatchesState, InLevel
<1>5. CASE gameState = "CREDITS" /\ gameState' = "MENU" /\ UNCHANGED <<currentLevel, scene, ui>>
  <2>1. TypeOK'
    BY <1>1, <1>3, <1>5 DEF HandleSpace, Inv, TypeOK, Phases, GameStates, Length
  <2> QED BY <1>1, <1>5, <2>1 DEF Inv, FirstLevelNext, SceneMatchesState, UIMatchesState, InLevel
<1>6. CASE UNCHANGED flowVars
  <2>1. TypeOK'
    BY <1>1, <1>3, <1>6 DEF HandleSpace, Inv, TypeOK, Phases, flowVars, Length
  <2> QED BY <1>1, <1>6, <2>1 DEF Inv, flowVars, FirstLevelNext, SceneMatchesState,
          UIMatchesState, InLevel
<1> QED BY <1>2, <1>4, <1>5, <1>6

(* The menu leads to a level, to a movie, or stays and draws the title.       *)
LEMMA MenuInv ==
  ASSUME ConstantsAssumption, Inv, HandleMenu
  PROVE  Inv'
<1>1. phase = "menu" /\ phase' = "movie" /\ contacts = 0 /\ contacts' = 0
  BY DEF HandleMenu, Inv, SceneMatchesState, TypeOK, ConstantsAssumption
<1>2. \/ gameState = "MENU" /\ (MenuIdle \/ MenuMovie)
      \/ gameState = "MENU" /\ MenuLevel
      \/ gameState # "MENU" /\ UNCHANGED flowVars
  BY DEF HandleMenu
<1>3. CASE gameState = "MENU" /\ (MenuIdle \/ MenuMovie)
  <2>1. /\ currentLevel' = currentLevel
        /\ \/ gameState' = "MENU" /\ scene' = "title" /\ ui' = "title"
           \/ gameState' \in {"INTRO", "CREDITS"} /\ scene' = "empty" /\ ui' = "movie"
    BY <1>3 DEF MenuIdle, MenuMovie
  <2>2. TypeOK'
    BY <1>1, <2>1 DEF HandleMenu, Inv, TypeOK, Phases, GameStates, Scenes, UIs, Length
  <2> QED BY <1>1, <1>3, <2>1, <2>2 DEF Inv, FirstLevelNext, SceneMatchesState,
          UIMatchesState, InLevel
<1>4. CASE gameState = "MENU" /\ MenuLevel
  <2>1. LoadedScreen(gameState', currentLevel', scene', ui')
    <3>1. TargetLevel \in Nat /\ LoadLevel(gameState, TargetLevel)
      BY <1>4 DEF MenuLevel
    <3> QED BY <3>1, LoadLevelResult
  <2>2. TypeOK'
    BY <1>1, <2>1 DEF HandleMenu, Inv, TypeOK, LoadedScreen, Phases, GameStates, Scenes,
       UIs, Length
  <2> QED BY <1>1, <2>1, <2>2 DEF Inv, LoadedScreen, FirstLevelNext, SceneMatchesState,
          UIMatchesState, InLevel
<1>5. CASE gameState # "MENU" /\ UNCHANGED flowVars
  <2>1. TypeOK'
    BY <1>1, <1>5 DEF HandleMenu, Inv, TypeOK, Phases, flowVars, Length
  <2> QED BY <1>1, <1>5, <2>1 DEF Inv, flowVars, FirstLevelNext, SceneMatchesState,
          UIMatchesState, InLevel
<1> QED BY <1>2, <1>3, <1>4, <1>5

(* Movies and the developer's keys.  A movie ends in a level or in the        *)
(* statistics, and never moves past its last frame.                           *)
LEMMA MovieInv ==
  ASSUME ConstantsAssumption, Inv, HandleMovie
  PROVE  Inv'
<1>1. phase = "movie" /\ phase' = "developer" /\ contacts = 0 /\ contacts' = 0
  BY DEF HandleMovie, Inv, SceneMatchesState, TypeOK, ConstantsAssumption
<1>2. PICK step \in TimeSteps :
        \/ \E m \in Movies : movie' = [movie EXCEPT ![m] = Advanced(m, step)]
        \/ movie' = movie
  BY DEF HandleMovie, Movies
<1>3. /\ movie' \in [Movies -> [frame : Nat, timer : 0..(FrameTicks - 1)]]
      /\ \A m \in Movies : movie'[m].frame <= Length(m)
  <2>1. movie \in [Movies -> [frame : Nat, timer : 0..(FrameTicks - 1)]]
    BY DEF Inv, TypeOK
  <2>2. \A m \in Movies : movie[m].frame <= Length(m)
    BY DEF Inv, TypeOK
  <2>3. ASSUME NEW m \in Movies, movie' = [movie EXCEPT ![m] = Advanced(m, step)]
        PROVE  <1>3!1 /\ <1>3!2
    <3>1. /\ Advanced(m, step) \in [frame : Nat, timer : 0..(FrameTicks - 1)]
          /\ Advanced(m, step).frame <= Length(m)
      BY AdvancedType DEF Inv
    <3> QED BY <3>1, <2>1, <2>2, <2>3
  <2> QED BY <1>2, <2>1, <2>2, <2>3
<1>4. \/ LoadLevel("INTRO", currentLevel)
      \/ /\ gameState = "CREDITS" /\ gameState' = "FINISHED" /\ ui' = "stats"
         /\ UNCHANGED <<currentLevel, scene>>
      \/ UNCHANGED flowVars
  BY DEF HandleMovie
<1>5. CASE LoadLevel("INTRO", currentLevel)
  <2>1. LoadedScreen(gameState', currentLevel', scene', ui')
    BY <1>5, LoadLevelResult DEF Inv, TypeOK, ConstantsAssumption
  <2>2. TypeOK'
    BY <1>1, <1>3, <2>1 DEF HandleMovie, Inv, TypeOK, LoadedScreen, Phases, GameStates,
       Scenes, UIs, Length
  <2> QED BY <1>1, <2>1, <2>2 DEF Inv, LoadedScreen, FirstLevelNext, SceneMatchesState,
          UIMatchesState, InLevel
<1>6. CASE /\ gameState = "CREDITS" /\ gameState' = "FINISHED" /\ ui' = "stats"
           /\ UNCHANGED <<currentLevel, scene>>
  <2>1. TypeOK'
    BY <1>1, <1>3, <1>6 DEF HandleMovie, Inv, TypeOK, Phases, GameStates, UIs, Length
  <2> QED BY <1>1, <1>6, <2>1 DEF Inv, FirstLevelNext, SceneMatchesState, UIMatchesState, InLevel
<1>7. CASE UNCHANGED flowVars
  <2>1. TypeOK'
    BY <1>1, <1>3, <1>7 DEF HandleMovie, Inv, TypeOK, Phases, flowVars, Length
  <2> QED BY <1>1, <1>7, <2>1 DEF Inv, flowVars, FirstLevelNext, SceneMatchesState,
          UIMatchesState, InLevel
<1> QED BY <1>4, <1>5, <1>6, <1>7

(* The developer's keys end or reload a level that runs, or change nothing.   *)
LEMMA DeveloperInv ==
  ASSUME ConstantsAssumption, Inv, HandleDeveloper
  PROVE  Inv'
<1>1. /\ phase = "developer" /\ phase' = "render" /\ contacts = 0 /\ contacts' = 0
      /\ keys' = NoKeys /\ movie' = movie
  BY DEF HandleDeveloper, Inv, SceneMatchesState, TypeOK, ConstantsAssumption
<1>2. keys' \in Input
  BY <1>1 DEF NoKeys, Input
<1>3. debugDraw' \subseteq {"physics", "navigation"}
  <2>1. debugDraw' = Toggled \/ debugDraw' = debugDraw
    BY DEF HandleDeveloper
  <2>2. Toggled \subseteq {"physics", "navigation"}
    BY DEF Toggled
  <2> QED BY <2>1, <2>2 DEF Inv, TypeOK
<1>4. developerMode' \in BOOLEAN
  <2>1. developerMode' = developerMode \/ developerMode' = TRUE
    BY DEF HandleDeveloper
  <2> QED BY <2>1 DEF Inv, TypeOK
<1>5. \/ EndLevel(FALSE, FALSE) \/ LoadLevel(gameState, currentLevel)
      \/ UNCHANGED flowVars
  BY DEF HandleDeveloper
<1>6. CASE EndLevel(FALSE, FALSE) \/ LoadLevel(gameState, currentLevel)
  <2>1. EndedScreen(gameState', currentLevel', scene', ui')
    <3>1. CASE EndLevel(FALSE, FALSE)
      BY <3>1, EndLevelResult DEF Inv
    <3>2. CASE LoadLevel(gameState, currentLevel)
      <4>1. currentLevel \in Nat
        BY DEF Inv, TypeOK, ConstantsAssumption
      <4> QED BY <3>2, <4>1, LoadLevelResult DEF EndedScreen
    <3> QED BY <1>6, <3>1, <3>2
  <2>2. TypeOK'
    BY <1>1, <1>2, <1>3, <1>4, <2>1 DEF Inv, TypeOK, EndedScreen, LoadedScreen, Phases, GameStates,
       Scenes, UIs, Length
  <2> QED BY <1>1, <2>1, <2>2 DEF Inv, EndedScreen, LoadedScreen, FirstLevelNext,
          SceneMatchesState, UIMatchesState, InLevel
<1>7. CASE UNCHANGED flowVars
  <2>1. TypeOK'
    BY <1>1, <1>2, <1>3, <1>4, <1>7 DEF Inv, TypeOK, Phases, flowVars, Length
  <2> QED BY <1>1, <1>7, <2>1 DEF Inv, flowVars, FirstLevelNext, SceneMatchesState,
          UIMatchesState, InLevel
<1> QED BY <1>5, <1>6, <1>7

(* The render stage leaves the game alone, even when it crashes.              *)
LEMMA RenderInv ==
  ASSUME ConstantsAssumption, Inv, HandlePostRenderUpdate
  PROVE  Inv'
<1>1. TypeOK'
  BY DEF Inv, TypeOK, HandlePostRenderUpdate, flowVars, Phases, Length
<1> QED BY <1>1 DEF Inv, HandlePostRenderUpdate, flowVars, FirstLevelNext,
        SceneMatchesState, UIMatchesState, InLevel

(* A stuttering step.                                                         *)
LEMMA StutterInv == ASSUME Inv, UNCHANGED vars PROVE Inv'
  BY DEF Inv, vars, TypeOK, Length, FirstLevelNext, SceneMatchesState, UIMatchesState, InLevel

(* One step for every action of the specification.                            *)
LEMMA StepInv == ASSUME ConstantsAssumption, Inv, [Next]_vars PROVE Inv'
<1>1. CASE StairsReached \/ EndingPlayed \/ WifeDefeated
  BY <1>1, ComponentsInv
<1>2. CASE PhysicsStep \/ LethalContact \/ ContactsDelivered
  BY <1>2, PhysicsInv
<1>3. CASE HandleSpace
  BY <1>3, SpaceInv
<1>4. CASE HandleMenu
  BY <1>4, MenuInv
<1>5. CASE HandleMovie
  BY <1>5, MovieInv
<1>6. CASE HandleDeveloper
  BY <1>6, DeveloperInv
<1>7. CASE HandlePostRenderUpdate
  BY <1>7, RenderInv
<1>8. CASE UNCHANGED vars
  BY <1>8, StutterInv
<1> QED BY <1>1, <1>2, <1>3, <1>4, <1>5, <1>6, <1>7, <1>8 DEF Next, Frame

(* Every variable keeps its type in every reachable state.                    *)
THEOREM TypeCorrect == Spec => []TypeOK
<1>1. Init => Inv
  BY ConstantsAssumption, InitInv
<1>2. Inv /\ [Next]_vars => Inv'
  BY ConstantsAssumption, StepInv
<1>3. Inv => TypeOK
  BY DEF Inv
<1> QED BY <1>1, <1>2, <1>3, PTL DEF Spec

(* gameState_, currentLevel_, the scene and the UI agree in every stage of    *)
(* every frame, for any levels, endings, movies and inputs: EndLevel finds    *)
(* its Person, and HandleUpdate the sprite of the movie it moves on.          *)
THEOREM StateAgreement == Spec => [](FirstLevelNext /\ ScreenMatchesState)
<1>1. Init => Inv
  BY ConstantsAssumption, InitInv
<1>2. Inv /\ [Next]_vars => Inv'
  BY ConstantsAssumption, StepInv
<1>3. Inv => FirstLevelNext /\ ScreenMatchesState
  BY DEF Inv, ScreenMatchesState
<1> QED BY <1>1, <1>2, <1>3, PTL DEF Spec

(* The displays are only switched on in developer mode, which nothing leaves. *)
DisplaysInv == NeverCrashes /\ (debugDraw # {} => developerMode)

(* Without developer mode no display is on, in any input and on any screen,   *)
(* and so none of them meets the empty scene.                                 *)
THEOREM PlayersAreSafe == Spec => []NeverCrashes
<1>1. Init => DisplaysInv
  BY DEF Init, DisplaysInv, NeverCrashes
<1>2. DisplaysInv /\ [Next]_vars => DisplaysInv'
  <2> SUFFICES ASSUME DisplaysInv, [Next]_vars PROVE DisplaysInv'
    OBVIOUS
  <2>1. CASE StairsReached \/ EndingPlayed \/ WifeDefeated
    BY <2>1 DEF StairsReached, EndingPlayed, WifeDefeated, DisplaysInv, NeverCrashes
  <2>2. CASE PhysicsStep \/ LethalContact \/ ContactsDelivered
    BY <2>2 DEF PhysicsStep, LethalContact, ContactsDelivered, DisplaysInv, NeverCrashes
  <2>3. CASE HandleSpace
    BY <2>3 DEF HandleSpace, DisplaysInv, NeverCrashes
  <2>4. CASE HandleMenu
    BY <2>4 DEF HandleMenu, DisplaysInv, NeverCrashes
  <2>5. CASE HandleMovie
    BY <2>5 DEF HandleMovie, DisplaysInv, NeverCrashes
  <2>6. CASE HandleDeveloper
    <3>1. CASE developerMode
      BY <2>6, <3>1 DEF HandleDeveloper, DisplaysInv, NeverCrashes
    <3>2. CASE ~developerMode
      BY <2>6, <3>2 DEF HandleDeveloper, DisplaysInv, NeverCrashes
    <3> QED BY <3>1, <3>2
  <2>7. CASE HandlePostRenderUpdate
    BY <2>7 DEF HandlePostRenderUpdate, DisplaysInv, NeverCrashes
  <2>8. CASE UNCHANGED vars
    BY <2>8 DEF vars, DisplaysInv, NeverCrashes
  <2> QED BY <2>1, <2>2, <2>3, <2>4, <2>5, <2>6, <2>7, <2>8 DEF Next, Frame
<1>3. DisplaysInv => NeverCrashes
  BY DEF DisplaysInv
<1> QED BY <1>1, <1>2, <1>3, PTL DEF Spec

(* ------------------- the game implements the campaign --------------------- *)

PromiseStep == [Promise!Next]_<<Screen, currentLevel>>

(* What a player sees is one-to-one with gameState_.                          *)
LEMMA StutterPromise ==
  ASSUME gameState' = gameState, currentLevel' = currentLevel
  PROVE  PromiseStep
  BY DEF PromiseStep, Screen

(* A component or key that ends a running level wins or loses it; the wife    *)
(* advances at once.  In a lost level only a boss's ending is still played.   *)
LEMMA EndLevelPromise ==
  ASSUME ConstantsAssumption, Inv, NEW died \in BOOLEAN, NEW suppress \in BOOLEAN,
         EndLevel(died, suppress),
         \/ gameState = "PLAYING"
         \/ died /\ ~suppress /\ gameState = "DEAD"
         \/ ~died /\ ~suppress /\ gameState \in {"DEAD", "STAIRS"} /\ Ending[currentLevel] = "boss"
  PROVE  PromiseStep
<1>1. CASE suppress
  <2>1. LoadLevel("STAIRS", currentLevel) /\ gameState = "PLAYING"
    BY <1>1 DEF EndLevel
  <2>2. Promise!Advance
    <3>1. currentLevel \in Int /\ NumLevels \in Int
      BY DEF Inv, TypeOK, ConstantsAssumption
    <3> QED BY <2>1, <3>1 DEF LoadLevel, NextLevel, StartLevel, RollCredits, Promise!Advance, Screen
  <2> QED BY <2>2 DEF PromiseStep, Promise!Next
<1>2. CASE ~suppress
  <2>1. gameState' = (IF died THEN "DEAD" ELSE "STAIRS") /\ currentLevel' = currentLevel
    BY <1>2 DEF EndLevel
  <2>2. CASE gameState = "PLAYING"
    BY <2>1, <2>2 DEF PromiseStep, Promise!Next, Promise!Win, Promise!Lose, Promise!Goto, Screen
  <2>3. CASE gameState' = gameState
    BY <2>1, <2>3, StutterPromise
  <2>4. CASE gameState = "DEAD" /\ ~died /\ Ending[currentLevel] = "boss"
    <3>1. currentLevel \in BossLevels
      BY <2>4 DEF BossLevels, Inv, TypeOK, ConstantsAssumption
    <3>2. Promise!WinLate
      BY <2>1, <2>4, <3>1 DEF Promise!WinLate, Promise!Goto, Screen
    <3> QED BY <3>2 DEF PromiseStep, Promise!Next
  <2> QED BY <1>2, <2>1, <2>2, <2>3, <2>4
<1> QED BY <1>1, <1>2

(* LoadLevel outside the menu starts, retries or advances as promised.        *)
LEMMA LoadLevelPromise ==
  ASSUME ConstantsAssumption, Inv, gameState \notin {"MENU", "CREDITS"},
         LoadLevel(gameState, currentLevel)
  PROVE  PromiseStep
<1>1. /\ currentLevel \in 0..(NumLevels - 1) /\ NumLevels \in Nat \ {0}
      /\ ~InLevel(gameState) => currentLevel = 0
      /\ gameState \in {"INTRO", "PLAYING", "DEAD", "STAIRS", "FINISHED"}
  BY DEF Inv, TypeOK, ConstantsAssumption, FirstLevelNext, GameStates
<1>2. CASE gameState = "STAIRS"
  <2>1. Promise!Advance
    BY <1>1, <1>2 DEF LoadLevel, NextLevel, StartLevel, RollCredits, Promise!Advance, Screen
  <2> QED BY <2>1 DEF PromiseStep, Promise!Next
<1>3. CASE gameState # "STAIRS"
  <2>1. gameState' = "PLAYING" /\ currentLevel' = currentLevel
    BY <1>1, <1>3 DEF LoadLevel, NextLevel, StartLevel, RollCredits
  <2>2. CASE gameState = "PLAYING"
    BY <2>1, <2>2, StutterPromise
  <2>3. CASE gameState = "DEAD"
    BY <2>1, <2>3 DEF PromiseStep, Promise!Next, Promise!Retry, Promise!Goto, Screen
  <2>4. CASE gameState \in {"INTRO", "FINISHED"}
    <3>1. currentLevel = 0
      BY <1>1, <2>4 DEF InLevel
    <3> QED BY <2>1, <2>4, <3>1 DEF PromiseStep, Promise!Next, Promise!StartGame, Screen
  <2> QED BY <1>1, <1>3, <2>2, <2>3, <2>4
<1> QED BY <1>2, <1>3

(* The menu picks the intro, the credits or a level; a level without an image *)
(* is the credits.                                                            *)
LEMMA MenuPromise ==
  ASSUME ConstantsAssumption, Inv, HandleMenu
  PROVE  PromiseStep
<1>1. CASE gameState = "MENU" /\ MenuIdle
  BY <1>1, StutterPromise DEF MenuIdle
<1>2. CASE gameState = "MENU" /\ MenuMovie
  BY <1>2 DEF MenuMovie, PromiseStep, Promise!Next, Promise!StartIntro, Promise!PickCredits,
     Promise!Goto, Screen
<1>3. CASE gameState = "MENU" /\ MenuLevel
  <2>1. TargetLevel \in Nat /\ LoadLevel("MENU", TargetLevel) /\ currentLevel = 0
    BY <1>3 DEF MenuLevel, Inv, FirstLevelNext, InLevel
  <2>2. \/ gameState' = "PLAYING" /\ currentLevel' \in 0..(NumLevels - 1)
        \/ gameState' = "CREDITS" /\ currentLevel' = currentLevel
    BY <2>1, LoadLevelResult DEF LoadedScreen
  <2> QED BY <1>3, <2>2 DEF PromiseStep, Promise!Next, Promise!PickLevel,
          Promise!PickCredits, Promise!Goto, Screen
<1>4. CASE gameState # "MENU" /\ UNCHANGED flowVars
  BY <1>4, StutterPromise DEF flowVars
<1> QED BY <1>1, <1>2, <1>3, <1>4 DEF HandleMenu

(* Every step of the game is a step of the campaign or changes nothing the    *)
(* campaign speaks of.                                                        *)
LEMMA StepPromise ==
  ASSUME ConstantsAssumption, Inv, [Next]_vars
  PROVE  PromiseStep
<1>1. CASE StairsReached \/ WifeDefeated
  <2>1. gameState = "PLAYING"
    BY <1>1 DEF StairsReached, WifeDefeated, Inv, SceneMatchesState
  <2> QED BY <1>1, <2>1, EndLevelPromise DEF StairsReached, WifeDefeated
<1>2. CASE EndingPlayed
  <2>1. gameState \in {"PLAYING", "DEAD", "STAIRS"}
    BY <1>2 DEF EndingPlayed, Inv, SceneMatchesState
  <2> QED BY <1>2, <2>1, EndLevelPromise DEF EndingPlayed
<1>3. CASE LethalContact
  <2>1. gameState \in {"PLAYING", "DEAD"}
    BY <1>3 DEF LethalContact, Inv, SceneMatchesState
  <2> QED BY <1>3, <2>1, EndLevelPromise DEF LethalContact
<1>4. CASE PhysicsStep \/ ContactsDelivered \/ HandlePostRenderUpdate \/ UNCHANGED vars
  BY <1>4, StutterPromise DEF PhysicsStep, ContactsDelivered, HandlePostRenderUpdate,
     flowVars, vars
<1>5. CASE HandleSpace
  <2>1. \/ gameState \notin {"MENU", "CREDITS"} /\ LoadLevel(gameState, currentLevel)
        \/ gameState = "CREDITS" /\ gameState' = "MENU" /\ currentLevel' = currentLevel
        \/ gameState' = gameState /\ currentLevel' = currentLevel
    BY <1>5 DEF HandleSpace, flowVars
  <2>2. CASE gameState = "CREDITS" /\ gameState' = "MENU" /\ currentLevel' = currentLevel
    BY <2>2 DEF PromiseStep, Promise!Next, Promise!CreditsEnd, Screen
  <2> QED BY <2>1, <2>2, LoadLevelPromise, StutterPromise
<1>6. CASE HandleMenu
  BY <1>6, MenuPromise
<1>7. CASE HandleMovie
  <2>1. \/ gameState = "INTRO" /\ LoadLevel(gameState, currentLevel)
        \/ gameState = "CREDITS" /\ gameState' = "FINISHED" /\ currentLevel' = currentLevel
        \/ gameState' = gameState /\ currentLevel' = currentLevel
    BY <1>7 DEF HandleMovie, flowVars
  <2>2. CASE gameState = "CREDITS" /\ gameState' = "FINISHED" /\ currentLevel' = currentLevel
    BY <2>2 DEF PromiseStep, Promise!Next, Promise!CreditsEnd, Screen
  <2> QED BY <2>1, <2>2, LoadLevelPromise, StutterPromise
<1>8. CASE HandleDeveloper
  <2>1. \/ gameState = "PLAYING" /\ EndLevel(FALSE, FALSE)
        \/ gameState = "PLAYING" /\ LoadLevel(gameState, currentLevel)
        \/ gameState' = gameState /\ currentLevel' = currentLevel
    BY <1>8 DEF HandleDeveloper, flowVars
  <2> QED BY <2>1, EndLevelPromise, LoadLevelPromise, StutterPromise
<1> QED BY <1>1, <1>2, <1>3, <1>4, <1>5, <1>6, <1>7, <1>8 DEF Next, Frame

(* For any levels, endings, movies and inputs, every game is a campaign: a    *)
(* lost level is retried, a won one followed by the next, and only a boss's   *)
(* ending can turn the one into the other.                                    *)
THEOREM CampaignImplemented == Spec => ImplementsCampaign
<1>1. Init => Inv
  BY ConstantsAssumption, InitInv
<1>2. Inv /\ [Next]_vars => Inv'
  BY ConstantsAssumption, StepInv
<1>3. Init => Promise!Init
  BY DEF Init, Promise!Init, Screen
<1>4. Inv /\ [Next]_vars => [Promise!Next]_<<Screen, currentLevel>>
  BY ConstantsAssumption, StepPromise DEF PromiseStep
<1> QED BY <1>1, <1>2, <1>3, <1>4, PTL DEF Spec, ImplementsCampaign, Promise!Spec

(* ------------------------- the movies keep their time --------------------- *)

(* The ticks counted off in whole movie frames and the remainder are all the  *)
(* ticks there are.                                                           *)
LEMMA NoTickLost ==
  ASSUME NEW total \in Nat, NEW ticks \in Nat \ {0}
  PROVE  total = (total \div ticks) * ticks + (total % ticks)
  OBVIOUS

(* Pictures shown before and pictures counted off now add up.                 *)
LEMMA PicturesAdd ==
  ASSUME NEW shown \in Nat, NEW more \in Nat, NEW ticks \in Nat
  PROVE  /\ shown * ticks \in Nat /\ more * ticks \in Nat
         /\ (shown + more) * ticks = shown * ticks + more * ticks
<1>1. shown * ticks \in Nat /\ more * ticks \in Nat
  OBVIOUS
<1>2. (shown + more) * ticks = shown * ticks + more * ticks
  OBVIOUS
<1> QED BY <1>1, <1>2, Zenon

(* The time a picture number and a timer stand for.                           *)
Time(state) == state.frame * FrameTicks + state.timer

(* While the movie goes on, its statics move on by just the length of the     *)
(* frame; where it ends they are back at the first picture.                   *)
LEMMA AdvancedTime ==
  ASSUME TypeOK, ConstantsAssumption, NEW m \in Movies, NEW step \in TimeSteps
  PROVE  Time(Advanced(m, step)) = IF Ends(m, step) THEN 0 ELSE Played(m) + step
<1> DEFINE total == movie[m].timer + step
           more == total \div FrameTicks
           shown == movie[m].frame
           timer == movie[m].timer
<1>1. movie[m] \in [frame : Nat, timer : 0..(FrameTicks - 1)]
  BY DEF TypeOK
<1>2. /\ shown \in Nat /\ timer \in Nat /\ step \in Nat /\ total \in Nat
      /\ FrameTicks \in Nat \ {0} /\ Length(m) \in Nat
  BY <1>1 DEF ConstantsAssumption, Length
<1>3. more \in Nat /\ total % FrameTicks \in 0..(FrameTicks - 1)
  BY <1>2, WholeFrames
<1>4. total = more * FrameTicks + (total % FrameTicks)
  BY <1>2, NoTickLost
<1>5. Played(m) = shown * FrameTicks + timer /\ total = timer + step
  BY Zenon DEF Played
<1>6. Ends(m, step) <=> total >= FrameTicks /\ shown + more > Length(m)
  BY DEF Ends
<1>7. Advanced(m, step) =
        IF total < FrameTicks THEN [movie[m] EXCEPT !.timer = total]
        ELSE IF shown + more <= Length(m)
             THEN [frame |-> shown + more, timer |-> total % FrameTicks]
             ELSE [frame |-> 0, timer |-> 0]
  BY DEF Advanced
<1>8. Time([movie[m] EXCEPT !.timer = total]) = shown * FrameTicks + total
  BY <1>1 DEF Time
<1> HIDE DEF total, more, shown, timer
<1>9. /\ shown * FrameTicks \in Nat /\ more * FrameTicks \in Nat
      /\ (shown + more) * FrameTicks = shown * FrameTicks + more * FrameTicks
  <2>1. shown \in Nat /\ more \in Nat /\ FrameTicks \in Nat
    BY <1>2, <1>3
  <2> QED BY <2>1, PicturesAdd
<1>10. CASE total < FrameTicks
  <2>1. Advanced(m, step) = [movie[m] EXCEPT !.timer = total] /\ ~Ends(m, step)
    BY <1>2, <1>6, <1>7, <1>10
  <2>2. Time(Advanced(m, step)) = shown * FrameTicks + (timer + step)
    BY <2>1, <1>5, <1>8, Zenon
  <2> QED BY <2>1, <2>2, <1>2, <1>5, <1>9
<1>11. CASE ~(total < FrameTicks) /\ shown + more <= Length(m)
  <2>1. /\ Advanced(m, step) = [frame |-> shown + more, timer |-> total % FrameTicks]
        /\ ~Ends(m, step)
    BY <1>2, <1>3, <1>6, <1>7, <1>11, SMTT(60)
  <2>2. Time(Advanced(m, step)) = (shown + more) * FrameTicks + (total % FrameTicks)
    BY <2>1 DEF Time
  <2> DEFINE before == shown * FrameTicks
             added == more * FrameTicks
             rest == total % FrameTicks
  <2>3. /\ before \in Nat /\ added \in Nat /\ rest \in 0..(FrameTicks - 1)
        /\ Time(Advanced(m, step)) = (before + added) + rest
        /\ Played(m) = before + timer /\ timer + step = added + rest
    BY <2>2, <1>3, <1>4, <1>5, <1>9, Zenon
  <2> HIDE DEF before, added, rest
  <2>4. Time(Advanced(m, step)) = Played(m) + step
    BY <2>3, <1>2
  <2> QED BY <2>1, <2>4
<1>12. CASE ~(total < FrameTicks) /\ ~(shown + more <= Length(m))
  <2>1. Advanced(m, step) = [frame |-> 0, timer |-> 0] /\ Ends(m, step)
    BY <1>2, <1>3, <1>6, <1>7, <1>12, SMTT(60)
  <2> QED BY <2>1, <1>2 DEF Time
<1> QED BY <1>10, <1>11, <1>12

(* What MoviesKeepTime says of one step and one movie.                        *)
KeepsTime(m) ==
  IF phase = "movie" /\ Shows(m)
  THEN \/ Shows(m)' /\ \E step \in TimeSteps : Played(m)' = Played(m) + step
       \/ ~Shows(m)' /\ Played(m)' = 0
  ELSE Played(m)' = Played(m)

(* The movie that is on the screen moves on by the frame's length or ends,    *)
(* and its end leads to another screen.                                       *)
LEMMA ShownMovieMoves ==
  ASSUME ConstantsAssumption, TypeOK, phase = "movie",
         NEW m \in Movies, Shows(m), NEW step \in TimeSteps,
         movie' = [movie EXCEPT ![m] = Advanced(m, step)],
         IF Ends(m, step) THEN ~Shows(m)' ELSE UNCHANGED gameState
  PROVE  KeepsTime(m)
<1>1. movie'[m] = Advanced(m, step)
  BY DEF TypeOK
<1>2. Played(m)' = Time(Advanced(m, step))
  BY <1>1 DEF Played, Time
<1>3. CASE Ends(m, step)
  <2>1. Played(m)' = 0
    BY <1>2, <1>3, AdvancedTime
  <2> QED BY <2>1, <1>3 DEF KeepsTime
<1>4. CASE ~Ends(m, step)
  <2>1. Played(m)' = Played(m) + step
    BY <1>2, <1>4, AdvancedTime
  <2>2. Shows(m)'
    BY <1>4 DEF Shows
  <2> QED BY <2>1, <2>2 DEF KeepsTime
<1> QED BY <1>3, <1>4

(* A movie whose statics a step leaves alone, and that is not on the screen   *)
(* of the movie stage, stands still.                                          *)
LEMMA OtherMovieStands ==
  ASSUME NEW m \in Movies, movie'[m] = movie[m], ~(phase = "movie" /\ Shows(m))
  PROVE  KeepsTime(m)
  BY DEF KeepsTime, Played

(* The movie stage moves at most the one movie that is on the screen.         *)
LEMMA MovieStageKeepsTime ==
  ASSUME ConstantsAssumption, TypeOK, HandleMovie, NEW m \in Movies
  PROVE  KeepsTime(m)
<1>1. phase = "movie" /\ movie \in [Movies -> [frame : Nat, timer : 0..(FrameTicks - 1)]]
  BY DEF HandleMovie, TypeOK
<1>2. PICK step \in TimeSteps :
        \/ /\ gameState = "INTRO"
           /\ movie' = [movie EXCEPT !["intro"] = Advanced("intro", step)]
           /\ IF Ends("intro", step) THEN LoadLevel("INTRO", currentLevel)
                                     ELSE UNCHANGED gameState
        \/ /\ gameState = "CREDITS"
           /\ movie' = [movie EXCEPT !["credits"] = Advanced("credits", step)]
           /\ IF Ends("credits", step) THEN gameState' = "FINISHED"
                                       ELSE UNCHANGED gameState
        \/ gameState \notin {"INTRO", "CREDITS"} /\ UNCHANGED movie
  BY DEF HandleMovie, flowVars
<1>3. CASE /\ gameState = "INTRO"
           /\ movie' = [movie EXCEPT !["intro"] = Advanced("intro", step)]
           /\ IF Ends("intro", step) THEN LoadLevel("INTRO", currentLevel)
                                     ELSE UNCHANGED gameState
  <2>1. CASE m = "intro"
    <3>1. LoadLevel("INTRO", currentLevel) => gameState' \in {"PLAYING", "CREDITS"}
      BY DEF LoadLevel, StartLevel, RollCredits
    <3>2. Shows(m) /\ (gameState' \in {"PLAYING", "CREDITS"} => ~Shows(m)')
      BY <1>3, <2>1 DEF Shows
    <3>3. IF Ends(m, step) THEN ~Shows(m)' ELSE UNCHANGED gameState
      BY <1>3, <2>1, <3>1, <3>2
    <3> QED BY <1>1, <1>3, <2>1, <3>2, <3>3, ShownMovieMoves
  <2>2. CASE m = "credits"
    BY <1>1, <1>3, <2>2, OtherMovieStands DEF Shows
  <2> QED BY <2>1, <2>2 DEF Movies
<1>4. CASE /\ gameState = "CREDITS"
           /\ movie' = [movie EXCEPT !["credits"] = Advanced("credits", step)]
           /\ IF Ends("credits", step) THEN gameState' = "FINISHED"
                                       ELSE UNCHANGED gameState
  <2>1. CASE m = "credits"
    <3>1. Shows(m) /\ (gameState' = "FINISHED" => ~Shows(m)')
      BY <1>4, <2>1 DEF Shows
    <3>2. IF Ends(m, step) THEN ~Shows(m)' ELSE UNCHANGED gameState
      BY <1>4, <2>1, <3>1
    <3> QED BY <1>1, <1>4, <2>1, <3>1, <3>2, ShownMovieMoves
  <2>2. CASE m = "intro"
    BY <1>1, <1>4, <2>2, OtherMovieStands DEF Shows
  <2> QED BY <2>1, <2>2 DEF Movies
<1>5. CASE gameState \notin {"INTRO", "CREDITS"} /\ UNCHANGED movie
  BY <1>5, OtherMovieStands DEF Shows
<1> QED BY <1>2, <1>3, <1>4, <1>5

(* No other step of the game touches a movie, and none but the movie stage is *)
(* taken where a movie would have to move.                                    *)
LEMMA StepKeepsTime ==
  ASSUME ConstantsAssumption, TypeOK, Next, NEW m \in Movies
  PROVE  KeepsTime(m)
<1>1. CASE StairsReached \/ EndingPlayed \/ WifeDefeated
  BY <1>1, OtherMovieStands DEF StairsReached, EndingPlayed, WifeDefeated
<1>2. CASE PhysicsStep \/ LethalContact \/ ContactsDelivered
  BY <1>2, OtherMovieStands DEF PhysicsStep, LethalContact, ContactsDelivered
<1>3. CASE HandleSpace
  BY <1>3, OtherMovieStands DEF HandleSpace
<1>4. CASE HandleMenu
  BY <1>4, OtherMovieStands DEF HandleMenu
<1>5. CASE HandleMovie
  BY <1>5, MovieStageKeepsTime
<1>6. CASE HandleDeveloper
  BY <1>6, OtherMovieStands DEF HandleDeveloper
<1>7. CASE HandlePostRenderUpdate
  BY <1>7, OtherMovieStands DEF HandlePostRenderUpdate
<1> QED BY <1>1, <1>2, <1>3, <1>4, <1>5, <1>6, <1>7 DEF Next, Frame

(* For any movies, pictures, time steps and inputs, a movie on the screen     *)
(* plays in real time and to its end: no tick is lost or counted twice where  *)
(* the timer is divided into pictures, and nothing but the movie stage moves  *)
(* it.                                                                        *)
THEOREM MoviesInTime == Spec => MoviesKeepTime
<1>1. Init => Inv
  BY ConstantsAssumption, InitInv
<1>2. Inv /\ [Next]_vars => Inv'
  BY ConstantsAssumption, StepInv
<1>3. Inv /\ [Next]_vars => [\A m \in Movies : KeepsTime(m)]_vars
  BY ConstantsAssumption, StepKeepsTime DEF Inv
<1>4. (\A m \in Movies : KeepsTime(m)) <=>
      \A m \in Movies :
        IF phase = "movie" /\ Shows(m)
        THEN \/ Shows(m)' /\ \E step \in TimeSteps : Played(m)' = Played(m) + step
             \/ ~Shows(m)' /\ Played(m)' = 0
        ELSE Played(m)' = Played(m)
  BY DEF KeepsTime
<1> QED BY <1>1, <1>2, <1>3, <1>4, PTL DEF Spec, MoviesKeepTime
=============================================================================
