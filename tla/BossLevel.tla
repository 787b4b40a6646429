------------------------------ MODULE BossLevel ------------------------------
(* A level that a boss guards: MrWright's (src/src/MrWright.cpp) and Bertha's *)
(* (src/src/BossBertha.cpp).  It has no stairs; beating the boss queues the   *)
(* boss's last words in the audio manager, with a NULL sound behind them, and *)
(* the level ends when the manager gets there.  Meanwhile the person can      *)
(* still walk into audio zones, into guards and into Bertha's body.           *)
(*                                                                            *)
(* A frame is the scene update, the delivery of the contacts of the physics   *)
(* step in any order, and Game::HandleUpdate (see GameFlow, which also has    *)
(* the developer's keys that skip a level: they are left out here).           *)
EXTENDS Integers, FiniteSets, SequencesExt

CONSTANTS
  Clips, Null, TimeSteps,   \* see AudioManager
  NumLevels,   \* boss levels in a row
  Hits,        \* matches or laser hits it takes to beat the boss
  BossWords,   \* the list a beaten boss passes to AudioManager::Play
  Zones,       \* the audio zones of the level
  ZoneWords,   \* what each zone says, as in the level's file
  Killers      \* the bodies whose contact is lethal: guards, Bertha

VARIABLES
  phase,      \* "update", "physics"
  playing, queue,   \* of the audio manager
  gameState,  \* Game::gameState_
  level,      \* Game::currentLevel_
  frozen,     \* EndLevel has disabled the components of the level's nodes
  hits,       \* what it still takes to beat the boss
  zones,      \* the zones that still exist
  contacts    \* contacts of this physics step still to be delivered

vars == <<phase, playing, queue, gameState, level, frozen, hits, zones, contacts>>
levelVars == <<gameState, level, frozen>>

(* What a boss or a zone passes to Play.                                      *)
ZoneList(z) == Reverse(ZoneWords[z])

Audio == INSTANCE AudioManager WITH PlayLists <- {BossWords} \cup {ZoneList(z) : z \in Zones}

(* Only a boss says NULL: the sounds of the zones all load.                   *)
ASSUME BossAssumption ==
  /\ NumLevels \in Nat \ {0}
  /\ Hits \in Nat \ {0}
  /\ Null \notin Clips
  /\ TimeSteps \subseteq Nat \ {0}
  /\ Zones \cap (Killers \cup {"boss"}) = {}
  /\ BossWords \in Seq([sound : Clips \cup {Null}, delay : Nat])
  /\ ZoneWords \in [Zones -> Seq([sound : Clips, delay : Nat])]

(* The bodies the person can be in contact with.                              *)
Bodies == {"boss"} \cup Killers \cup zones

Init ==
  /\ phase = "update"
  /\ Audio!Init
  /\ gameState = "PLAYING"
  /\ level = 0
  /\ frozen = FALSE
  /\ hits = Hits
  /\ zones = Zones
  /\ contacts = {}

(* A bug: the components are left enabled.                                    *)
EndLevelUnfrozen(died) ==
  /\ gameState' = IF died THEN "DEAD" ELSE "STAIRS"
  /\ UNCHANGED <<frozen, level>>

EndLevel(died) ==
  /\ gameState' = IF died THEN "DEAD" ELSE "STAIRS"
  /\ frozen' = TRUE
  /\ UNCHANGED level

(* The audio manager's scene update, which may end the level; then the        *)
(* physics step finds contacts, between enabled bodies only.                  *)
SceneUpdate ==
  /\ phase = "update"
  /\ phase' = "physics"
  /\ Audio!HandleSceneUpdate
  /\ IF Audio!EndingDue THEN EndLevel(FALSE) ELSE UNCHANGED levelVars
  /\ contacts' \in IF gameState = "CREDITS" \/ frozen' THEN {{}} ELSE SUBSET Bodies
  /\ UNCHANGED <<hits, zones>>

Delivers(body) ==
  /\ phase = "physics"
  /\ body \in contacts
  /\ contacts' = contacts \ {body}
  /\ UNCHANGED phase

(* MrWright::HandleNodeCollision with the glyph asked for, or a laser that    *)
(* hits Bertha (BossBertha::TakeDamage): the last of them says the words.     *)
BossHit ==
  /\ Delivers("boss")
  /\ IF hits > 0
     THEN /\ hits' = hits - 1
          /\ IF hits = 1 THEN Audio!Play(BossWords, FALSE) ELSE UNCHANGED <<playing, queue>>
     ELSE UNCHANGED <<hits, playing, queue>>
  /\ UNCHANGED <<levelVars, zones>>

(* AudioZone::HandleNodeCollisionStart: the zone's words take the place of    *)
(* whatever waits, and the zone is gone.                                      *)
ZoneEntered(z) ==
  /\ Delivers(z)
  /\ Audio!Play(Audio!EnqueueAudioClips(ZoneWords[z]), FALSE)
  /\ zones' = zones \ {z}
  /\ UNCHANGED <<levelVars, hits>>

(* Guard and BossBertha::HandleNodeCollisionStart, and the last hit point of  *)
(* Person::TakeDamage.  None of them looks at the state of the game.          *)
Killed(k) ==
  /\ Delivers(k)
  /\ EndLevel(TRUE)
  /\ UNCHANGED <<playing, queue, hits, zones>>

(* LoadLevel: the next level after GS_STAIRS, the same one otherwise.         *)
NextLevel == IF gameState = "STAIRS" THEN level + 1 ELSE level

(* What LoadLevel makes of the level's nodes: all of them are new.            *)
NewNodes == frozen' = FALSE /\ zones' = Zones /\ hits' = Hits

(* A bug: the audio manager outlives the level.                               *)
LoadLevelKeepsAudio ==
  /\ NewNodes
  /\ level' = NextLevel % NumLevels
  /\ gameState' = IF NextLevel < NumLevels THEN "PLAYING" ELSE "CREDITS"
  /\ UNCHANGED <<playing, queue>>

LoadLevel ==
  /\ NewNodes
  /\ Audio!Recreate
  /\ IF NextLevel < NumLevels THEN gameState' = "PLAYING" /\ level' = NextLevel
                              ELSE gameState' = "CREDITS" /\ level' = 0

(* Game::HandleUpdate with and without [space].                               *)
HandleUpdate ==
  /\ phase = "physics"
  /\ contacts = {}
  /\ phase' = "update"
  /\ \/ gameState \in {"DEAD", "STAIRS"} /\ LoadLevel
     \/ UNCHANGED <<playing, queue, levelVars, hits, zones>>
  /\ UNCHANGED contacts

SoundFinished ==
  /\ Audio!SoundFinished
  /\ UNCHANGED <<phase, levelVars, hits, zones, contacts>>

Frame ==
  \/ SceneUpdate
  \/ BossHit
  \/ \E z \in Zones : ZoneEntered(z)
  \/ \E k \in Killers : Killed(k)
  \/ HandleUpdate

Next == Frame \/ SoundFinished

Spec == Init /\ [][Next]_vars

(* Frames keep running and sounds end; the player need not do anything.       *)
FairSpec == Spec /\ WF_vars(Frame) /\ WF_vars(SoundFinished)

(* -------------------------------- properties ------------------------------ *)

(* The mark that ends the level waits in the audio manager.                   *)
EndingWaits == \E i \in DOMAIN queue : queue[i].sound = Null

(* A boss level is only won by beating its boss: the mark that ends it is     *)
(* never left over from an attempt before, and nothing else can end it.       *)
WonMeansBeaten ==
  /\ gameState = "STAIRS" => hits = 0
  /\ EndingWaits => hits = 0

(* Once won, a level stays won until [space] leads on: no contact computed    *)
(* before the end is delivered after it.                                      *)
WonStaysWon == [][gameState = "STAIRS" => gameState' # "DEAD"]_vars

(* The words of a beaten boss are not interrupted: the manager drops the mark *)
(* only to end the level, another hit does not start the words anew, and      *)
(* nothing but one more zone, a death or the end makes the queue forget it.   *)
MarkStands ==
  [][EndingWaits /\ gameState = "PLAYING"
       => EndingWaits' \/ gameState' # "PLAYING" \/ zones' # zones]_vars

(* Both together: a victory is lost neither before nor after its ending.      *)
VictoryHolds == MarkStands /\ WonStaysWon

(* A beaten boss ends the level, without [space] or anything else from the    *)
(* player, unless the person is killed or walks into one more zone, whose     *)
(* words then take the place of the mark (AudioManager::Play).                *)
VictoryEndsLevel ==
  \A Z \in SUBSET Zones :
    (EndingWaits /\ zones = Z) ~> (gameState # "PLAYING" \/ zones # Z)

(* The comment at Game.cpp:243: a player who has died does not advance.       *)
DeadDoNotAdvance == [][gameState = "DEAD" => gameState' \in {"DEAD", "PLAYING"}]_vars

(* The manager speaks as Speech promises: whatever is inserted and popped at  *)
(* the two ends of the vector, a batch is heard in its order, a new batch     *)
(* drops or follows the old one, and no sound starts while another plays.     *)
ImplementsSpeech == Audio!Spoken!Spec
=============================================================================
