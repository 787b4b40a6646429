---------------------------- MODULE AudioManager ----------------------------
(* The audio manager of a scene (src/src/AudioManager.cpp) and the queues of  *)
(* the audio zones that feed it (src/src/AudioZone.cpp).                      *)
(*                                                                            *)
(* The queue is the PODVector of the code: new entries are inserted at its    *)
(* front, and its back is the sound to be played next.  An entry whose sound  *)
(* is the NULL pointer ends the level when its turn comes.                    *)
EXTENDS Integers, SequencesExt

CONSTANTS
  Null,       \* the NULL Sound pointer
  PlayLists,  \* argument lists of AudioManager::Play, in the caller's order
  TimeSteps   \* lengths of a frame, in ticks

VARIABLES
  playing,  \* source_->IsPlaying()
  queue     \* queue_

audioVars == <<playing, queue>>

Init == playing = FALSE /\ queue = <<>>

(* A bug: each call pushes at the back.                                       *)
EnqueueAtBack(clips) == clips

(* The entries of an AudioZone after EnqueueAudioClip has been called for     *)
(* each of `clips` in turn: each call inserts at the front.                   *)
EnqueueAudioClips(clips) == Reverse(clips)

(* A bug: the mark is overlooked when nothing else waits.                     *)
EndingOverlooked ==
  /\ ~playing
  /\ Len(queue) > 1
  /\ Last(queue).delay <= 0
  /\ Last(queue).sound = Null

(* The level ends in the scene update of this state.                          *)
EndingDue ==
  /\ ~playing
  /\ queue # <<>>
  /\ Last(queue).delay <= 0
  /\ Last(queue).sound = Null

(* HandleSceneUpdate: nothing while a sound plays or none waits; the next     *)
(* entry first waits for its delay, then leaves the queue and is played.      *)
Idle == (playing \/ queue = <<>>) /\ UNCHANGED audioVars

Delay(step) ==
  /\ ~playing
  /\ queue # <<>>
  /\ Last(queue).delay > 0
  /\ queue' = [queue EXCEPT ![Len(queue)].delay = @ - step]
  /\ UNCHANGED playing

Pop ==
  /\ ~playing
  /\ queue # <<>>
  /\ Last(queue).delay <= 0
  /\ queue' = Front(queue)
  /\ playing' = (Last(queue).sound # Null)

HandleSceneUpdate == Idle \/ Pop \/ \E step \in TimeSteps : Delay(step)

(* The sound source reaches the end of its sound.                             *)
SoundFinished == playing /\ playing' = FALSE /\ UNCHANGED queue

(* Play(sounds, keep): `keep` is the parameter the code calls queue.          *)
Play(sounds, keep) ==
  /\ queue' = sounds \o (IF keep THEN queue ELSE <<>>)
  /\ UNCHANGED playing

(* Scene::Clear destroys the manager and its sound source; LoadLevel makes    *)
(* new ones.                                                                  *)
Recreate == playing' = FALSE /\ queue' = <<>>

(* -------------------------------- the promise ----------------------------- *)

(* What Speech sees of the queue, and of the lists passed to Play.            *)
SoundsOf(entries) == [i \in DOMAIN entries |-> entries[i].sound]

Spoken == INSTANCE Speech WITH
            Batches <- {Reverse(SoundsOf(l)) : l \in PlayLists}, Silent <- Null,
            pending <- Reverse(SoundsOf(queue)), speaking <- playing
=============================================================================
