-------------------------------- MODULE Room ---------------------------------
(* A guard in a room with lasers and a security camera                        *)
(* (src/src/SecurityCamera.cpp, Laser.cpp): they alone raise its alarms.      *)
(* A frame is the update of the lasers and the camera, the guard's update     *)
(* (Game::LoadLevel makes the objects of a room before its guards), and the   *)
(* physics step, whose contacts are handled at its end.                       *)
EXTENDS Guard, LaserBeams, Integers

CONSTANTS
  FrameTimes,  \* lengths of a frame: the engine's time step, another in each
  YawLimit,    \* where the camera turns around (45 degrees)
  YawBound     \* bound: the camera is not followed farther than this

ASSUME FramesAssumption == FrameTimes \subseteq Nat /\ YawLimit \in Nat \ {0}

VARIABLES
  yaw,         \* yaw_ of the camera, in what it sweeps per unit of time
  back,        \* sweepingBack_
  scanned,     \* the lasers and the camera have had their update of this frame
  called,      \* for the properties: where an alarm has sent the guard, None
               \*   once it has been there or goes after something else
  turned,      \* for the properties: the length of the last frame if the camera
               \*   turned around in it, else 0
  slipped      \* for the properties: a frame right after a turn was shorter
               \*   than the one the camera turned around in

roomVars == <<vars, beamVars, yaw, back, scanned, called, turned, slipped>>
camera == <<yaw, back, turned, slipped>>

RoomInit ==
  /\ Init
  /\ BeamsInit
  /\ yaw = 0
  /\ back = FALSE
  /\ scanned = FALSE
  /\ called = None
  /\ turned = 0
  /\ slipped = FALSE

(* A bug: the sign of the yaw is overlooked, and with it the left end.        *)
SweepRightOnly(step) ==
  /\ yaw' = IF back THEN yaw - step ELSE yaw + step
  /\ back' = (back # (yaw' >= YawLimit \/ yaw' <= 0))

(* A bug: the yaw is looked at before it has moved.                           *)
SweepLooksFirst(step) ==
  /\ yaw' = IF back THEN yaw - step ELSE yaw + step
  /\ back' = (back # (yaw >= YawLimit \/ yaw <= -YawLimit))

Sweep(step) ==
  /\ yaw' = IF back THEN yaw - step ELSE yaw + step
  /\ back' = (back # (yaw' >= YawLimit \/ yaw' <= -YawLimit))

Alarm ==
  /\ SetPath
  /\ called' = IF path' = <<>> \/ path'[Len(path')] = at THEN None ELSE path'[Len(path')]

(* The updates of the lasers and of the camera, which alerts the guard in     *)
(* every frame in which it sees the person.  Every frame has its own length.  *)
Scan ==
  /\ phase = "update"
  /\ ~scanned
  /\ scanned' = TRUE
  /\ \E step \in FrameTimes :
       /\ UpdateBeams(step)
       /\ Sweep(step)
       /\ yaw' \in -YawBound..YawBound
       /\ turned' = IF back' = back THEN 0 ELSE step
       /\ slipped' = (slipped \/ step < turned)
  /\ Alarm \/ UNCHANGED <<vars, called>>

(* The person is in a beam that is lit (Laser::HandleNodeCollision).          *)
Touch ==
  /\ phase = "update"
  /\ ~scanned
  /\ \E b \in Beams : TouchBeam(b)
  /\ Alarm
  /\ UNCHANGED <<camera, scanned>>

(* A guard that sees the person or goes after a noise gives up the alarm's    *)
(* way; nothing is promised of an alarm interrupted so.                       *)
GuardUpdate ==
  /\ scanned
  /\ scanned' = FALSE
  /\ Update
  /\ called' = IF See \/ Hear THEN None ELSE called
  /\ UNCHANGED <<beamVars, camera>>

Physics(step) ==
  /\ step
  /\ called' = IF at' = called THEN None ELSE called
  /\ UNCHANGED <<beamVars, camera, scanned>>

Noise ==
  /\ HeardSound
  /\ UNCHANGED <<beamVars, camera, scanned, called>>

RoomNext == Scan \/ Touch \/ GuardUpdate \/ Physics(OnTheWay) \/ Physics(Arrive) \/ Noise

(* Frames keep running, and a guard that keeps walking over free floor gets   *)
(* there.  Nobody need make a noise, be seen or step into a beam.             *)
RoomSpec ==
  /\ RoomInit
  /\ [][RoomNext]_roomVars
  /\ WF_roomVars(Scan)
  /\ WF_roomVars(GuardUpdate)
  /\ WF_roomVars(Physics(OnTheWay \/ Arrive))
  /\ SF_roomVars(Physics(ArriveOnFoot))

(* -------------------------------- properties ------------------------------ *)

(* The lights of a room are red only while one of its lasers pulses: however  *)
(* the pulses of several lasers overlap, none of them leaves the lights red   *)
(* for good (the last one to end finds no other to overrule it).              *)
LightsTell == red => \E b \in Beams : pulse[b]

(* Two lasers with one interval, the second delayed by as much, as in         *)
(* data/Levels/5/1x2.xml.                                                     *)
Paired(a, b) == Interval[a] > 0 /\ Interval[b] = Interval[a] /\ Delay[a] = 0 /\ Delay[b] = Interval[a]

(* Such lasers change over in turn, in frames of whatever lengths.  A frame   *)
(* that ends exactly with the delay puts them a frame apart, and what each    *)
(* loses at its changes, which is made up for nowhere, may then let them      *)
(* drift until both are lit for a whole interval.  Still neither overtakes    *)
(* the other: none changes over twice before the other has.  And two that     *)
(* have come to change over together, one lit and the other not, do so for    *)
(* good.                                                                      *)
TakeTurns ==
  [][\A a, b \in Beams :
       Paired(a, b) =>
         (Scan => /\ (lit[a] <=> lit[b]) /\ lit'[b] # lit[b] => lit'[a] # lit[a]
                  /\ (lit[a] <=> ~lit[b]) /\ lit'[a] # lit[a] => lit'[b] # lit[b]
                  /\ (lit[a] <=> ~lit[b]) /\ timer[a] = timer[b] => (lit'[a] <=> ~lit'[b]))]_roomVars

(* What the camera needs of the frames.  It flips whenever it is beyond its   *)
(* limit, whichever way it goes.  The first frame after a turn brings it back *)
(* inside if it is as long as the one of the turn; after a shorter one it may *)
(* still be beyond the limit, turns around a second time and gets away from   *)
(* the room.                                                                  *)

(* The camera turns around at the end it goes to and nowhere else, until a    *)
(* turn is followed by a shorter frame: however the lengths vary otherwise,   *)
(* and although the code does not look which end it is at, it never turns     *)
(* around on its way back.                                                    *)
TurnsAtEnds ==
  [][Scan => slipped' \/ (back' <=> IF back THEN yaw' > -YawLimit ELSE yaw' >= YawLimit)]_roomVars

(* Under the same condition it sweeps from end to end for ever.               *)
SweepsAcross == []~slipped => []<>(yaw >= YawLimit) /\ []<>(yaw <= -YawLimit)

(* As long as nothing else has caught its interest, a guard that an alarm has *)
(* called is on a path that ends there: the path is never used up, replaced   *)
(* by the patrol or erased before, in whatever frames it is interrupted.      *)
AlarmStands == called # None => called # at /\ path # <<>> /\ path[Len(path)] = called

(* An alarm is not forgotten: once the camera, the lasers, noises and         *)
(* glimpses of the person no longer interfere, the guard gets where the last  *)
(* alarm has sent it.  (As long as they do it may stand still: each alarm's   *)
(* path starts where the guard is, and its next update takes only that off.)  *)
CalledGuardComes ==
  <>[][(Update /\ ~See /\ ~Hear) \/ OnTheWay \/ Arrive]_vars
    => (called # None ~> called = None)
=============================================================================
