----------------------------- MODULE LaserBeams ------------------------------
(* The lasers of a room and its ceiling lights (src/src/Laser.cpp).  A beam   *)
(* is switched on and off by a timer of its own; a contact with it makes the  *)
(* room's lights pulse red for a while.  BossLaser.cpp has the same timer.    *)
EXTENDS Integers

CONSTANTS
  Beams,      \* in the order of their updates: 1..n
  Interval,   \* laserInterval_ of each, from the room's file
  Delay,      \* laserDelay_ of each
  PulseTime   \* how long the lights pulse (5.0f)

(* Read by GetFloat, which makes what is missing or unreadable 0.             *)
ASSUME BeamsAssumption == Interval \in [Beams -> Int] /\ Delay \in [Beams -> Int]

VARIABLES
  delay,      \* laserDelay_, what is left of it
  timer,      \* laserTime_
  lit,        \* model_->IsEnabled()
  pulse,      \* lightPulse_
  lightTime,  \* lightTime_
  red         \* the colour of the room's point lights: red, or white

beamVars == <<delay, timer, lit, pulse, lightTime, red>>

BeamsInit ==
  /\ delay = Delay
  /\ timer = [b \in Beams |-> 0]
  /\ lit = [b \in Beams |-> FALSE]
  /\ pulse = [b \in Beams |-> FALSE]
  /\ lightTime = [b \in Beams |-> 0]
  /\ red = FALSE

Delayed(b) == delay[b] > 0

(* A bug: the timer is not reset when the beam changes over.                  *)
TimersRunOn(step) ==
  LET running == {b \in Beams : ~Delayed(b) /\ Interval[b] > 0}
      due == {b \in running : timer[b] + step > Interval[b]}
  IN  /\ delay' = [b \in Beams |-> IF delay[b] > step THEN delay[b] - step ELSE 0]
      /\ timer' = [b \in Beams |-> IF b \in running THEN timer[b] + step ELSE timer[b]]
      /\ lit' = [b \in Beams |-> lit[b] # (b \in due)]

(* A frame that ends a delay does no more.  A beam changes over in the first  *)
(* frame that exceeds its interval, and starts from zero: what the frame is   *)
(* too long is lost.                                                          *)
Timers(step) ==
  LET running == {b \in Beams : ~Delayed(b) /\ Interval[b] > 0}
      due == {b \in running : timer[b] + step > Interval[b]}
  IN  /\ delay' = [b \in Beams |-> IF delay[b] > step THEN delay[b] - step ELSE 0]
      /\ timer' = [b \in Beams |-> IF b \in due THEN 0 ELSE IF b \in running THEN timer[b] + step ELSE timer[b]]
      /\ lit' = [b \in Beams |-> lit[b] # (b \in due)]

(* A bug: a pulse that ends leaves the lights as they are.                    *)
LightsLeftRed(step) ==
  LET active == {b \in Beams : ~Delayed(b) /\ pulse[b]}
      over == {b \in active : lightTime[b] + step > PulseTime}
  IN  /\ pulse' = [b \in Beams |-> pulse[b] /\ b \notin over]
      /\ lightTime' = [b \in Beams |-> IF b \in over THEN 0 ELSE IF b \in active THEN lightTime[b] + step ELSE lightTime[b]]
      /\ red' = (red \/ active \ over # {})

(* Each pulsing laser colours all the lights in its turn: the last one stays. *)
Lights(step) ==
  LET active == {b \in Beams : ~Delayed(b) /\ pulse[b]}
      over == {b \in active : lightTime[b] + step > PulseTime}
  IN  /\ pulse' = [b \in Beams |-> pulse[b] /\ b \notin over]
      /\ lightTime' = [b \in Beams |-> IF b \in over THEN 0 ELSE IF b \in active THEN lightTime[b] + step ELSE lightTime[b]]
      /\ red' = IF active = {} THEN red ELSE \E b \in active \ over : \A c \in active : c <= b

UpdateBeams(step) == Timers(step) /\ Lights(step)

(* The part of HandleNodeCollision that concerns the laser, for the person.   *)
TouchBeam(b) ==
  /\ lit[b]
  /\ pulse' = [pulse EXCEPT ![b] = TRUE]
  /\ UNCHANGED <<delay, timer, lit, lightTime, red>>
=============================================================================
