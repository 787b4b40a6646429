\* A guard among noises, glimpses and alarms, with two lasers and a camera, in frames
\* of varying length.
SPECIFICATION RoomSpec
CONSTANTS
  desk = desk
  Points <- Floor
  Walkable <- Near
  Route <- Ways
  Waypoints <- Beat
  Sounds = {3, desk}
  Alarms = {3, desk}
  None = None
  Garbage = Garbage
  Beams <- Pair
  Interval <- Ones
  Delay <- OneLater
  PulseTime = 1
  FrameTimes = {1, 2}
  YawLimit = 1
  YawBound = 2
INVARIANTS
  KeepsToFloor
  AlarmStands
  LightsTell
PROPERTIES
  ResumesPatrol
  HearsEverySound
  CalledGuardComes
  TakeTurns
  TurnsAtEnds
  SweepsAcross
