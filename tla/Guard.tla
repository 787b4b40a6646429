-------------------------------- MODULE Guard --------------------------------
(* A guard of a level (src/src/Guard.cpp): patrol along its waypoints,        *)
(* pursuit of a person it sees, distraction by a thrown item, and the alarms  *)
(* of cameras and lasers.                                                     *)
(*                                                                            *)
(* The floor is a set of points.  A guard under way counts as being at the    *)
(* point it comes from until it is within one frame's movement of the next.   *)
EXTENDS Naturals, Sequences

CONSTANTS
  Points,      \* positions that matter
  Walkable,    \* pairs of points joined by a straight way over the floor
  Route,       \* NavigationMesh::FindPath: from and to -> points, <<>> if none
  Waypoints,   \* of the guard, from the room's file
  Sounds,      \* points where a thrown item may land near the guard
  Alarms,      \* points where a camera or a laser may find the person
  None,        \* no velocity
  Garbage      \* what the front of an empty vector contains

(* `points` lead on foot from `here`: each is in a straight way of the last.  *)
OnFoot(here, points) ==
  /\ points # <<>> => <<here, points[1]>> \in Walkable
  /\ \A i \in 1..(Len(points) - 1) : <<points[i], points[i + 1]>> \in Walkable

(* The levels have no guard without waypoints (the loader would hang), and    *)
(* lay them out for a walk from each to the next and from the last back.      *)
ASSUME GuardAssumption ==
  /\ None \notin Points
  /\ Garbage \notin Points \cup {None}
  /\ \A p \in Points : <<p, p>> \in Walkable
  /\ Route \in [Points -> [Points -> Seq(Points)]]
  /\ \A a, b \in Points : OnFoot(a, Route[a][b]) /\ (Route[a][b] # <<>> => Route[a][b][1] = a)
  /\ Waypoints \in Seq(Points)
  /\ Waypoints # <<>>
  /\ OnFoot(Waypoints[Len(Waypoints)], Waypoints)
  /\ Sounds \subseteq Points
  /\ Alarms \subseteq Points

(* The part of the mesh the guard's round lies in: its routes do not leave it *)
(* and always find the first waypoint.                                        *)
Connected(mesh) ==
  /\ mesh \subseteq Points
  /\ Waypoints \in Seq(mesh)
  /\ \A a \in mesh : \A b \in Points : Route[a][b] \in Seq(mesh)
  /\ \A a \in mesh : LET way == Route[a][Waypoints[1]]
                     IN  way # <<>> /\ way[Len(way)] = Waypoints[1]

VARIABLES
  phase,         \* "update": Guard::Update is next; "physics": the movement is
  at,            \* node_'s position
  path,          \* path_
  velocity,      \* the point rigidBody_ moves towards, None if it stands
  wasFollowing,  \* wasFollowingPlayer_
  hasSeen,       \* hasSeenPlayer_
  willHear,      \* willHearSound_
  sound,         \* soundPosition_
  alarmed        \* for the properties: an alarm has been raised

vars == <<phase, at, path, velocity, wasFollowing, hasSeen, willHear, sound, alarmed>>
senses == <<hasSeen, willHear, sound>>

Init ==
  /\ phase = "update"
  /\ at = Waypoints[1]
  /\ path = Waypoints
  /\ velocity = None
  /\ wasFollowing = FALSE
  /\ hasSeen = FALSE
  /\ willHear = FALSE
  /\ sound \in Sounds   \* not initialised by the constructor
  /\ alarmed = FALSE

(* path_.Erase(0), which an empty vector ignores, and path_.Front(), which it *)
(* does not.                                                                  *)
Rest(points) == IF points = <<>> THEN <<>> ELSE Tail(points)
NextPoint(points) == IF points = <<>> THEN Garbage ELSE Head(points)

(* The end of FollowPlayer and of FollowWaypoints: towards the next point,    *)
(* which leaves the path if it is near.  An offset of exactly zero gives no   *)
(* velocity.                                                                  *)
Walk(points) ==
  /\ path' = IF NextPoint(points) = at THEN Rest(points) ELSE points
  /\ velocity' \in IF NextPoint(points) = at THEN {None, at} ELSE {NextPoint(points)}

(* A bug: nothing remembers that the path was not the patrol's.               *)
FollowPlayerForgets(person) ==
  LET route == Rest(Route[at][person])
  IN  /\ UNCHANGED wasFollowing
      /\ IF route = <<>> THEN path' = <<>> /\ velocity' = None ELSE Walk(route)

FollowPlayer(person) ==
  LET route == Rest(Route[at][person])
  IN  /\ wasFollowing' = TRUE
      /\ IF route = <<>> THEN path' = <<>> /\ velocity' = None ELSE Walk(route)

(* A bug: a guard that has got back does not take up its waypoints.           *)
FollowWaypointsOnlyBack(points, following) ==
  LET done == following /\ points = <<>>
      left == IF done THEN Rest(Route[at][Waypoints[1]]) ELSE points
  IN  /\ wasFollowing' = (following /\ ~done)
      /\ Walk(left)

(* A bug: the patrol is taken up a point too early.                           *)
FollowWaypointsTooEarly(points, following) ==
  LET done == following /\ points = <<>>
      left == IF done THEN Rest(Route[at][Waypoints[1]]) ELSE points
  IN  /\ wasFollowing' = (following /\ ~done)
      /\ Walk(IF Len(left) <= 1 THEN Waypoints ELSE left)

(* FollowWaypoints with path_ = points and wasFollowingPlayer_ = following:   *)
(* after a pursuit or a distraction back to the first waypoint over the mesh, *)
(* then, and whenever the path is used up, the waypoints from the start.      *)
FollowWaypoints(points, following) ==
  LET done == following /\ points = <<>>
      left == IF done THEN Rest(Route[at][Waypoints[1]]) ELSE points
  IN  /\ wasFollowing' = (following /\ ~done)
      /\ Walk(IF left = <<>> THEN Waypoints ELSE left)

(* ---------------------- the three ways through Update --------------------- *)

(* Only a guard on the move sees and hears.                                   *)
Moving == velocity # None

(* A bug: the sound is not taken note of.                                     *)
HearAgain ==
  /\ Moving
  /\ willHear
  /\ FollowWaypoints(Rest(Route[at][sound]), TRUE)
  /\ UNCHANGED senses

Hear ==
  /\ Moving
  /\ willHear
  /\ FollowWaypoints(Rest(Route[at][sound]), TRUE)
  /\ willHear' = FALSE
  /\ UNCHANGED <<hasSeen, sound>>

(* DetectPlayer returns true, with the person at some point.                  *)
See ==
  /\ Moving
  /\ ~willHear
  /\ \E person \in Points : FollowPlayer(person)
  /\ hasSeen' = TRUE
  /\ UNCHANGED <<willHear, sound>>

Patrol ==
  /\ Moving => ~willHear
  /\ FollowWaypoints(path, wasFollowing)
  /\ UNCHANGED senses

Update ==
  /\ phase = "update"
  /\ phase' = "physics"
  /\ Hear \/ See \/ Patrol
  /\ UNCHANGED <<at, alarmed>>

(* The physics step: the guard is still on its way, or gets to the point it   *)
(* walks towards.  A path set since the update starts where the guard is.     *)
OnTheWay ==
  /\ phase = "physics"
  /\ phase' = "update"
  /\ UNCHANGED <<at, path, velocity, wasFollowing, senses, alarmed>>

Arrive ==
  /\ phase = "physics"
  /\ phase' = "update"
  /\ path # <<>>
  /\ velocity = path[1]
  /\ at' = velocity
  /\ UNCHANGED <<path, velocity, wasFollowing, senses, alarmed>>

(* ------------------------------- disturbances ----------------------------- *)

(* An item lands within 4 m (Thrower::DistractGuard).                         *)
HeardSound ==
  /\ willHear' = TRUE
  /\ sound' \in Sounds
  /\ UNCHANGED <<phase, at, path, velocity, wasFollowing, hasSeen, alarmed>>

(* A bug: the old path is kept in front.                                      *)
SetPathAppends ==
  /\ \E person \in Alarms : Len(path) < 3 /\ path' = path \o Route[at][person]
  /\ alarmed' = TRUE
  /\ UNCHANGED <<phase, at, velocity, wasFollowing, senses>>

(* A camera sees the person, or the person touches a laser: SetPath with the  *)
(* way to the person, its first point being where the guard stands.           *)
SetPath ==
  /\ \E person \in Alarms : path' = Route[at][person]
  /\ alarmed' = TRUE
  /\ UNCHANGED <<phase, at, velocity, wasFollowing, senses>>

Next == Update \/ OnTheWay \/ Arrive \/ HeardSound \/ SetPath

Spec == Init /\ [][Next]_vars

(* A guard that keeps walking over free floor gets there: its speed is        *)
(* constant.                                                                  *)
ArriveOnFoot == Arrive /\ <<at, path[1]>> \in Walkable

(* -------------------------------- properties ------------------------------ *)

(* The types; a velocity is towards a point of the room.                      *)
TypeOK ==
  /\ phase \in {"update", "physics"}
  /\ at \in Points
  /\ path \in Seq(Points)
  /\ velocity \in Points \cup {None}
  /\ wasFollowing \in BOOLEAN
  /\ hasSeen \in BOOLEAN
  /\ willHear \in BOOLEAN
  /\ sound \in Sounds
  /\ alarmed \in BOOLEAN

(* The whole path ahead can be walked, whatever has interrupted the guard in  *)
(* whatever order.  The one exception is a patrol that starts over: after an  *)
(* alarm, or if no way back is found, the guard makes straight for its first  *)
(* waypoint, through whatever is between (FollowWaypoints, Guard.cpp:191).    *)
PathOnFoot == OnFoot(at, path) \/ path = Waypoints

(* Before the first alarm there is no such exception: a guard that has        *)
(* pursued a person or gone after a noise returns to its patrol over the      *)
(* mesh.                                                                      *)
NoShortcut == alarmed \/ OnFoot(at, path)

(* The guard never walks towards the garbage in front of an empty path:       *)
(* whichever way its path was used up or erased, one is there when Update     *)
(* looks at its front (Guard.cpp:208).                                        *)
NoGarbage == velocity # Garbage

(* All together: a guard goes to points of the room only, and leaves the      *)
(* floor only on its way to the start of its round, after an alarm.           *)
KeepsToFloor == PathOnFoot /\ NoShortcut /\ NoGarbage

(* In a room without cameras and lasers a guard left alone takes up its       *)
(* patrol again and visits every waypoint over and over.                      *)
ResumesPatrol ==
  []~alarmed /\ <>[][(Update /\ ~See) \/ OnTheWay \/ Arrive]_vars
    => \A i \in DOMAIN Waypoints : []<>(at = Waypoints[i])

(* No noise is lost, unless alarms never cease: sooner or later the guard     *)
(* moves and goes after it.  (Alarms in every frame may hold it on the spot.) *)
HearsEverySound == <>[][~SetPath]_vars => (willHear ~> ~willHear)
=============================================================================
