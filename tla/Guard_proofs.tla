----------------------------- MODULE Guard_proofs -----------------------------
(* Proofs about Guard: its paths are well formed and can be walked, for every *)
(* floor, every patrol and every order of noises, glimpses and alarms.        *)
EXTENDS Room, SequenceTheorems, TLAPS

USE GuardAssumption

(* ------------------------ the helpers on sequences ------------------------ *)

(* Erasing the first point of a path leaves a path.                           *)
LEMMA RestType == ASSUME NEW s \in Seq(Points) PROVE Rest(s) \in Seq(Points)
  BY DEF Rest

(* A path that can be walked can still be walked behind its first point, from *)
(* that point.                                                                *)
LEMMA RestOnFoot ==
  ASSUME NEW here \in Points, NEW s \in Seq(Points), OnFoot(here, s), s # <<>> => s[1] = here
  PROVE  OnFoot(here, Rest(s))
<1>1. CASE s = <<>>
  BY <1>1 DEF Rest, OnFoot
<1>2. CASE s # <<>>
  <2>1. /\ Rest(s) = Tail(s)
        /\ Tail(s) \in Seq(Points)
        /\ Len(Tail(s)) = Len(s) - 1
        /\ Len(s) \in Nat \ {0}
    BY <1>2 DEF Rest
  <2>2. \A i \in 1..Len(Tail(s)) : Tail(s)[i] = s[i + 1]
    BY <1>2, <2>1
  <2>3. \A i \in 1..(Len(s) - 1) : <<s[i], s[i + 1]>> \in Walkable
    BY DEF OnFoot
  <2>4. Tail(s) # <<>> => <<here, Tail(s)[1]>> \in Walkable
    <3>1. SUFFICES ASSUME Tail(s) # <<>> PROVE <<here, Tail(s)[1]>> \in Walkable
      OBVIOUS
    <3>2. 1 \in 1..(Len(s) - 1)
      <4>1. Len(Tail(s)) # 0
        BY <2>1, <3>1, EmptySeq
      <4>2. \A n \in Nat \ {0} : n - 1 # 0 => 1 \in 1..(n - 1)
        OBVIOUS
      <4>3. Len(s) - 1 # 0
        BY <2>1, <4>1
      <4>4. QED
        BY <2>1, <4>2, <4>3
    <3>3. Tail(s)[1] = s[2] /\ <<s[1], s[2]>> \in Walkable
      BY <2>1, <2>2, <2>3, <3>2
    <3>4. QED
      BY <1>2, <3>3
  <2>5. \A i \in 1..(Len(Tail(s)) - 1) : <<Tail(s)[i], Tail(s)[i + 1]>> \in Walkable
    <3>1. TAKE i \in 1..(Len(Tail(s)) - 1)
    <3>2. /\ i \in 1..Len(Tail(s))
          /\ i + 1 \in 1..Len(Tail(s))
          /\ i + 1 \in 1..(Len(s) - 1)
      BY <2>1
    <3>3. Tail(s)[i] = s[i + 1] /\ Tail(s)[i + 1] = s[(i + 1) + 1]
      BY <2>2, <3>2
    <3>4. QED
      BY <2>3, <3>2, <3>3
  <2>6. QED
    BY <2>1, <2>4, <2>5 DEF OnFoot
<1>3. QED
  BY <1>1, <1>2

(* What is left of a route once the start is erased can be walked.            *)
LEMMA RouteRest ==
  ASSUME NEW a \in Points, NEW b \in Points
  PROVE  Rest(Route[a][b]) \in Seq(Points) /\ OnFoot(a, Rest(Route[a][b]))
<1>1. Route[a][b] \in Seq(Points)
  OBVIOUS
<1>2. OnFoot(a, Route[a][b]) /\ (Route[a][b] # <<>> => Route[a][b][1] = a)
  OBVIOUS
<1>3. QED
  BY <1>1, <1>2, RestType, RestOnFoot

(* --------------------------- one frame's movement ------------------------- *)

(* Walk keeps the types: its path is not empty, so its front is a point.      *)
LEMMA WalkType ==
  ASSUME at \in Points, NEW s \in Seq(Points), s # <<>>, Walk(s)
  PROVE  path' \in Seq(Points) /\ velocity' \in Points \cup {None}
<1>1. NextPoint(s) \in Points
  BY DEF NextPoint
<1>2. QED
  BY <1>1, RestType DEF Walk

(* Walk leaves a path that can be walked, or leaves the waypoints whole.      *)
LEMMA WalkOnFoot ==
  ASSUME at \in Points, at' = at, NEW s \in Seq(Points), s # <<>>, Walk(s), OnFoot(at, s)
  PROVE  OnFoot(at', path')
<1>1. CASE NextPoint(s) = at
  <2>1. s[1] = at
    BY <1>1 DEF NextPoint
  <2>2. QED
    BY <1>1, <2>1, RestOnFoot DEF Walk
<1>2. CASE NextPoint(s) # at
  BY <1>2 DEF Walk
<1>3. QED
  BY <1>1, <1>2

(* A patrol that starts over either heads for its first waypoint, with all    *)
(* waypoints ahead, or stands at it.                                          *)
LEMMA WalkWaypoints ==
  ASSUME at \in Points, at' = at, Walk(Waypoints)
  PROVE  OnFoot(at', path') \/ path' = Waypoints
<1>1. CASE NextPoint(Waypoints) = at
  <2>1. Waypoints[1] = at
    BY <1>1 DEF NextPoint
  <2>2. OnFoot(at, Waypoints)
    BY <2>1 DEF OnFoot
  <2>3. QED
    BY <2>2, WalkOnFoot
<1>2. CASE NextPoint(Waypoints) # at
  BY <1>2 DEF Walk
<1>3. QED
  BY <1>1, <1>2

(* ------------------------------- the theorems ----------------------------- *)

(* FollowWaypoints, whatever path it starts from: it finds a path to walk.    *)
LEMMA FollowWaypointsStep ==
  ASSUME TypeOK, at' = at, NEW s \in Seq(Points), NEW following \in BOOLEAN,
         FollowWaypoints(s, following), OnFoot(at, s) \/ s = Waypoints
  PROVE  /\ path' \in Seq(Points)
         /\ velocity' \in Points \cup {None}
         /\ wasFollowing' \in BOOLEAN
         /\ OnFoot(at', path') \/ path' = Waypoints
<1> DEFINE done == following /\ s = <<>>
           left == IF done THEN Rest(Route[at][Waypoints[1]]) ELSE s
           way == IF left = <<>> THEN Waypoints ELSE left
<1>1. at \in Points /\ Waypoints[1] \in Points
  BY DEF TypeOK
<1>2. wasFollowing' = (following /\ ~done) /\ Walk(way)
  BY DEF FollowWaypoints
<1>3. left \in Seq(Points) /\ (OnFoot(at, left) \/ left = Waypoints)
  BY <1>1, RouteRest
<1>4. way \in Seq(Points) /\ way # <<>> /\ (OnFoot(at, way) \/ way = Waypoints)
  BY <1>3
<1> HIDE DEF done, left, way
<1>5. path' \in Seq(Points) /\ velocity' \in Points \cup {None}
  BY <1>1, <1>2, <1>4, WalkType
<1>6. OnFoot(at', path') \/ path' = Waypoints
  BY <1>1, <1>2, <1>4, WalkOnFoot, WalkWaypoints
<1>7. wasFollowing' \in BOOLEAN
  BY <1>2
<1>8. QED
  BY <1>5, <1>6, <1>7

(* FollowPlayer: a route that can be walked, or none and the guard stands.    *)
LEMMA FollowPlayerStep ==
  ASSUME TypeOK, at' = at, NEW person \in Points, FollowPlayer(person)
  PROVE  /\ path' \in Seq(Points)
         /\ velocity' \in Points \cup {None}
         /\ wasFollowing' \in BOOLEAN
         /\ OnFoot(at', path') \/ path' = Waypoints
<1> DEFINE route == Rest(Route[at][person])
<1>1. at \in Points
  BY DEF TypeOK
<1>2. route \in Seq(Points) /\ OnFoot(at, route)
  BY <1>1, RouteRest
<1>3. CASE route = <<>>
  BY <1>3 DEF FollowPlayer, OnFoot
<1>4. CASE route # <<>>
  <2>1. Walk(route) /\ wasFollowing' = TRUE
    BY <1>4 DEF FollowPlayer
  <2>2. QED
    BY <1>1, <1>2, <1>4, <2>1, WalkType, WalkOnFoot
<1>5. QED
  BY <1>3, <1>4

Inv == TypeOK /\ PathOnFoot

(* The guard starts at its first waypoint with all of them ahead.             *)
LEMMA InvInit == Init => Inv
<1>1. Waypoints[1] \in Points
  OBVIOUS
<1>2. Init => TypeOK
  BY <1>1 DEF Init, TypeOK
<1>3. QED
  BY <1>2 DEF Init, Inv, PathOnFoot

(* Every step of a frame and every disturbance keeps both parts.              *)
LEMMA InvNext == Inv /\ [Next]_vars => Inv'
<1> SUFFICES ASSUME Inv, [Next]_vars PROVE Inv'
  OBVIOUS
<1> USE DEF Inv
<1>1. CASE Update
  <2>1. at' = at /\ phase' = "physics" /\ alarmed' = alarmed
    BY <1>1 DEF Update
  <2>2. CASE Hear
    <3>1. FollowWaypoints(Rest(Route[at][sound]), TRUE)
      BY <2>2 DEF Hear
    <3>2. at \in Points /\ sound \in Points
      BY DEF TypeOK
    <3>3. Rest(Route[at][sound]) \in Seq(Points) /\ OnFoot(at, Rest(Route[at][sound]))
      BY <3>2, RouteRest
    <3>4. /\ path' \in Seq(Points) /\ velocity' \in Points \cup {None}
          /\ wasFollowing' \in BOOLEAN
          /\ OnFoot(at', path') \/ path' = Waypoints
      BY <2>1, <3>1, <3>3, FollowWaypointsStep
    <3>5. QED
      BY <2>1, <2>2, <3>4 DEF Hear, TypeOK, PathOnFoot
  <2>3. CASE See
    <3>1. PICK person \in Points : FollowPlayer(person)
      BY <2>3 DEF See
    <3>2. /\ path' \in Seq(Points) /\ velocity' \in Points \cup {None}
          /\ wasFollowing' \in BOOLEAN
          /\ OnFoot(at', path') \/ path' = Waypoints
      BY <2>1, <3>1, FollowPlayerStep
    <3>3. QED
      BY <2>1, <2>3, <3>2 DEF See, TypeOK, PathOnFoot
  <2>4. CASE Patrol
    <3>1. FollowWaypoints(path, wasFollowing)
      BY <2>4 DEF Patrol
    <3>2. /\ path \in Seq(Points) /\ wasFollowing \in BOOLEAN
          /\ OnFoot(at, path) \/ path = Waypoints
      BY DEF TypeOK, PathOnFoot
    <3>3. /\ path' \in Seq(Points) /\ velocity' \in Points \cup {None}
          /\ wasFollowing' \in BOOLEAN
          /\ OnFoot(at', path') \/ path' = Waypoints
      BY <2>1, <3>1, <3>2, FollowWaypointsStep
    <3>4. QED
      BY <2>1, <2>4, <3>3 DEF Patrol, senses, TypeOK, PathOnFoot
  <2>5. QED
    BY <1>1, <2>2, <2>3, <2>4 DEF Update
<1>2. CASE OnTheWay
  BY <1>2 DEF OnTheWay, senses, TypeOK, PathOnFoot
<1>3. CASE Arrive
  <2>1. /\ path # <<>> /\ at' = path[1] /\ path' = path
        /\ phase' = "update" /\ UNCHANGED <<velocity, wasFollowing, senses, alarmed>>
    BY <1>3 DEF Arrive
  <2>2. path[1] \in Points
    BY <2>1, SMTT(60) DEF TypeOK
  <2>3. TypeOK'
    BY <2>1, <2>2 DEF TypeOK, senses
  <2>4. OnFoot(at', path') \/ path' = Waypoints
    BY <2>1, <2>2 DEF PathOnFoot, OnFoot
  <2>5. QED
    BY <2>3, <2>4 DEF PathOnFoot
<1>4. CASE HeardSound
  BY <1>4 DEF HeardSound, TypeOK, PathOnFoot
<1>5. CASE SetPath
  <2>1. PICK person \in Alarms : path' = Route[at][person]
    BY <1>5 DEF SetPath
  <2>2. at \in Points /\ person \in Points
    BY DEF TypeOK
  <2>3. path' \in Seq(Points) /\ OnFoot(at, path')
    BY <2>1, <2>2
  <2>4. QED
    BY <1>5, <2>3 DEF SetPath, senses, TypeOK, PathOnFoot
<1>6. CASE UNCHANGED vars
  BY <1>6 DEF vars, senses, TypeOK, PathOnFoot
<1>7. QED
  BY <1>1, <1>2, <1>3, <1>4, <1>5, <1>6 DEF Next

(* The types are kept; above all, Update never walks towards the garbage in   *)
(* front of an empty path.                                                    *)
THEOREM TypeCorrect == Spec => []TypeOK
<1>1. Inv => TypeOK
  BY DEF Inv
<1>2. QED
  BY <1>1, InvInit, InvNext, PTL DEF Spec

(* Whatever interrupts a guard, the path ahead can be walked, except at the   *)
(* start of a patrol.                                                         *)
THEOREM PathsCorrect == Spec => []PathOnFoot
<1>1. Inv => PathOnFoot
  BY DEF Inv
<1>2. QED
  BY <1>1, InvInit, InvNext, PTL DEF Spec

(* --------------------------- before the first alarm ----------------------- *)

(* Where a path ends, which is here if it is used up.                         *)
End(points) == IF points = <<>> THEN at ELSE points[Len(points)]
Ends == {Waypoints[1], Waypoints[Len(Waypoints)]}

(* Erasing a first point that is here does not change where a path ends.      *)
LEMMA RestEnd ==
  ASSUME NEW s \in Seq(Points), s # <<>>, s[1] = at
  PROVE  End(Rest(s)) = s[Len(s)]
<1>1. /\ Rest(s) = Tail(s)
      /\ Tail(s) \in Seq(Points)
      /\ Len(Tail(s)) = Len(s) - 1
      /\ Len(s) \in Nat \ {0}
  BY DEF Rest
<1>2. \A i \in 1..Len(Tail(s)) : Tail(s)[i] = s[i + 1]
  BY <1>1
<1>3. CASE Tail(s) = <<>>
  <2>1. Len(s) = 1
    <3>1. Len(Tail(s)) = 0
      BY <1>1, <1>3, EmptySeq
    <3>2. \A n \in Nat : n - 1 = 0 => n = 1
      OBVIOUS
    <3>3. QED
      BY <1>1, <3>1, <3>2
  <2>2. QED
    BY <1>1, <1>3, <2>1 DEF End
<1>4. CASE Tail(s) # <<>>
  <2>1. Len(Tail(s)) # 0 /\ Len(Tail(s)) \in Nat
    BY <1>1, <1>4, EmptySeq
  <2>2. Len(Tail(s)) \in 1..Len(Tail(s)) /\ Len(Tail(s)) + 1 = Len(s)
    <3>1. \A n \in Nat : n # 0 => n \in 1..n
      OBVIOUS
    <3>2. \A n \in Nat \ {0} : (n - 1) + 1 = n
      OBVIOUS
    <3>3. QED
      BY <1>1, <2>1, <3>1, <3>2
  <2>3. Tail(s)[Len(Tail(s))] = s[Len(s)]
    BY <1>2, <2>2
  <2>4. QED
    BY <1>1, <1>4, <2>3 DEF End
<1>5. QED
  BY <1>3, <1>4

(* Walk keeps to the mesh and does not change where the path ends.            *)
LEMMA WalkEnd ==
  ASSUME NEW mesh \in SUBSET Points, at \in mesh, at' = at,
         NEW s \in Seq(mesh), s # <<>>, OnFoot(at, s), Walk(s)
  PROVE  path' \in Seq(mesh) /\ OnFoot(at', path') /\ End(path') = End(s)
<1>1. s \in Seq(Points) /\ at \in Points
  OBVIOUS
<1>2. OnFoot(at', path')
  BY <1>1, WalkOnFoot
<1>3. CASE NextPoint(s) = at
  <2>1. s[1] = at /\ path' = Rest(s)
    BY <1>3 DEF NextPoint, Walk
  <2>2. End(path') = End(s)
    BY <1>1, <2>1, RestEnd DEF End
  <2>3. path' \in Seq(mesh)
    BY <2>1 DEF Rest
  <2>4. QED
    BY <1>2, <2>2, <2>3
<1>4. CASE NextPoint(s) # at
  BY <1>2, <1>4 DEF Walk
<1>5. QED
  BY <1>3, <1>4

(* The way back from any point of the mesh ends at the first waypoint.        *)
LEMMA WayBack ==
  ASSUME NEW mesh, Connected(mesh), at \in mesh
  PROVE  LET left == Rest(Route[at][Waypoints[1]])
         IN  left \in Seq(mesh) /\ OnFoot(at, left) /\ End(left) = Waypoints[1]
<1> DEFINE way == Route[at][Waypoints[1]]
<1>1. at \in Points /\ Waypoints[1] \in Points
  BY DEF Connected
<1>2. way \in Seq(mesh) /\ way # <<>> /\ way[Len(way)] = Waypoints[1]
  BY <1>1 DEF Connected
<1>3. way \in Seq(Points) /\ way[1] = at
  BY <1>1, <1>2
<1>4. OnFoot(at, Rest(way))
  BY <1>1, RouteRest
<1> HIDE DEF way
<1>5. Rest(way) \in Seq(mesh)
  BY <1>2 DEF Rest
<1>6. End(Rest(way)) = Waypoints[1]
  BY <1>2, <1>3, RestEnd
<1>7. QED
  BY <1>4, <1>5, <1>6 DEF way

(* A patrol that has ended at one of its ends can start over on foot.         *)
LEMMA StartOver ==
  ASSUME at \in Ends
  PROVE  OnFoot(at, Waypoints) /\ End(Waypoints) \in Ends
<1>1. Waypoints # <<>> /\ Waypoints[1] \in Points
  OBVIOUS
<1>2. End(Waypoints) \in Ends
  BY <1>1 DEF End, Ends
<1>3. OnFoot(Waypoints[Len(Waypoints)], Waypoints)
  OBVIOUS
<1>4. at \in {Waypoints[1], Waypoints[Len(Waypoints)]} => <<at, Waypoints[1]>> \in Walkable
  <2>1. CASE at = Waypoints[1]
    BY <1>1, <2>1
  <2>2. CASE at = Waypoints[Len(Waypoints)]
    BY <1>1, <1>3, <2>2 DEF OnFoot
  <2>3. QED
    BY <2>1, <2>2
<1>5. QED
  BY <1>2, <1>3, <1>4 DEF Ends, OnFoot

(* Before an alarm the guard keeps to its part of the mesh, and a path that   *)
(* is not followed back later ends where the round can be taken up.           *)
Undisturbed(mesh) ==
  /\ at \in mesh
  /\ path \in Seq(mesh)
  /\ OnFoot(at, path)
  /\ wasFollowing \in BOOLEAN
  /\ ~wasFollowing => End(path) \in Ends

LEMMA FollowOnFoot ==
  ASSUME NEW mesh, Connected(mesh), at \in mesh, at' = at,
         NEW s \in Seq(mesh), NEW following \in BOOLEAN, OnFoot(at, s),
         ~following => End(s) \in Ends, FollowWaypoints(s, following)
  PROVE  Undisturbed(mesh)'
<1> DEFINE done == following /\ s = <<>>
           left == IF done THEN Rest(Route[at][Waypoints[1]]) ELSE s
           way == IF left = <<>> THEN Waypoints ELSE left
           still == following /\ ~done
<1>1. wasFollowing' = still /\ Walk(way)
  BY DEF FollowWaypoints
<1>2. /\ left \in Seq(mesh) /\ OnFoot(at, left)
      /\ ~still => End(left) \in Ends
  BY WayBack DEF Ends
<1>3. left = <<>> => ~still
  OBVIOUS
<1>4. Waypoints \in Seq(mesh) /\ Waypoints # <<>>
  BY DEF Connected
<1> HIDE DEF done, left, still
<1>5. way \in Seq(mesh) /\ way # <<>>
  BY <1>2, <1>4
<1>6. OnFoot(at, way) /\ (~still => End(way) \in Ends)
  <2>1. CASE left = <<>>
    <3>1. at \in Ends
      BY <1>2, <1>3, <2>1 DEF End
    <3>2. QED
      BY <2>1, <3>1, StartOver
  <2>2. CASE left # <<>>
    <3>1. way = left
      BY <2>2
    <3>2. QED
      BY <1>2, <3>1
  <2>3. QED
    BY <2>1, <2>2
<1> HIDE DEF way
<1>7. path' \in Seq(mesh) /\ OnFoot(at', path') /\ End(path') = End(way)
  <2>1. mesh \in SUBSET Points
    BY DEF Connected
  <2>2. QED
    BY <1>1, <1>5, <1>6, <2>1, WalkEnd
<1>8. End(path)' = End(path')
  BY DEF End
<1>9. QED
  BY <1>1, <1>6, <1>7, <1>8 DEF Undisturbed, still, done

(* The part of the route to any point that is left to walk.                   *)
LEMMA RouteInMesh ==
  ASSUME NEW mesh, Connected(mesh), NEW a \in mesh, NEW b \in Points
  PROVE  Rest(Route[a][b]) \in Seq(mesh) /\ OnFoot(a, Rest(Route[a][b]))
<1>1. a \in Points /\ Route[a][b] \in Seq(mesh)
  BY DEF Connected
<1>2. QED
  BY <1>1, RouteRest DEF Rest

Calm(mesh) == TypeOK /\ (alarmed \/ Undisturbed(mesh))

LEMMA CalmInit == ASSUME NEW mesh, Connected(mesh) PROVE Init => Calm(mesh)
<1>1. Waypoints \in Seq(mesh) /\ Waypoints # <<>>
  BY DEF Connected
<1>2. Waypoints[1] \in mesh
  BY <1>1
<1>3. Init => TypeOK
  BY InvInit DEF Inv
<1>4. SUFFICES ASSUME Init PROVE Undisturbed(mesh)
  BY <1>3 DEF Calm
<1>5. at = Waypoints[1] /\ path = Waypoints /\ wasFollowing = FALSE
  BY <1>4 DEF Init
<1>6. OnFoot(at, Waypoints) /\ End(Waypoints) \in Ends
  BY <1>5, StartOver DEF Ends
<1>7. QED
  BY <1>1, <1>2, <1>5, <1>6 DEF Undisturbed

(* Alarms apart, every step leaves the guard on its part of the mesh.         *)
LEMMA CalmNext ==
  ASSUME NEW mesh, Connected(mesh), Calm(mesh), TypeOK', [Next]_vars PROVE Calm(mesh)'
<1>1. CASE alarmed
  <2>1. alarmed'
    BY <1>1 DEF Next, Update, OnTheWay, Arrive, HeardSound, SetPath, vars
  <2>2. QED
    BY <2>1 DEF Calm
<1>2. CASE ~alarmed
  <2>1. /\ TypeOK /\ at \in mesh /\ path \in Seq(mesh) /\ OnFoot(at, path)
        /\ wasFollowing \in BOOLEAN /\ (~wasFollowing => End(path) \in Ends)
    BY <1>2 DEF Calm, Undisturbed
  <2>2. CASE Update
    <3>1. at' = at
      BY <2>2 DEF Update
    <3>2. CASE Hear
      <4>1. sound \in Points
        BY <2>1 DEF TypeOK
      <4>2. FollowWaypoints(Rest(Route[at][sound]), TRUE)
        BY <3>2 DEF Hear
      <4>3. Rest(Route[at][sound]) \in Seq(mesh) /\ OnFoot(at, Rest(Route[at][sound]))
        BY <2>1, <4>1, RouteInMesh
      <4>4. Undisturbed(mesh)'
        BY <2>1, <3>1, <4>2, <4>3, FollowOnFoot
      <4>5. QED
        BY <4>4 DEF Calm
    <3>3. CASE See
      <4>1. PICK person \in Points : FollowPlayer(person)
        BY <3>3 DEF See
      <4> DEFINE route == Rest(Route[at][person])
      <4>2. route \in Seq(mesh) /\ OnFoot(at, route) /\ mesh \in SUBSET Points
        BY <2>1, RouteInMesh DEF Connected
      <4>3. wasFollowing' = TRUE
        BY <4>1 DEF FollowPlayer
      <4>4. path' \in Seq(mesh) /\ OnFoot(at', path')
        <5>1. CASE route = <<>>
          BY <3>1, <4>1, <4>2, <5>1 DEF FollowPlayer, OnFoot
        <5>2. CASE route # <<>>
          <6>1. Walk(route)
            BY <4>1, <5>2 DEF FollowPlayer
          <6> HIDE DEF route
          <6>2. QED
            BY <2>1, <3>1, <4>2, <5>2, <6>1, WalkEnd
        <5>3. QED
          BY <5>1, <5>2
      <4>5. QED
        BY <2>1, <3>1, <4>3, <4>4 DEF Calm, Undisturbed
    <3>4. CASE Patrol
      <4>1. FollowWaypoints(path, wasFollowing)
        BY <3>4 DEF Patrol
      <4>2. Undisturbed(mesh)'
        BY <2>1, <3>1, <4>1, FollowOnFoot
      <4>3. QED
        BY <4>2 DEF Calm
    <3>5. QED
      BY <2>2, <3>2, <3>3, <3>4 DEF Update
  <2>3. CASE OnTheWay \/ HeardSound \/ UNCHANGED vars
    <3>1. UNCHANGED <<at, path, wasFollowing>>
      BY <2>3 DEF OnTheWay, HeardSound, vars
    <3>2. End(path)' = End(path)
      BY <3>1 DEF End
    <3>3. QED
      BY <2>1, <3>1, <3>2 DEF Calm, Undisturbed
  <2>4. CASE Arrive
    <3>1. /\ path # <<>> /\ at' = path[1] /\ path' = path /\ wasFollowing' = wasFollowing
      BY <2>4 DEF Arrive
    <3>2. path[1] \in mesh /\ mesh \subseteq Points
      <4>1. \A q \in Seq(mesh) : q # <<>> => q[1] \in mesh
        OBVIOUS
      <4>2. QED
        BY <2>1, <3>1, <4>1 DEF Connected
    <3>3. OnFoot(at', path')
      BY <2>1, <3>1, <3>2 DEF OnFoot
    <3>4. End(path)' = End(path)
      BY <3>1 DEF End
    <3>5. QED
      BY <2>1, <3>1, <3>2, <3>3, <3>4 DEF Calm, Undisturbed
  <2>5. CASE SetPath
    BY <2>5 DEF SetPath, Calm
  <2>6. QED
    BY <2>2, <2>3, <2>4, <2>5 DEF Next
<1>3. QED
  BY <1>1, <1>2

(* Before the first alarm a guard never takes a way that is not on foot, if   *)
(* its round lies in a part of the mesh that is connected: whatever it has    *)
(* pursued or heard, wherever a route is missing, it finds back.              *)
LEMMA NoShortcutTaken ==
  ASSUME NEW mesh, Connected(mesh) PROVE Spec => []NoShortcut
<1>1. Init => Calm(mesh)
  BY CalmInit
<1>2. Calm(mesh) /\ TypeOK' /\ [Next]_vars => Calm(mesh)'
  BY CalmNext
<1>3. Calm(mesh) => NoShortcut
  BY DEF Calm, Undisturbed, NoShortcut
<1>4. QED
  BY <1>1, <1>2, <1>3, TypeCorrect, PTL DEF Spec

(* ------------------------------- in its room ------------------------------ *)

(* What the lasers and the camera of a room do to a guard are alarms of the   *)
(* kind Guard.tla admits at any time: all its theorems hold in a room.        *)
THEOREM RoomIsGuarded == RoomSpec => Spec
<1>1. RoomInit => Init
  BY DEF RoomInit
<1>2. [RoomNext]_roomVars => [Next]_vars
  <2> SUFFICES ASSUME [RoomNext]_roomVars PROVE [Next]_vars
    OBVIOUS
  <2>1. CASE Scan
    BY <2>1 DEF Scan, Alarm, Next
  <2>2. CASE Touch
    BY <2>2 DEF Touch, Alarm, Next
  <2>3. CASE GuardUpdate
    BY <2>3 DEF GuardUpdate, Next
  <2>4. CASE Physics(OnTheWay) \/ Physics(Arrive)
    BY <2>4 DEF Physics, Next
  <2>5. CASE Noise
    BY <2>5 DEF Noise, Next
  <2>6. CASE UNCHANGED roomVars
    BY <2>6 DEF roomVars
  <2>7. QED
    BY <2>1, <2>2, <2>3, <2>4, <2>5, <2>6 DEF RoomNext
<1>3. QED
  BY <1>1, <1>2, PTL DEF RoomSpec, Spec

(* In a room with lasers and cameras the path ahead can be walked, except at  *)
(* the start of a patrol.                                                     *)
THEOREM PathsInRoom == RoomSpec => []PathOnFoot
BY RoomIsGuarded, PathsCorrect, PTL

(* ... and that only after an alarm, if the round lies in a connected part of *)
(* the mesh; and the guard never walks towards what is in front of an empty   *)
(* path.                                                                      *)
THEOREM FloorKept ==
  ASSUME NEW mesh, Connected(mesh) PROVE RoomSpec => []KeepsToFloor
<1>1. Spec => []NoShortcut
  BY NoShortcutTaken
<1>2. TypeOK => NoGarbage
  BY DEF TypeOK, NoGarbage
<1>3. PathOnFoot /\ NoShortcut /\ NoGarbage => KeepsToFloor
  BY DEF KeepsToFloor
<1>4. QED
  BY <1>1, <1>2, <1>3, RoomIsGuarded, PathsInRoom, TypeCorrect, PTL

(* The lights are told by the laser that updates them last, so they are red   *)
(* after a frame only if that one pulses on.                                  *)
LightsInv ==
  /\ pulse \in [Beams -> BOOLEAN]
  /\ LightsTell

LEMMA LightsInit == RoomInit => LightsInv
BY DEF RoomInit, BeamsInit, LightsInv, LightsTell

LEMMA LightsStep == ASSUME LightsInv, NEW step, Lights(step) PROVE LightsInv'
<1> DEFINE active == {b \in Beams : ~Delayed(b) /\ pulse[b]}
           over == {b \in active : lightTime[b] + step > PulseTime}
<1>1. /\ pulse' = [b \in Beams |-> pulse[b] /\ b \notin over]
      /\ red' = IF active = {} THEN red ELSE \E b \in active \ over : \A c \in active : c <= b
  BY DEF Lights
<1>2. pulse' \in [Beams -> BOOLEAN]
  BY <1>1 DEF LightsInv
<1>3. ASSUME red' PROVE \E b \in Beams : pulse'[b]
  <2>1. CASE active = {}
    <3>1. PICK b \in Beams : pulse[b]
      BY <1>1, <1>3, <2>1 DEF LightsInv, LightsTell
    <3>2. b \notin over
      BY <2>1
    <3>3. QED
      BY <1>1, <3>1, <3>2
  <2>2. CASE active # {}
    <3>1. PICK b \in active \ over : \A c \in active : c <= b
      BY <1>1, <1>3, <2>2
    <3>2. QED
      BY <1>1, <3>1
  <2>3. QED
    BY <2>1, <2>2
<1>4. QED
  BY <1>2, <1>3 DEF LightsInv, LightsTell

LEMMA LightsNext == LightsInv /\ [RoomNext]_roomVars => LightsInv'
<1> SUFFICES ASSUME LightsInv, [RoomNext]_roomVars PROVE LightsInv'
  OBVIOUS
<1>1. CASE Scan
  <2>1. PICK step \in FrameTimes : Lights(step)
    BY <1>1 DEF Scan, UpdateBeams
  <2>2. QED
    BY <2>1, LightsStep
<1>2. CASE Touch
  <2>1. PICK b \in Beams : pulse' = [pulse EXCEPT ![b] = TRUE] /\ red' = red
    BY <1>2 DEF Touch, TouchBeam
  <2>2. pulse' \in [Beams -> BOOLEAN] /\ pulse'[b]
    BY <2>1 DEF LightsInv
  <2>3. QED
    BY <2>2 DEF LightsInv, LightsTell
<1>3. CASE UNCHANGED beamVars
  BY <1>3 DEF beamVars, LightsInv, LightsTell
<1>4. QED
  BY <1>1, <1>2, <1>3 DEF RoomNext, GuardUpdate, Physics, Noise, roomVars

(* However the pulses of the lasers of a room overlap, its lights are never   *)
(* red without a laser that pulses and will end it.                           *)
THEOREM LightsCorrect == RoomSpec => []LightsTell
<1>1. LightsInv => LightsTell
  BY DEF LightsInv
<1>2. QED
  BY <1>1, LightsInit, LightsNext, PTL DEF RoomSpec

(* What two lasers that take turns are to each other.  While the second is    *)
(* delayed the first counts what the delay has lost.  Then the one that is to *)
(* change over next, the first if both are lit or both are dark, has waited   *)
(* at least as long as the other, so that it is not overtaken.                *)
Waits(a, b) == delay[b] > 0 /\ timer[a] + delay[b] = Interval[a] /\ timer[b] = 0 /\ ~lit[a] /\ ~lit[b]

FirstIsNext(a, b) == delay[b] = 0 /\ (lit[a] <=> lit[b]) /\ timer[b] <= timer[a]

SecondIsNext(a, b) == delay[b] = 0 /\ (lit[a] <=> ~lit[b]) /\ timer[a] <= timer[b]

Turns(a, b) ==
  /\ delay[a] = 0
  /\ delay[b] \in Nat
  /\ timer[a] \in 0..Interval[a]
  /\ timer[b] \in 0..Interval[a]
  /\ lit[a] \in BOOLEAN
  /\ lit[b] \in BOOLEAN
  /\ Waits(a, b) \/ FirstIsNext(a, b) \/ SecondIsNext(a, b)

TurnsInv == \A a, b \in Beams : Paired(a, b) => Turns(a, b)

(* The step TakeTurns allows two lasers.                                      *)
InTurn(a, b) ==
  /\ (lit[a] <=> lit[b]) /\ lit'[b] # lit[b] => lit'[a] # lit[a]
  /\ (lit[a] <=> ~lit[b]) /\ lit'[a] # lit[a] => lit'[b] # lit[b]
  /\ (lit[a] <=> ~lit[b]) /\ timer[a] = timer[b] => (lit'[a] <=> ~lit'[b])

LEMMA TurnsInit == RoomInit => TurnsInv
<1> SUFFICES ASSUME RoomInit, NEW a \in Beams, NEW b \in Beams, Paired(a, b) PROVE Turns(a, b)
  BY DEF TurnsInv
<1>1. Interval[a] \in Int /\ Delay[a] = 0 /\ Delay[b] = Interval[a] /\ Interval[a] > 0
  BY BeamsAssumption DEF Paired
<1>2. delay[a] = Delay[a] /\ delay[b] = Delay[b] /\ timer[a] = 0 /\ timer[b] = 0 /\ ~lit[a] /\ ~lit[b]
      /\ lit[a] \in BOOLEAN /\ lit[b] \in BOOLEAN
  BY DEF RoomInit, BeamsInit
<1>3. QED
  BY <1>1, <1>2 DEF Turns, Waits

(* One update of the two, in a frame of any length.                           *)
LEMMA TurnsScan ==
  ASSUME NEW a \in Beams, NEW b \in Beams, Paired(a, b), Turns(a, b),
         NEW step \in Nat, Timers(step)
  PROVE  Turns(a, b)' /\ InTurn(a, b)
<1> DEFINE n == Interval[a]
           dueA == timer[a] + step > n
           dueB == delay[b] = 0 /\ timer[b] + step > n
<1>1. n \in Nat \ {0} /\ Interval[b] = n
  BY BeamsAssumption DEF Paired
<1>2. delay'[a] = 0 /\ delay'[b] = IF delay[b] > step THEN delay[b] - step ELSE 0
  BY DEF Timers, Turns
<1>3. /\ timer'[a] = IF dueA THEN 0 ELSE timer[a] + step
      /\ timer'[b] = IF delay[b] > 0 THEN timer[b] ELSE IF dueB THEN 0 ELSE timer[b] + step
  BY <1>1, SMTT(60) DEF Timers, Turns, Delayed
<1>4. lit'[a] = (lit[a] # dueA) /\ lit'[b] = (lit[b] # dueB)
  BY <1>1, SMTT(60) DEF Timers, Turns, Delayed
<1>5. /\ dueA => (lit'[a] <=> ~lit[a])
      /\ ~dueA => (lit'[a] <=> lit[a])
      /\ dueB => (lit'[b] <=> ~lit[b])
      /\ ~dueB => (lit'[b] <=> lit[b])
  <2>1. lit[a] \in BOOLEAN /\ lit[b] \in BOOLEAN /\ dueA \in BOOLEAN /\ dueB \in BOOLEAN
    BY DEF Turns
  <2> HIDE DEF dueA, dueB
  <2>2. QED
    BY <1>4, <2>1
<1>6. lit'[a] \in BOOLEAN /\ lit'[b] \in BOOLEAN
  BY <1>4
<1>7. /\ step \in Nat /\ delay[b] \in Nat /\ timer[a] \in Nat /\ timer[b] \in Nat
      /\ timer[a] <= n /\ timer[b] <= n /\ lit[a] \in BOOLEAN /\ lit[b] \in BOOLEAN
  BY <1>1 DEF Turns
<1>8. delay'[b] \in Nat
  BY <1>2, <1>7
<1>9. timer'[a] \in 0..n
  <2>1. CASE dueA
    BY <1>1, <1>3, <2>1
  <2>2. CASE ~dueA
    <3>1. timer'[a] = timer[a] + step
      BY <1>3, <2>2
    <3>2. timer[a] + step <= n
      BY <1>1, <1>7, <2>2
    <3>3. QED
      BY <1>1, <1>7, <3>1, <3>2
  <2>3. QED
    BY <2>1, <2>2
<1>10. timer'[b] \in 0..n
  <2>1. CASE delay[b] > 0
    <3>1. timer'[b] = timer[b]
      BY <1>3, <2>1
    <3>2. QED
      BY <1>1, <1>7, <3>1
  <2>2. CASE ~(delay[b] > 0) /\ dueB
    BY <1>1, <1>3, <2>2
  <2>3. CASE ~(delay[b] > 0) /\ ~dueB
    <3>1. timer'[b] = timer[b] + step
      BY <1>3, <2>3
    <3>2. timer[b] + step <= n
      BY <1>1, <1>7, <2>3
    <3>3. QED
      BY <1>1, <1>7, <3>1, <3>2, SMTT(60)
  <2>4. QED
    BY <2>1, <2>2, <2>3
<1>11. Waits(a, b)' \/ FirstIsNext(a, b)' \/ SecondIsNext(a, b)' => Turns(a, b)'
  BY <1>2, <1>6, <1>8, <1>9, <1>10 DEF Turns
<1>12. CASE Waits(a, b)
  <2>1. timer[a] + delay[b] = n /\ delay[b] > 0 /\ timer'[b] = 0 /\ ~lit[a] /\ ~lit[b] /\ ~lit'[b]
    BY <1>3, <1>5, <1>7, <1>12 DEF Waits
  <2>2. InTurn(a, b)
    BY <1>6, <1>7, <2>1 DEF InTurn
  <2>3. CASE delay[b] > step
    <3>1. delay'[b] = delay[b] - step
      BY <1>2, <2>3
    <3>2. delay'[b] > 0
      BY <1>7, <2>3, <3>1
    <3>3. timer[a] + step <= n
      BY <1>1, <1>7, <2>1, <2>3
    <3>4. ~dueA
      BY <1>1, <1>7, <3>3
    <3>5. timer'[a] = timer[a] + step
      BY <1>3, <3>4
    <3>6. timer'[a] + delay'[b] = n
      BY <1>1, <1>7, <2>1, <3>1, <3>5
    <3>7. ~lit'[a]
      BY <1>5, <2>1, <3>4
    <3>8. Waits(a, b)'
      BY <2>1, <3>2, <3>6, <3>7 DEF Waits
    <3>9. QED
      BY <1>11, <2>2, <3>8
  <2>4. CASE delay[b] = step
    <3>1. delay'[b] = 0
      BY <1>2, <1>7, <2>4
    <3>2. timer[a] + step = n
      BY <2>1, <2>4
    <3>3. ~dueA
      BY <1>1, <1>7, <3>2
    <3>4. timer'[a] = n
      BY <1>3, <3>2, <3>3
    <3>5. ~lit'[a]
      BY <1>5, <2>1, <3>3
    <3>6. timer'[b] <= timer'[a]
      BY <1>1, <2>1, <3>4
    <3>7. FirstIsNext(a, b)'
      BY <1>6, <2>1, <3>1, <3>5, <3>6 DEF FirstIsNext
    <3>8. QED
      BY <1>11, <2>2, <3>7
  <2>5. CASE delay[b] < step
    <3>1. delay'[b] = 0
      BY <1>2, <1>7, <2>5
    <3>2. dueA
      BY <1>1, <1>7, <2>1, <2>5
    <3>3. timer'[a] = 0 /\ lit'[a]
      BY <1>3, <1>5, <2>1, <3>2
    <3>4. timer'[a] <= timer'[b]
      BY <2>1, <3>3
    <3>5. SecondIsNext(a, b)'
      BY <1>6, <2>1, <3>1, <3>3, <3>4 DEF SecondIsNext
    <3>6. QED
      BY <1>11, <2>2, <3>5
  <2>6. QED
    BY <1>7, <2>3, <2>4, <2>5
<1>13. ASSUME delay[b] = 0
       PROVE  /\ delay'[b] = 0
              /\ dueA => timer'[a] = 0 /\ timer'[a] <= timer'[b]
              /\ dueB => timer'[b] = 0 /\ timer'[b] <= timer'[a]
              /\ ~dueA /\ ~dueB => timer'[a] = timer[a] + step /\ timer'[b] = timer[b] + step
  <2>1. delay'[b] = 0
    BY <1>2, <1>7, <1>13
  <2>2. dueA => timer'[a] = 0 /\ timer'[a] <= timer'[b]
    BY <1>1, <1>3, <1>10
  <2>3. ~(delay[b] > 0)
    BY <1>13
  <2>4. dueB => timer'[b] = 0 /\ timer'[b] <= timer'[a]
    BY <1>1, <1>3, <1>9, <2>3
  <2>5. ~dueA /\ ~dueB => timer'[a] = timer[a] + step /\ timer'[b] = timer[b] + step
    BY <1>3, <2>3
  <2>6. QED
    BY <2>1, <2>2, <2>4, <2>5
<1>14. CASE FirstIsNext(a, b)
  <2>1. delay[b] = 0 /\ (lit[a] <=> lit[b]) /\ timer[b] <= timer[a]
    BY <1>14 DEF FirstIsNext
  <2>2. dueB => dueA
    <3>1. timer[b] + step <= timer[a] + step
      BY <1>7, <2>1
    <3>2. timer[b] + step > n => timer[a] + step > n
      BY <1>1, <1>7, <3>1, SMTT(30)
    <3>3. QED
      BY <3>2
  <2>3. InTurn(a, b)
    BY <1>5, <1>6, <1>7, <2>1, <2>2 DEF InTurn
  <2>4. CASE dueA /\ dueB
    <3>1. (lit'[a] <=> lit'[b]) /\ timer'[b] <= timer'[a] /\ delay'[b] = 0
      BY <1>5, <1>6, <1>7, <1>13, <2>1, <2>4
    <3>2. QED
      BY <1>11, <2>3, <3>1 DEF FirstIsNext
  <2>5. CASE dueA /\ ~dueB
    <3>1. (lit'[a] <=> ~lit'[b]) /\ timer'[a] <= timer'[b] /\ delay'[b] = 0
      BY <1>5, <1>6, <1>7, <1>13, <2>1, <2>5
    <3>2. QED
      BY <1>11, <2>3, <3>1 DEF SecondIsNext
  <2>6. CASE ~dueA /\ ~dueB
    <3>1. (lit'[a] <=> lit'[b]) /\ delay'[b] = 0
      BY <1>5, <1>6, <1>7, <1>13, <2>1, <2>6
    <3>2. timer'[a] = timer[a] + step /\ timer'[b] = timer[b] + step
      BY <1>13, <2>1, <2>6
    <3>3. timer'[b] <= timer'[a]
      BY <1>7, <2>1, <3>2
    <3>4. QED
      BY <1>11, <2>3, <3>1, <3>3 DEF FirstIsNext
  <2>7. QED
    BY <2>2, <2>4, <2>5, <2>6
<1>15. CASE SecondIsNext(a, b)
  <2>1. delay[b] = 0 /\ (lit[a] <=> ~lit[b]) /\ timer[a] <= timer[b]
    BY <1>15 DEF SecondIsNext
  <2>2. dueA => dueB
    BY <1>1, <1>7, <2>1
  <2>3. timer[a] = timer[b] => (dueA <=> dueB)
    BY <2>1
  <2>4. InTurn(a, b)
    BY <1>5, <1>6, <1>7, <2>1, <2>2, <2>3 DEF InTurn
  <2>5. CASE dueA /\ dueB
    <3>1. (lit'[a] <=> ~lit'[b]) /\ timer'[a] <= timer'[b] /\ delay'[b] = 0
      BY <1>5, <1>6, <1>7, <1>13, <2>1, <2>5
    <3>2. QED
      BY <1>11, <2>4, <3>1 DEF SecondIsNext
  <2>6. CASE ~dueA /\ dueB
    <3>1. (lit'[a] <=> lit'[b]) /\ timer'[b] <= timer'[a] /\ delay'[b] = 0
      BY <1>5, <1>6, <1>7, <1>13, <2>1, <2>6
    <3>2. QED
      BY <1>11, <2>4, <3>1 DEF FirstIsNext
  <2>7. CASE ~dueA /\ ~dueB
    <3>1. (lit'[a] <=> ~lit'[b]) /\ delay'[b] = 0
      BY <1>5, <1>6, <1>7, <1>13, <2>1, <2>7
    <3>2. timer'[a] = timer[a] + step /\ timer'[b] = timer[b] + step
      BY <1>13, <2>1, <2>7
    <3>3. timer'[a] <= timer'[b]
      BY <1>7, <2>1, <3>2
    <3>4. QED
      BY <1>11, <2>4, <3>1, <3>3 DEF SecondIsNext
  <2>8. QED
    BY <2>2, <2>5, <2>6, <2>7
<1>16. QED
  BY <1>12, <1>14, <1>15 DEF Turns

LEMMA TurnsNext == TurnsInv /\ [RoomNext]_roomVars => TurnsInv'
<1> SUFFICES ASSUME TurnsInv, [RoomNext]_roomVars PROVE TurnsInv'
  OBVIOUS
<1>1. CASE Scan
  <2>1. PICK step \in FrameTimes : Timers(step)
    BY <1>1 DEF Scan, UpdateBeams
  <2>2. step \in Nat
    BY FramesAssumption
  <2>3. ASSUME NEW a \in Beams, NEW b \in Beams, Paired(a, b) PROVE Turns(a, b)'
    BY <2>1, <2>2, <2>3, TurnsScan DEF TurnsInv
  <2>4. QED
    BY <2>3 DEF TurnsInv, Paired
<1>2. CASE UNCHANGED <<delay, timer, lit>>
  BY <1>2 DEF TurnsInv, Paired, Turns, Waits, FirstIsNext, SecondIsNext
<1>3. QED
  BY <1>1, <1>2 DEF RoomNext, Touch, TouchBeam, GuardUpdate, Physics, Noise, roomVars, beamVars

(* Two lasers of one interval, the second delayed by as much, change over in  *)
(* turn, whatever the interval and whatever the lengths of the frames.        *)
THEOREM LasersTakeTurns == RoomSpec => TakeTurns
<1> DEFINE Alternate ==
      \A a, b \in Beams :
        Paired(a, b) =>
          (Scan => /\ (lit[a] <=> lit[b]) /\ lit'[b] # lit[b] => lit'[a] # lit[a]
                   /\ (lit[a] <=> ~lit[b]) /\ lit'[a] # lit[a] => lit'[b] # lit[b]
                   /\ (lit[a] <=> ~lit[b]) /\ timer[a] = timer[b] => (lit'[a] <=> ~lit'[b]))
<1>1. ASSUME TurnsInv PROVE Alternate
  <2>1. ASSUME NEW a \in Beams, NEW b \in Beams, Paired(a, b), Scan PROVE InTurn(a, b)
    <3>1. PICK step \in FrameTimes : Timers(step)
      BY <2>1 DEF Scan, UpdateBeams
    <3>2. step \in Nat
      BY FramesAssumption
    <3>3. QED
      BY <1>1, <2>1, <3>1, <3>2, TurnsScan DEF TurnsInv
  <2>2. QED
    BY <2>1 DEF InTurn
<1>2. TurnsInv => [Alternate]_roomVars
  BY <1>1
<1>3. QED
  BY <1>2, TurnsInit, TurnsNext, PTL DEF RoomSpec, TakeTurns

(* ----------------------------- where alarms lead -------------------------- *)

(* A guard that walks on does not leave the last point of its path unless it  *)
(* is there.                                                                  *)
LEMMA WalkStands ==
  ASSUME TypeOK, path # <<>>, path[Len(path)] # at, Walk(path)
  PROVE  path' # <<>> /\ path'[Len(path')] = path[Len(path)]
<1>1. CASE NextPoint(path) = at
  <2>1. path[1] = at /\ path' = Rest(path)
    BY <1>1 DEF NextPoint, Walk
  <2>2. End(path') = path[Len(path)]
    BY <2>1, RestEnd DEF TypeOK
  <2>3. QED
    BY <2>2 DEF End
<1>2. CASE NextPoint(path) # at
  BY <1>2 DEF Walk
<1>3. QED
  BY <1>1, <1>2

LEMMA AlarmNext == TypeOK /\ AlarmStands /\ [RoomNext]_roomVars => AlarmStands'
<1> SUFFICES ASSUME TypeOK, AlarmStands, [RoomNext]_roomVars PROVE AlarmStands'
  OBVIOUS
<1>1. CASE Alarm
  BY <1>1 DEF Alarm, SetPath, AlarmStands
<1>2. CASE GuardUpdate
  <2>1. CASE See \/ Hear
    BY <1>2, <2>1 DEF GuardUpdate, AlarmStands
  <2>2. CASE ~(See \/ Hear)
    <3>1. called' = called /\ at' = at /\ Patrol
      BY <1>2, <2>2 DEF GuardUpdate, Update
    <3>2. path # <<>> => Walk(path)
      BY <3>1 DEF Patrol, FollowWaypoints
    <3>3. QED
      BY <3>1, <3>2, WalkStands DEF AlarmStands
  <2>3. QED
    BY <2>1, <2>2
<1>3. CASE Physics(OnTheWay) \/ Physics(Arrive)
  <2>1. path' = path /\ called' = IF at' = called THEN None ELSE called
    BY <1>3 DEF Physics, OnTheWay, Arrive
  <2>2. QED
    BY <2>1 DEF AlarmStands
<1>4. CASE UNCHANGED <<at, path, called>>
  BY <1>4 DEF AlarmStands
<1>5. QED
  BY <1>1, <1>2, <1>3, <1>4
  DEF RoomNext, Scan, Touch, Noise, HeardSound, roomVars, vars

(* Whatever cameras and lasers do to a guard in whatever frames, it keeps on  *)
(* the way to where the last alarm has sent it until it gets there, sees the  *)
(* person or hears something.                                                 *)
THEOREM AlarmsStand == RoomSpec => []AlarmStands
<1>1. RoomInit => AlarmStands
  BY DEF RoomInit, AlarmStands
<1>2. QED
  BY <1>1, AlarmNext, RoomIsGuarded, TypeCorrect, PTL DEF RoomSpec

(* ------------------------------- the camera ------------------------------- *)

(* As long as no turn has been followed by a shorter frame, the camera on its *)
(* way to an end is beyond the other by less than the frame it turned in, and *)
(* only right after the turn: one step brings it back inside, so the end it   *)
(* comes from is not reached again.                                           *)
Swept ==
  /\ back => -YawLimit < yaw /\ yaw < YawLimit + turned
  /\ ~back => -(YawLimit + turned) < yaw /\ yaw < YawLimit

CameraInv ==
  /\ yaw \in Int
  /\ back \in BOOLEAN
  /\ turned \in Nat
  /\ slipped \in BOOLEAN
  /\ slipped \/ Swept

LEMMA CameraInit == RoomInit => CameraInv
<1> SUFFICES ASSUME RoomInit PROVE CameraInv
  OBVIOUS
<1>1. yaw = 0 /\ back = FALSE /\ turned = 0 /\ slipped = FALSE
  BY DEF RoomInit
<1>2. YawLimit \in Nat \ {0}
  BY FramesAssumption
<1>3. -(YawLimit + 0) < 0 /\ 0 < YawLimit
  BY <1>2
<1>4. back \in BOOLEAN /\ ~back /\ slipped \in BOOLEAN
  BY <1>1, Zenon
<1>5. yaw \in Int /\ turned \in Nat /\ -(YawLimit + turned) < yaw /\ yaw < YawLimit
  BY <1>1, <1>3
<1>6. QED
  BY <1>4, <1>5, Zenon DEF CameraInv, Swept

(* The camera's part of Scan.                                                 *)
CameraStep(step) ==
  /\ Sweep(step)
  /\ turned' = IF back' = back THEN 0 ELSE step
  /\ slipped' = (slipped \/ step < turned)

LEMMA CameraTypes ==
  ASSUME CameraInv, NEW step \in Nat, CameraStep(step)
  PROVE  yaw' \in Int /\ back' \in BOOLEAN /\ turned' \in Nat /\ slipped' \in BOOLEAN
<1>1. yaw' \in Int
  BY DEF CameraInv, CameraStep, Sweep
<1>2. back' \in BOOLEAN
  BY DEF CameraStep, Sweep
<1>3. turned' \in Nat
  BY DEF CameraStep
<1>4. slipped' \in BOOLEAN
  BY DEF CameraStep
<1>5. QED
  BY <1>1, <1>2, <1>3, <1>4

(* The turn it takes, and that it goes on within its bounds.                  *)
LEMMA CameraSweeps ==
  ASSUME CameraInv, NEW step \in Nat, CameraStep(step), ~slipped'
  PROVE  /\ back' <=> IF back THEN yaw' > -YawLimit ELSE yaw' >= YawLimit
         /\ Swept'
<1>1. YawLimit \in Nat \ {0} /\ yaw \in Int /\ turned \in Nat
  BY FramesAssumption DEF CameraInv
<1> DEFINE right == yaw' >= YawLimit
           left == yaw' <= -YawLimit
<1>2. back' = (back # (right \/ left))
  BY DEF CameraStep, Sweep
<1>3. ~slipped /\ ~(step < turned)
  BY DEF CameraStep
<1>4. Swept /\ turned <= step
  BY <1>1, <1>3 DEF CameraInv
<1>5. back' \in BOOLEAN /\ back \in BOOLEAN
  BY CameraTypes DEF CameraInv
<1>6. CASE back
  <2>1. yaw' = yaw - step /\ -YawLimit < yaw /\ yaw < YawLimit + turned
    BY <1>4, <1>6 DEF CameraStep, Sweep, Swept
  <2>2. ~right /\ yaw' \in Int /\ -(YawLimit + step) < yaw' /\ yaw' < YawLimit
    BY <1>1, <1>4, <2>1
  <2>3. left <=> ~(yaw' > -YawLimit)
    BY <1>1, <2>2
  <2>4. back' <=> ~left
    <3> HIDE DEF right, left
    <3>1. QED
      BY <1>2, <1>6, <2>2, Zenon
  <2>5. ~back' => turned' = step
    BY <1>6 DEF CameraStep
  <2>6. back' => turned' \in Nat /\ -YawLimit < yaw'
    BY <2>3, <2>4, CameraTypes
  <2>7. back' => -YawLimit < yaw' /\ yaw' < YawLimit + turned'
    BY <1>1, <2>2, <2>6
  <2>8. ~back' => -(YawLimit + turned') < yaw' /\ yaw' < YawLimit
    BY <2>2, <2>5
  <2>9. back' <=> yaw' > -YawLimit
    BY <1>5, <2>3, <2>4
  <2>10. QED
    BY <1>6, <2>7, <2>8, <2>9 DEF Swept
<1>7. CASE ~back
  <2>1. yaw' = yaw + step /\ -(YawLimit + turned) < yaw /\ yaw < YawLimit
    BY <1>4, <1>7 DEF CameraStep, Sweep, Swept
  <2>2. ~left /\ yaw' \in Int /\ -YawLimit < yaw' /\ yaw' < YawLimit + step
    BY <1>1, <1>4, <2>1
  <2>3. back' <=> right
    <3> HIDE DEF right, left
    <3>1. QED
      BY <1>2, <1>5, <1>7, <2>2, Zenon
  <2>4. back' => turned' = step
    BY <1>7 DEF CameraStep
  <2>5. ~back' => turned' \in Nat /\ yaw' < YawLimit
    BY <1>1, <2>2, <2>3, CameraTypes
  <2>6. ~back' => -(YawLimit + turned') < yaw' /\ yaw' < YawLimit
    BY <1>1, <2>2, <2>5
  <2>7. back' => -YawLimit < yaw' /\ yaw' < YawLimit + turned'
    BY <2>2, <2>4
  <2>8. QED
    BY <1>7, <2>3, <2>6, <2>7 DEF Swept
<1>8. QED
  BY <1>6, <1>7

LEMMA CameraNext == CameraInv /\ [RoomNext]_roomVars => CameraInv'
<1> SUFFICES ASSUME CameraInv, [RoomNext]_roomVars PROVE CameraInv'
  OBVIOUS
<1>1. CASE Scan
  <2>1. PICK step \in FrameTimes : CameraStep(step)
    BY <1>1 DEF Scan, CameraStep
  <2>2. step \in Nat
    BY FramesAssumption
  <2>3. slipped' \/ Swept'
    BY <2>1, <2>2, CameraSweeps
  <2>4. QED
    BY <2>1, <2>2, <2>3, CameraTypes DEF CameraInv
<1>2. CASE UNCHANGED camera
  BY <1>2 DEF CameraInv, Swept, camera
<1>3. QED
  BY <1>1, <1>2 DEF RoomNext, Touch, GuardUpdate, Physics, Noise, roomVars, camera

(* For any limit and frames of any lengths, the camera turns around where it  *)
(* should and never twice, until a turn is followed by a shorter frame.       *)
THEOREM CameraTurns == RoomSpec => TurnsAtEnds
<1> DEFINE AtItsEnd == slipped' \/ (back' <=> IF back THEN yaw' > -YawLimit ELSE yaw' >= YawLimit)
<1>1. ASSUME CameraInv, Scan PROVE AtItsEnd
  <2>1. PICK step \in FrameTimes : CameraStep(step)
    BY <1>1 DEF Scan, CameraStep
  <2>2. step \in Nat
    BY FramesAssumption
  <2>3. QED
    BY <1>1, <2>1, <2>2, CameraSweeps
<1>2. CameraInv => [Scan => AtItsEnd]_roomVars
  BY <1>1
<1>3. QED
  BY <1>2, CameraInit, CameraNext, PTL DEF RoomSpec, TurnsAtEnds
=============================================================================
