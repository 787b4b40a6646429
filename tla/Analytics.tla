------------------------------ MODULE Analytics ------------------------------
(* The events the game sends to its authors (src/src/Analytics.cpp).  Each    *)
(* event is an HttpRequest of the engine with a thread of its own; a list     *)
(* keeps the requests alive, since the destructor of a request waits for its  *)
(* thread.  The class has no lock: SendGameEvent and FlushEvents are steps    *)
(* of whichever thread calls them (see CrashReport).                          *)
EXTENDS Naturals, Sequences, FiniteSets

CONSTANT Ids   \* the requests, in the order in which they are made

VARIABLES
  requests,   \* requests_: the pointers in the list
  http,       \* what the thread of a request is doing
  deleted     \* the requests whose object is no more

analyticsVars == <<requests, http, deleted>>

Requests == {Ids[i] : i \in DOMAIN Ids}

Init ==
  /\ requests = <<>>
  /\ http = [r \in Requests |-> "none"]
  /\ deleted = {}

Made == {r \in Requests : http[r] # "none"}
NextRequest == Ids[Cardinality(Made) + 1]

(* Some pointer in the list points to a deleted object.                       *)
Dangling == \E i \in DOMAIN requests : requests[i] \in deleted

(* SendGameEvent until the new request runs.  A finished request (HTTP_ERROR, *)
(* HTTP_CLOSED) leaves the list without being released: Kept[n] is what the   *)
(* loop has left of the first n.                                              *)
Kept[n \in 0..Len(requests)] ==
  IF n = 0 THEN <<>>
  ELSE IF http[requests[n]] = "finished" THEN Kept[n - 1] ELSE Append(Kept[n - 1], requests[n])

MakeRequest ==
  /\ Cardinality(Made) < Len(Ids)
  /\ requests' = Kept[Len(requests)]
  /\ http' = [http EXCEPT ![NextRequest] = "running"]
  /\ UNCHANGED deleted

(* The end of SendGameEvent.                                                  *)
Push(r) == requests' = Append(requests, r) /\ UNCHANGED <<http, deleted>>

(* One round of FlushEvents: the only reference goes, and the object with it; *)
(* its destructor returns once the thread has finished.                       *)
ReleaseRef(n) == deleted' = deleted \cup {requests[n]} /\ UNCHANGED <<requests, http>>

(* A bug: the destructor does not wait.                                       *)
DestroyedAtOnce(n) == TRUE
Destroyed(n) == http[requests[n]] = "finished"

(* The server has answered, or the connection has failed.                     *)
Finish(r) ==
  /\ http[r] = "running"
  /\ http' = [http EXCEPT ![r] = "finished"]
  /\ UNCHANGED <<requests, deleted>>
=============================================================================
