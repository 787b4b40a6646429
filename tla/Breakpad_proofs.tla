---------------------------- MODULE Breakpad_proofs ----------------------------
(* Proofs about Breakpad: its crash generation server and clients             *)
(* (CrashServer), and its exception handler with the callback of the game     *)
(* (CrashReport).                                                             *)
EXTENDS CrashReport, CrashServer, SequenceTheorems, FiniteSetTheorems, TLAPS

(* ------------------------------- CrashServer ------------------------------ *)

(* --------------------------- the inductive invariant ---------------------- *)

ControlTypeOK ==
  /\ server \in {"up", "disconnecting", "unregistering", "deleting", "gone", "undefined"}
  /\ state \in {"ERROR", "INITIAL", "CONNECTING", "CONNECTED", "READING", "READ_DONE", "WRITING",
                "WRITE_DONE", "READING_ACK", "DISCONNECTING"}
  /\ signaled \in BOOLEAN
  /\ waiting \in BOOLEAN
  /\ callback \in {"out", "in", "registered", "adding"}
  /\ current \in Clients \cup {NoClient}
  /\ mutex \in Clients \cup {NoClient, "server"}

PipeTypeOK ==
  /\ io \in {"idle", "connect", "read", "write", "ok", "broken"}
  /\ listening \in BOOLEAN
  /\ peer \in Clients \cup {NoClient}
  /\ closed \in BOOLEAN
  /\ inbox \in {"empty", "register", "upload", "ack"}
  /\ outbox \in BOOLEAN

InfosTypeOK ==
  /\ info \in [Clients -> {"none", "live", "freed"}]
  /\ listed \subseteq Clients
  /\ dumpWait \subseteq Clients
  /\ exitWait \subseteq Clients

PoolTypeOK ==
  /\ dumping \in [Clients -> {"idle", "writing", "generated"}]
  /\ ending \in [Clients -> {"idle", "unregistering", "done"}]

DumpsTypeOK ==
  /\ requested \subseteq Clients
  /\ generated \subseteq Clients
  /\ served \in [Clients -> Nat]
  /\ answer \in [Clients -> Nat]

ClientsTypeOK ==
  /\ client \in [Clients -> {"new", "connected", "transacting", "replied", "registered", "waiting",
                             "ended", "ended early"}]
  /\ asked \in [Clients -> Nat]
  /\ tardy \subseteq Clients

ServerTypeOK ==
  /\ ControlTypeOK
  /\ PipeTypeOK
  /\ InfosTypeOK
  /\ PoolTypeOK
  /\ DumpsTypeOK
  /\ ClientsTypeOK

PipeDown == server \in {"unregistering", "deleting", "gone"}
Adding(c) == callback \in {"registered", "adding"} /\ current = c
EndedEarly == \E c \in Clients : client[c] = "ended early"

(* The callback of the pipe, the operation it has begun, and the destructor:  *)
(* a pending operation has not signaled, nobody talks through a pipe that is  *)
(* down, and the last steps of the destructor wait for the callback.          *)
OperationInv ==
  /\ Pending => callback # "in" /\ (signaled => server = "disconnecting")
  /\ PipeDown =>
       /\ Pending => state = "CONNECTING" /\ io = "connect" /\ callback = "out"
       /\ peer # NoClient \/ listening => callback = "out"
       /\ callback = "in" => inbox = "empty"
  /\ server \in {"deleting", "gone"} => callback = "out" /\ ~waiting
  /\ server = "gone" => listed = {}
  /\ server # "gone" => mutex = "server"
  /\ callback \in {"registered", "adding"} => current \in Clients
  /\ peer = NoClient => inbox = "empty" /\ ~outbox /\ ~closed

(* The client at the other end of the pipe is one that registers.             *)
Conversing(c) ==
  peer = c =>
    /\ ~closed => client[c] \in {"connected", "transacting", "replied"}
    /\ client[c] = "connected" => inbox = "empty"
    /\ client[c] \in {"connected", "transacting"} /\ info[c] = "none" => ~outbox

(* The server has written its reply to c and waits for the acknowledgement.   *)
Served(c) ==
  /\ peer = c
  /\ ~closed
  /\ inbox = "empty"
  /\ outbox <=> client[c] = "transacting"
  /\ \/ callback \in {"registered", "adding"} /\ state = "READ_DONE" /\ io \in {"write", "ok"}
     \/ callback \in {"in", "out"} /\ state = "WRITING" /\ io \in {"write", "ok"}
     \/ callback \in {"in", "out"} /\ state = "WRITE_DONE"
     \/ callback = "out" /\ state = "READING_ACK" /\ io = "read"
     \/ callback = "out" /\ shutting_down

(* While the pipe is up, a client has no ClientInfo before it is served.      *)
Registering(c) ==
  server \in {"up", "disconnecting"} =>
    /\ client[c] \in {"new", "connected"} => info[c] = "none"
    /\ client[c] = "transacting" => info[c] = "none" \/ Served(c)
    /\ client[c] = "replied" => Served(c)

(* Waits and threads of the pool exist only for clients the destructor or the *)
(* callback of the pipe knows of.                                             *)
Pooled(c) ==
  /\ c \in dumpWait \cup exitWait \/ dumping[c] # "idle" \/ ending[c] = "unregistering"
       => c \in listed \/ Adding(c)
  /\ ending[c] # "idle" => IsEnded(c)
  /\ ending[c] = "unregistering" => c \notin dumpWait \cup exitWait
  /\ Adding(c) => info[c] # "none" /\ (IsEnded(c) => client[c] = "ended early")

(* Every ClientInfo in the list, or on its way there, is one that lives.      *)
Valid(c) ==
  ~EndedEarly =>
    /\ c \in listed => info[c] = "live"
    /\ Adding(c) => info[c] = "live" /\ c \notin listed

(* No dump is under way, and none is asked for but the one just written.      *)
Unasked(c) == dumping[c] # "writing" /\ (c \in requested => dumping[c] = "generated")

(* A client that always waited for its answers has no earlier request that    *)
(* could still be answered.                                                   *)
Answering(c) ==
  c \notin tardy /\ server # "gone" =>
    /\ client[c] = "waiting" /\ dumping[c] = "writing" => served[c] = asked[c]
    /\ client[c] = "waiting" /\ c \in generated => Unasked(c)
    /\ client[c] \in {"new", "connected", "transacting", "replied", "registered"} => Unasked(c)

Fresh(c) == client[c] = "waiting" /\ c \in generated /\ c \notin tardy => answer[c] = asked[c]

ClientInv(c) ==
  /\ Conversing(c)
  /\ Registering(c)
  /\ Pooled(c)
  /\ Valid(c)
  /\ Answering(c)
  /\ Fresh(c)

(* After the use of a freed object nothing is said but how it came about.     *)
ServerInv ==
  /\ ServerTypeOK
  /\ AnswersAreFresh
  /\ server = "undefined" => EndedEarly
  /\ server # "undefined" => OperationInv /\ \A c \in Clients : ClientInv(c)

(* A step of the server or its clients that uses no freed object.             *)
ServerStep ==
  /\ ServerTypeOK
  /\ OperationInv
  /\ \A c \in Clients : ClientInv(c)
  /\ ServerNext
  /\ server # "undefined"
  /\ server' # "undefined"

(* ------------------------------- its proof -------------------------------- *)

(* Who has ended stays ended.                                                 *)
LEMMA EndedStays == ASSUME ServerTypeOK, ServerNext, EndedEarly PROVE EndedEarly'
<1> USE ServerAssumption DEF machine, conversation, pipe, infos, pool, dumps, clients, others,
    rest, Pending, Disconnect, Handles, GoesOn, Awaits, HandleResult, Broken, ReadFile, IsEnded,
    Delete, Destroys, Becomes, Completes, Serving, shutting_down, UseOfFreed
<1>1. PICK c \in Clients : client[c] = "ended early"
  BY DEF EndedEarly
<1>2. client'[c] = "ended early"
  <2>1. CASE UNCHANGED client
    BY <1>1, <2>1
  <2>2. ASSUME NEW d \in Clients, Proceed(d) PROVE client'[c] = "ended early"
    BY <1>1, <2>2 DEF ServerTypeOK, ClientsTypeOK, Proceed, AskToRegister, RequestUpload, GetReply, Acknowledge,
          RegistrationFails, DumpAnswered, ServerGone
  <2>3. ASSUME NEW d \in Clients, Connect(d) \/ RequestDump(d) \/ TimeOut(d) \/ End(d)
        PROVE  client'[c] = "ended early"
    BY <1>1, <2>3 DEF ServerTypeOK, ClientsTypeOK, Connect, RequestDump, TimeOut, End
  <2>4. ASSUME NEW d \in Clients, PoolThread(d) PROVE UNCHANGED client
    BY <2>4 DEF PoolThread, BeginDump, DumpGenerated, EndDump, BeginClientEnd, EndClientEnd
  <2>5. ASSUME PipeCallback PROVE UNCHANGED client
    BY <2>5 DEF PipeCallback, BeginCallback, HandleErrorState, HandleInitialState,
        HandleConnectingState, HandleConnectedState, HandleReadingState, RefuseRegistration,
        RespondToClient, SetHandle, AddClient, AddTooLate, HandleWritingState,
        HandleWriteDoneState, HandleReadingAckState, HandleDisconnectingState
  <2>6. ASSUME Shutdown \/ Destructor PROVE UNCHANGED client
    BY <2>6 DEF Shutdown, Destructor, DisconnectPipe, UnregisterPipeWait, DeleteClient, ReleaseMutex
  <2>7. QED
    BY <2>1, <2>2, <2>3, <2>4, <2>5, <2>6 DEF ServerNext
<1>3. QED
  BY <1>2 DEF EndedEarly

(* Every variable keeps its type.                                             *)
LEMMA ServerTyping == ASSUME ServerStep PROVE ServerTypeOK'
<1> USE ServerAssumption DEF machine, conversation, pipe, infos, pool, dumps, clients, others,
    rest, Pending, Disconnect, Handles, GoesOn, Awaits, HandleResult, Broken, ReadFile, IsEnded,
    Delete, Destroys, Becomes, Completes, Serving, shutting_down, UseOfFreed
<1>1. /\ ControlTypeOK
      /\ PipeTypeOK
      /\ InfosTypeOK
      /\ PoolTypeOK
      /\ DumpsTypeOK
      /\ ClientsTypeOK
      /\ callback \in {"registered", "adding"} => current \in Clients
      /\ ServerNext
      /\ server' # "undefined"
  BY DEF ServerStep, ServerTypeOK, OperationInv
<1>2. ControlTypeOK'
  <2> USE DEF ControlTypeOK
  <2>1. CASE PipeCallback
    <3>1. CASE BeginCallback
      BY <1>1, <3>1 DEF BeginCallback
    <3>2. CASE HandleErrorState
      BY <1>1, <3>2 DEF HandleErrorState
    <3>3. CASE HandleInitialState
      BY <1>1, <3>3 DEF HandleInitialState
    <3>4. CASE HandleConnectingState
      BY <1>1, <3>4 DEF HandleConnectingState
    <3>5. CASE HandleConnectedState
      BY <1>1, <3>5 DEF HandleConnectedState
    <3>6. CASE HandleReadingState
      BY <1>1, <3>6 DEF HandleReadingState
    <3>7. CASE RefuseRegistration
      BY <1>1, <3>7 DEF RefuseRegistration
    <3>8. CASE RespondToClient
      BY <1>1, <3>8 DEF RespondToClient, PipeTypeOK
    <3>9. CASE SetHandle
      BY <1>1, <3>9 DEF SetHandle
    <3>10. CASE AddClient
      BY <1>1, <3>10 DEF AddClient
    <3>11. CASE AddTooLate
      BY <1>1, <3>11 DEF AddTooLate
    <3>12. CASE HandleWritingState
      BY <1>1, <3>12 DEF HandleWritingState
    <3>13. CASE HandleWriteDoneState
      BY <1>1, <3>13 DEF HandleWriteDoneState
    <3>14. CASE HandleReadingAckState
      BY <1>1, <3>14 DEF HandleReadingAckState
    <3>15. CASE HandleDisconnectingState
      <4>1. Pending \in BOOLEAN
        OBVIOUS
      <4>2. signaled' \in BOOLEAN
        <5> HIDE DEF Pending
        <5>1. signaled' = TRUE \/ signaled' = Pending
          BY <3>15, Zenon DEF HandleDisconnectingState
        <5>2. QED
          BY <4>1, <5>1, Zenon
      <4>3. QED
        BY <1>1, <3>15, <4>2 DEF HandleDisconnectingState
    <3>16. QED
      BY <2>1, <3>1, <3>2, <3>3, <3>4, <3>5, <3>6, <3>7, <3>8, <3>9, <3>10, <3>11, <3>12, <3>13,
          <3>14, <3>15 DEF PipeCallback
  <2>2. CASE Shutdown
    BY <1>1, <2>2
    DEF Shutdown
  <2>3. CASE Destructor
    <3>1. CASE DisconnectPipe
      BY <1>1, <3>1 DEF DisconnectPipe
    <3>2. CASE UnregisterPipeWait
      BY <1>1, <3>2 DEF UnregisterPipeWait
    <3>3. ASSUME NEW c \in Clients, DeleteClient(c) PROVE ControlTypeOK'
      BY <1>1, <3>3 DEF DeleteClient
    <3>4. CASE ReleaseMutex
      BY <1>1, <3>4 DEF ReleaseMutex
    <3>5. QED
      BY <2>3, <3>1, <3>2, <3>3, <3>4 DEF Destructor
  <2>4. ASSUME NEW c \in Clients, PoolThread(c) PROVE ControlTypeOK'
    <3>1. CASE BeginDump(c)
      BY <1>1, <3>1 DEF BeginDump
    <3>2. CASE DumpGenerated(c)
      BY <1>1, <3>2 DEF DumpGenerated
    <3>3. CASE EndDump(c)
      BY <1>1, <3>3 DEF EndDump
    <3>4. CASE BeginClientEnd(c)
      BY <1>1, <3>4, ZenonT(60) DEF BeginClientEnd
    <3>5. CASE EndClientEnd(c)
      BY <1>1, <3>5 DEF EndClientEnd
    <3>6. QED
      BY <2>4, <3>1, <3>2, <3>3, <3>4, <3>5 DEF PoolThread
  <2>5. ASSUME NEW c \in Clients, Proceed(c) PROVE ControlTypeOK'
    <3>1. CASE AskToRegister(c)
      BY <1>1, <3>1, ZenonT(60) DEF AskToRegister
    <3>2. CASE RequestUpload(c)
      BY <1>1, <3>2, ZenonT(60) DEF RequestUpload
    <3>3. CASE GetReply(c)
      BY <1>1, <3>3, ZenonT(60) DEF GetReply
    <3>4. CASE Acknowledge(c)
      BY <1>1, <3>4, ZenonT(60) DEF Acknowledge
    <3>5. CASE RegistrationFails(c)
      BY <1>1, <3>5 DEF RegistrationFails
    <3>6. CASE DumpAnswered(c)
      BY <1>1, <3>6 DEF DumpAnswered
    <3>7. CASE ServerGone(c)
      BY <1>1, <3>7 DEF ServerGone
    <3>8. QED
      BY <2>5, <3>1, <3>2, <3>3, <3>4, <3>5, <3>6, <3>7 DEF Proceed
  <2>6. ASSUME NEW c \in Clients, Connect(c) \/ RequestDump(c) \/ TimeOut(c) \/ End(c) PROVE ControlTypeOK'
    <3>1. CASE Connect(c)
      BY <1>1, <3>1, ZenonT(60) DEF Connect
    <3>2. CASE RequestDump(c)
      BY <1>1, <3>2 DEF RequestDump
    <3>3. CASE TimeOut(c)
      BY <1>1, <3>3 DEF TimeOut
    <3>4. CASE End(c)
      BY <1>1, <3>4, ZenonT(60) DEF End
    <3>5. QED
      BY <2>6, <3>1, <3>2, <3>3, <3>4
  <2>7. QED
    BY <1>1, <2>1, <2>2, <2>3, <2>4, <2>5, <2>6 DEF ServerNext
<1>3. PipeTypeOK'
  <2> USE DEF PipeTypeOK
  <2>1. CASE PipeCallback
    <3>1. CASE BeginCallback
      BY <1>1, <3>1 DEF BeginCallback
    <3>2. CASE HandleErrorState
      BY <1>1, <3>2 DEF HandleErrorState
    <3>3. CASE HandleInitialState
      BY <1>1, <3>3 DEF HandleInitialState
    <3>4. CASE HandleConnectingState
      BY <1>1, <3>4 DEF HandleConnectingState
    <3>5. CASE HandleConnectedState
      BY <1>1, <3>5 DEF HandleConnectedState
    <3>6. CASE HandleReadingState
      BY <1>1, <3>6 DEF HandleReadingState
    <3>7. CASE RefuseRegistration
      BY <1>1, <3>7 DEF RefuseRegistration
    <3>8. CASE RespondToClient
      BY <1>1, <3>8 DEF RespondToClient
    <3>9. CASE SetHandle
      BY <1>1, <3>9 DEF SetHandle
    <3>10. CASE AddClient
      BY <1>1, <3>10 DEF AddClient
    <3>11. CASE AddTooLate
      BY <1>1, <3>11 DEF AddTooLate
    <3>12. CASE HandleWritingState
      BY <1>1, <3>12 DEF HandleWritingState
    <3>13. CASE HandleWriteDoneState
      BY <1>1, <3>13 DEF HandleWriteDoneState
    <3>14. CASE HandleReadingAckState
      BY <1>1, <3>14 DEF HandleReadingAckState
    <3>15. CASE HandleDisconnectingState
      BY <1>1, <3>15 DEF HandleDisconnectingState
    <3>16. QED
      BY <2>1, <3>1, <3>2, <3>3, <3>4, <3>5, <3>6, <3>7, <3>8, <3>9, <3>10, <3>11, <3>12, <3>13,
          <3>14, <3>15 DEF PipeCallback
  <2>2. CASE Shutdown
    BY <1>1, <2>2
    DEF Shutdown
  <2>3. CASE Destructor
    <3>1. CASE DisconnectPipe
      BY <1>1, <3>1 DEF DisconnectPipe
    <3>2. CASE UnregisterPipeWait
      BY <1>1, <3>2 DEF UnregisterPipeWait
    <3>3. ASSUME NEW c \in Clients, DeleteClient(c) PROVE PipeTypeOK'
      BY <1>1, <3>3 DEF DeleteClient
    <3>4. CASE ReleaseMutex
      BY <1>1, <3>4 DEF ReleaseMutex
    <3>5. QED
      BY <2>3, <3>1, <3>2, <3>3, <3>4 DEF Destructor
  <2>4. ASSUME NEW c \in Clients, PoolThread(c) PROVE PipeTypeOK'
    <3>1. CASE BeginDump(c)
      BY <1>1, <3>1 DEF BeginDump
    <3>2. CASE DumpGenerated(c)
      BY <1>1, <3>2 DEF DumpGenerated
    <3>3. CASE EndDump(c)
      BY <1>1, <3>3 DEF EndDump
    <3>4. CASE BeginClientEnd(c)
      BY <1>1, <3>4 DEF BeginClientEnd
    <3>5. CASE EndClientEnd(c)
      BY <1>1, <3>5 DEF EndClientEnd
    <3>6. QED
      BY <2>4, <3>1, <3>2, <3>3, <3>4, <3>5 DEF PoolThread
  <2>5. ASSUME NEW c \in Clients, Proceed(c) PROVE PipeTypeOK'
    <3>1. CASE AskToRegister(c)
      BY <1>1, <3>1 DEF AskToRegister
    <3>2. CASE RequestUpload(c)
      BY <1>1, <3>2 DEF RequestUpload
    <3>3. CASE GetReply(c)
      BY <1>1, <3>3 DEF GetReply
    <3>4. CASE Acknowledge(c)
      BY <1>1, <3>4 DEF Acknowledge
    <3>5. CASE RegistrationFails(c)
      BY <1>1, <3>5 DEF RegistrationFails
    <3>6. CASE DumpAnswered(c)
      BY <1>1, <3>6 DEF DumpAnswered
    <3>7. CASE ServerGone(c)
      BY <1>1, <3>7 DEF ServerGone
    <3>8. QED
      BY <2>5, <3>1, <3>2, <3>3, <3>4, <3>5, <3>6, <3>7 DEF Proceed
  <2>6. ASSUME NEW c \in Clients, Connect(c) \/ RequestDump(c) \/ TimeOut(c) \/ End(c) PROVE PipeTypeOK'
    <3>1. CASE Connect(c)
      BY <1>1, <3>1 DEF Connect
    <3>2. CASE RequestDump(c)
      BY <1>1, <3>2 DEF RequestDump
    <3>3. CASE TimeOut(c)
      BY <1>1, <3>3 DEF TimeOut
    <3>4. CASE End(c)
      BY <1>1, <3>4 DEF End
    <3>5. QED
      BY <2>6, <3>1, <3>2, <3>3, <3>4
  <2>7. QED
    BY <1>1, <2>1, <2>2, <2>3, <2>4, <2>5, <2>6 DEF ServerNext
<1>4. InfosTypeOK'
  <2> USE DEF InfosTypeOK
  <2>1. CASE PipeCallback
    <3>1. CASE BeginCallback
      BY <1>1, <3>1 DEF BeginCallback
    <3>2. CASE HandleErrorState
      BY <1>1, <3>2 DEF HandleErrorState
    <3>3. CASE HandleInitialState
      BY <1>1, <3>3 DEF HandleInitialState
    <3>4. CASE HandleConnectingState
      BY <1>1, <3>4 DEF HandleConnectingState
    <3>5. CASE HandleConnectedState
      BY <1>1, <3>5 DEF HandleConnectedState
    <3>6. CASE HandleReadingState
      BY <1>1, <3>6 DEF HandleReadingState
    <3>7. CASE RefuseRegistration
      BY <1>1, <3>7 DEF RefuseRegistration
    <3>8. CASE RespondToClient
      BY <1>1, <3>8 DEF RespondToClient, PipeTypeOK
    <3>9. CASE SetHandle
      BY <1>1, <3>9 DEF SetHandle
    <3>10. CASE AddClient
      BY <1>1, <3>10 DEF AddClient
    <3>11. CASE AddTooLate
      BY <1>1, <3>11 DEF AddTooLate
    <3>12. CASE HandleWritingState
      BY <1>1, <3>12 DEF HandleWritingState
    <3>13. CASE HandleWriteDoneState
      BY <1>1, <3>13 DEF HandleWriteDoneState
    <3>14. CASE HandleReadingAckState
      BY <1>1, <3>14 DEF HandleReadingAckState
    <3>15. CASE HandleDisconnectingState
      BY <1>1, <3>15 DEF HandleDisconnectingState
    <3>16. QED
      BY <2>1, <3>1, <3>2, <3>3, <3>4, <3>5, <3>6, <3>7, <3>8, <3>9, <3>10, <3>11, <3>12, <3>13,
          <3>14, <3>15 DEF PipeCallback
  <2>2. CASE Shutdown
    BY <1>1, <2>2
    DEF Shutdown
  <2>3. CASE Destructor
    <3>1. CASE DisconnectPipe
      BY <1>1, <3>1 DEF DisconnectPipe
    <3>2. CASE UnregisterPipeWait
      BY <1>1, <3>2 DEF UnregisterPipeWait
    <3>3. ASSUME NEW c \in Clients, DeleteClient(c) PROVE InfosTypeOK'
      BY <1>1, <3>3 DEF DeleteClient
    <3>4. CASE ReleaseMutex
      BY <1>1, <3>4 DEF ReleaseMutex
    <3>5. QED
      BY <2>3, <3>1, <3>2, <3>3, <3>4 DEF Destructor
  <2>4. ASSUME NEW c \in Clients, PoolThread(c) PROVE InfosTypeOK'
    <3>1. CASE BeginDump(c)
      BY <1>1, <3>1 DEF BeginDump
    <3>2. CASE DumpGenerated(c)
      BY <1>1, <3>2 DEF DumpGenerated
    <3>3. CASE EndDump(c)
      BY <1>1, <3>3 DEF EndDump
    <3>4. CASE BeginClientEnd(c)
      BY <1>1, <3>4 DEF BeginClientEnd
    <3>5. CASE EndClientEnd(c)
      BY <1>1, <3>5 DEF EndClientEnd
    <3>6. QED
      BY <2>4, <3>1, <3>2, <3>3, <3>4, <3>5 DEF PoolThread
  <2>5. ASSUME NEW c \in Clients, Proceed(c) PROVE InfosTypeOK'
    <3>1. CASE AskToRegister(c)
      BY <1>1, <3>1 DEF AskToRegister
    <3>2. CASE RequestUpload(c)
      BY <1>1, <3>2 DEF RequestUpload
    <3>3. CASE GetReply(c)
      BY <1>1, <3>3 DEF GetReply
    <3>4. CASE Acknowledge(c)
      BY <1>1, <3>4 DEF Acknowledge
    <3>5. CASE RegistrationFails(c)
      BY <1>1, <3>5 DEF RegistrationFails
    <3>6. CASE DumpAnswered(c)
      BY <1>1, <3>6 DEF DumpAnswered
    <3>7. CASE ServerGone(c)
      BY <1>1, <3>7 DEF ServerGone
    <3>8. QED
      BY <2>5, <3>1, <3>2, <3>3, <3>4, <3>5, <3>6, <3>7 DEF Proceed
  <2>6. ASSUME NEW c \in Clients, Connect(c) \/ RequestDump(c) \/ TimeOut(c) \/ End(c) PROVE InfosTypeOK'
    <3>1. CASE Connect(c)
      BY <1>1, <3>1 DEF Connect
    <3>2. CASE RequestDump(c)
      BY <1>1, <3>2 DEF RequestDump
    <3>3. CASE TimeOut(c)
      BY <1>1, <3>3 DEF TimeOut
    <3>4. CASE End(c)
      BY <1>1, <3>4 DEF End
    <3>5. QED
      BY <2>6, <3>1, <3>2, <3>3, <3>4
  <2>7. QED
    BY <1>1, <2>1, <2>2, <2>3, <2>4, <2>5, <2>6 DEF ServerNext
<1>5. PoolTypeOK'
  <2> USE DEF PoolTypeOK
  <2>1. CASE PipeCallback
    <3>1. CASE BeginCallback
      BY <1>1, <3>1 DEF BeginCallback
    <3>2. CASE HandleErrorState
      BY <1>1, <3>2 DEF HandleErrorState
    <3>3. CASE HandleInitialState
      BY <1>1, <3>3 DEF HandleInitialState
    <3>4. CASE HandleConnectingState
      BY <1>1, <3>4 DEF HandleConnectingState
    <3>5. CASE HandleConnectedState
      BY <1>1, <3>5 DEF HandleConnectedState
    <3>6. CASE HandleReadingState
      BY <1>1, <3>6 DEF HandleReadingState
    <3>7. CASE RefuseRegistration
      BY <1>1, <3>7 DEF RefuseRegistration
    <3>8. CASE RespondToClient
      BY <1>1, <3>8 DEF RespondToClient
    <3>9. CASE SetHandle
      BY <1>1, <3>9 DEF SetHandle
    <3>10. CASE AddClient
      BY <1>1, <3>10 DEF AddClient
    <3>11. CASE AddTooLate
      BY <1>1, <3>11 DEF AddTooLate
    <3>12. CASE HandleWritingState
      BY <1>1, <3>12 DEF HandleWritingState
    <3>13. CASE HandleWriteDoneState
      BY <1>1, <3>13 DEF HandleWriteDoneState
    <3>14. CASE HandleReadingAckState
      BY <1>1, <3>14 DEF HandleReadingAckState
    <3>15. CASE HandleDisconnectingState
      BY <1>1, <3>15 DEF HandleDisconnectingState
    <3>16. QED
      BY <2>1, <3>1, <3>2, <3>3, <3>4, <3>5, <3>6, <3>7, <3>8, <3>9, <3>10, <3>11, <3>12, <3>13,
          <3>14, <3>15 DEF PipeCallback
  <2>2. CASE Shutdown
    BY <1>1, <2>2
    DEF Shutdown
  <2>3. CASE Destructor
    <3>1. CASE DisconnectPipe
      BY <1>1, <3>1 DEF DisconnectPipe
    <3>2. CASE UnregisterPipeWait
      BY <1>1, <3>2 DEF UnregisterPipeWait
    <3>3. ASSUME NEW c \in Clients, DeleteClient(c) PROVE PoolTypeOK'
      BY <1>1, <3>3 DEF DeleteClient
    <3>4. CASE ReleaseMutex
      BY <1>1, <3>4 DEF ReleaseMutex
    <3>5. QED
      BY <2>3, <3>1, <3>2, <3>3, <3>4 DEF Destructor
  <2>4. ASSUME NEW c \in Clients, PoolThread(c) PROVE PoolTypeOK'
    <3>1. CASE BeginDump(c)
      BY <1>1, <3>1 DEF BeginDump
    <3>2. CASE DumpGenerated(c)
      BY <1>1, <3>2 DEF DumpGenerated
    <3>3. CASE EndDump(c)
      BY <1>1, <3>3 DEF EndDump
    <3>4. CASE BeginClientEnd(c)
      BY <1>1, <3>4 DEF BeginClientEnd
    <3>5. CASE EndClientEnd(c)
      BY <1>1, <3>5 DEF EndClientEnd
    <3>6. QED
      BY <2>4, <3>1, <3>2, <3>3, <3>4, <3>5 DEF PoolThread
  <2>5. ASSUME NEW c \in Clients, Proceed(c) PROVE PoolTypeOK'
    <3>1. CASE AskToRegister(c)
      BY <1>1, <3>1 DEF AskToRegister
    <3>2. CASE RequestUpload(c)
      BY <1>1, <3>2 DEF RequestUpload
    <3>3. CASE GetReply(c)
      BY <1>1, <3>3 DEF GetReply
    <3>4. CASE Acknowledge(c)
      BY <1>1, <3>4 DEF Acknowledge
    <3>5. CASE RegistrationFails(c)
      BY <1>1, <3>5 DEF RegistrationFails
    <3>6. CASE DumpAnswered(c)
      BY <1>1, <3>6 DEF DumpAnswered
    <3>7. CASE ServerGone(c)
      BY <1>1, <3>7 DEF ServerGone
    <3>8. QED
      BY <2>5, <3>1, <3>2, <3>3, <3>4, <3>5, <3>6, <3>7 DEF Proceed
  <2>6. ASSUME NEW c \in Clients, Connect(c) \/ RequestDump(c) \/ TimeOut(c) \/ End(c) PROVE PoolTypeOK'
    <3>1. CASE Connect(c)
      BY <1>1, <3>1 DEF Connect
    <3>2. CASE RequestDump(c)
      BY <1>1, <3>2 DEF RequestDump
    <3>3. CASE TimeOut(c)
      BY <1>1, <3>3 DEF TimeOut
    <3>4. CASE End(c)
      BY <1>1, <3>4 DEF End
    <3>5. QED
      BY <2>6, <3>1, <3>2, <3>3, <3>4
  <2>7. QED
    BY <1>1, <2>1, <2>2, <2>3, <2>4, <2>5, <2>6 DEF ServerNext
<1>6. DumpsTypeOK'
  <2> USE DEF DumpsTypeOK
  <2>1. CASE PipeCallback
    <3>1. CASE BeginCallback
      BY <1>1, <3>1 DEF BeginCallback
    <3>2. CASE HandleErrorState
      BY <1>1, <3>2 DEF HandleErrorState
    <3>3. CASE HandleInitialState
      BY <1>1, <3>3 DEF HandleInitialState
    <3>4. CASE HandleConnectingState
      BY <1>1, <3>4 DEF HandleConnectingState
    <3>5. CASE HandleConnectedState
      BY <1>1, <3>5 DEF HandleConnectedState
    <3>6. CASE HandleReadingState
      BY <1>1, <3>6 DEF HandleReadingState
    <3>7. CASE RefuseRegistration
      BY <1>1, <3>7 DEF RefuseRegistration
    <3>8. CASE RespondToClient
      BY <1>1, <3>8 DEF RespondToClient
    <3>9. CASE SetHandle
      BY <1>1, <3>9 DEF SetHandle
    <3>10. CASE AddClient
      BY <1>1, <3>10 DEF AddClient
    <3>11. CASE AddTooLate
      BY <1>1, <3>11 DEF AddTooLate
    <3>12. CASE HandleWritingState
      BY <1>1, <3>12 DEF HandleWritingState
    <3>13. CASE HandleWriteDoneState
      BY <1>1, <3>13 DEF HandleWriteDoneState
    <3>14. CASE HandleReadingAckState
      BY <1>1, <3>14 DEF HandleReadingAckState
    <3>15. CASE HandleDisconnectingState
      BY <1>1, <3>15 DEF HandleDisconnectingState
    <3>16. QED
      BY <2>1, <3>1, <3>2, <3>3, <3>4, <3>5, <3>6, <3>7, <3>8, <3>9, <3>10, <3>11, <3>12, <3>13,
          <3>14, <3>15 DEF PipeCallback
  <2>2. CASE Shutdown
    BY <1>1, <2>2
    DEF Shutdown
  <2>3. CASE Destructor
    <3>1. CASE DisconnectPipe
      BY <1>1, <3>1 DEF DisconnectPipe
    <3>2. CASE UnregisterPipeWait
      BY <1>1, <3>2 DEF UnregisterPipeWait
    <3>3. ASSUME NEW c \in Clients, DeleteClient(c) PROVE DumpsTypeOK'
      BY <1>1, <3>3 DEF DeleteClient
    <3>4. CASE ReleaseMutex
      BY <1>1, <3>4 DEF ReleaseMutex
    <3>5. QED
      BY <2>3, <3>1, <3>2, <3>3, <3>4 DEF Destructor
  <2>4. ASSUME NEW c \in Clients, PoolThread(c) PROVE DumpsTypeOK'
    <3>1. CASE BeginDump(c)
      BY <1>1, <3>1 DEF BeginDump, ClientsTypeOK
    <3>2. CASE DumpGenerated(c)
      BY <1>1, <3>2 DEF DumpGenerated
    <3>3. CASE EndDump(c)
      BY <1>1, <3>3 DEF EndDump
    <3>4. CASE BeginClientEnd(c)
      BY <1>1, <3>4 DEF BeginClientEnd
    <3>5. CASE EndClientEnd(c)
      BY <1>1, <3>5 DEF EndClientEnd
    <3>6. QED
      BY <2>4, <3>1, <3>2, <3>3, <3>4, <3>5 DEF PoolThread
  <2>5. ASSUME NEW c \in Clients, Proceed(c) PROVE DumpsTypeOK'
    <3>1. CASE AskToRegister(c)
      BY <1>1, <3>1 DEF AskToRegister
    <3>2. CASE RequestUpload(c)
      BY <1>1, <3>2 DEF RequestUpload
    <3>3. CASE GetReply(c)
      BY <1>1, <3>3 DEF GetReply
    <3>4. CASE Acknowledge(c)
      BY <1>1, <3>4 DEF Acknowledge
    <3>5. CASE RegistrationFails(c)
      BY <1>1, <3>5 DEF RegistrationFails
    <3>6. CASE DumpAnswered(c)
      BY <1>1, <3>6 DEF DumpAnswered
    <3>7. CASE ServerGone(c)
      BY <1>1, <3>7 DEF ServerGone
    <3>8. QED
      BY <2>5, <3>1, <3>2, <3>3, <3>4, <3>5, <3>6, <3>7 DEF Proceed
  <2>6. ASSUME NEW c \in Clients, Connect(c) \/ RequestDump(c) \/ TimeOut(c) \/ End(c) PROVE DumpsTypeOK'
    <3>1. CASE Connect(c)
      BY <1>1, <3>1 DEF Connect
    <3>2. CASE RequestDump(c)
      BY <1>1, <3>2 DEF RequestDump
    <3>3. CASE TimeOut(c)
      BY <1>1, <3>3 DEF TimeOut
    <3>4. CASE End(c)
      BY <1>1, <3>4 DEF End
    <3>5. QED
      BY <2>6, <3>1, <3>2, <3>3, <3>4
  <2>7. QED
    BY <1>1, <2>1, <2>2, <2>3, <2>4, <2>5, <2>6 DEF ServerNext
<1>7. ClientsTypeOK'
  <2> USE DEF ClientsTypeOK
  <2>1. CASE PipeCallback
    <3>1. CASE BeginCallback
      BY <1>1, <3>1 DEF BeginCallback
    <3>2. CASE HandleErrorState
      BY <1>1, <3>2 DEF HandleErrorState
    <3>3. CASE HandleInitialState
      BY <1>1, <3>3 DEF HandleInitialState
    <3>4. CASE HandleConnectingState
      BY <1>1, <3>4 DEF HandleConnectingState
    <3>5. CASE HandleConnectedState
      BY <1>1, <3>5 DEF HandleConnectedState
    <3>6. CASE HandleReadingState
      BY <1>1, <3>6 DEF HandleReadingState
    <3>7. CASE RefuseRegistration
      BY <1>1, <3>7 DEF RefuseRegistration
    <3>8. CASE RespondToClient
      BY <1>1, <3>8 DEF RespondToClient
    <3>9. CASE SetHandle
      BY <1>1, <3>9 DEF SetHandle
    <3>10. CASE AddClient
      BY <1>1, <3>10 DEF AddClient
    <3>11. CASE AddTooLate
      BY <1>1, <3>11 DEF AddTooLate
    <3>12. CASE HandleWritingState
      BY <1>1, <3>12 DEF HandleWritingState
    <3>13. CASE HandleWriteDoneState
      BY <1>1, <3>13 DEF HandleWriteDoneState
    <3>14. CASE HandleReadingAckState
      BY <1>1, <3>14 DEF HandleReadingAckState
    <3>15. CASE HandleDisconnectingState
      BY <1>1, <3>15 DEF HandleDisconnectingState
    <3>16. QED
      BY <2>1, <3>1, <3>2, <3>3, <3>4, <3>5, <3>6, <3>7, <3>8, <3>9, <3>10, <3>11, <3>12, <3>13,
          <3>14, <3>15 DEF PipeCallback
  <2>2. CASE Shutdown
    BY <1>1, <2>2
    DEF Shutdown
  <2>3. CASE Destructor
    <3>1. CASE DisconnectPipe
      BY <1>1, <3>1 DEF DisconnectPipe
    <3>2. CASE UnregisterPipeWait
      BY <1>1, <3>2 DEF UnregisterPipeWait
    <3>3. ASSUME NEW c \in Clients, DeleteClient(c) PROVE ClientsTypeOK'
      BY <1>1, <3>3 DEF DeleteClient
    <3>4. CASE ReleaseMutex
      BY <1>1, <3>4 DEF ReleaseMutex
    <3>5. QED
      BY <2>3, <3>1, <3>2, <3>3, <3>4 DEF Destructor
  <2>4. ASSUME NEW c \in Clients, PoolThread(c) PROVE ClientsTypeOK'
    <3>1. CASE BeginDump(c)
      BY <1>1, <3>1 DEF BeginDump
    <3>2. CASE DumpGenerated(c)
      BY <1>1, <3>2 DEF DumpGenerated
    <3>3. CASE EndDump(c)
      BY <1>1, <3>3 DEF EndDump
    <3>4. CASE BeginClientEnd(c)
      BY <1>1, <3>4 DEF BeginClientEnd
    <3>5. CASE EndClientEnd(c)
      BY <1>1, <3>5 DEF EndClientEnd
    <3>6. QED
      BY <2>4, <3>1, <3>2, <3>3, <3>4, <3>5 DEF PoolThread
  <2>5. ASSUME NEW c \in Clients, Proceed(c) PROVE ClientsTypeOK'
    <3>1. CASE AskToRegister(c)
      BY <1>1, <3>1 DEF AskToRegister
    <3>2. CASE RequestUpload(c)
      BY <1>1, <3>2 DEF RequestUpload
    <3>3. CASE GetReply(c)
      BY <1>1, <3>3 DEF GetReply
    <3>4. CASE Acknowledge(c)
      BY <1>1, <3>4 DEF Acknowledge
    <3>5. CASE RegistrationFails(c)
      BY <1>1, <3>5 DEF RegistrationFails
    <3>6. CASE DumpAnswered(c)
      BY <1>1, <3>6 DEF DumpAnswered
    <3>7. CASE ServerGone(c)
      BY <1>1, <3>7 DEF ServerGone
    <3>8. QED
      BY <2>5, <3>1, <3>2, <3>3, <3>4, <3>5, <3>6, <3>7 DEF Proceed
  <2>6. ASSUME NEW c \in Clients, Connect(c) \/ RequestDump(c) \/ TimeOut(c) \/ End(c) PROVE ClientsTypeOK'
    <3>1. CASE Connect(c)
      BY <1>1, <3>1 DEF Connect
    <3>2. CASE RequestDump(c)
        <4>1. client' \in [Clients -> {"new", "connected", "transacting", "replied", "registered", "waiting",
                                    "ended", "ended early"}]
          BY <1>1, <3>2 DEF RequestDump
        <4>2. asked \in [Clients -> Nat] /\ asked' = [asked EXCEPT ![c] = asked[c] + 1]
          BY <1>1, <3>2 DEF RequestDump
        <4>3. asked' \in [Clients -> Nat]
          BY <4>2
        <4>4. tardy' \subseteq Clients
          BY <1>1, <3>2 DEF RequestDump
        <4>5. QED
          BY <4>1, <4>3, <4>4
    <3>3. CASE TimeOut(c)
      BY <1>1, <3>3 DEF TimeOut
    <3>4. CASE End(c)
      BY <1>1, <3>4 DEF End
    <3>5. QED
      BY <2>6, <3>1, <3>2, <3>3, <3>4
  <2>7. QED
    BY <1>1, <2>1, <2>2, <2>3, <2>4, <2>5, <2>6 DEF ServerNext
<1>8. QED
  BY <1>2, <1>3, <1>4, <1>5, <1>6, <1>7 DEF ServerTypeOK

(* ... the callback agrees with the pipe and the destructor,                  *)
LEMMA OperationKept == ASSUME ServerStep PROVE OperationInv'
<1> USE ServerAssumption DEF machine, conversation, pipe, infos, pool, dumps, clients, others,
    rest, Pending, Disconnect, Handles, GoesOn, Awaits, HandleResult, Broken, ReadFile, IsEnded,
    Delete, Destroys, Becomes, Completes, Serving, shutting_down, UseOfFreed, ServerTypeOK,
    ControlTypeOK, PipeTypeOK, InfosTypeOK, PoolTypeOK, DumpsTypeOK, ClientsTypeOK, OperationInv,
    PipeDown, Served, Adding, Unasked, ClientInv, Conversing, Registering, Pooled, Valid,
    Answering, Fresh
<1>1. /\ ServerTypeOK
      /\ OperationInv
      /\ ServerNext
      /\ server # "undefined"
      /\ server' # "undefined"
  BY DEF ServerStep
<1>2. \A c \in Clients : ClientInv(c) /\ (client[c] = "ended early" => EndedEarly)
  BY ZenonT(60) DEF ServerStep, EndedEarly
<1>3. CASE PipeCallback
  <2>1. CASE BeginCallback
    BY <1>1, <2>1 DEF BeginCallback
  <2>2. CASE HandleErrorState
    BY <1>1, <2>2 DEF HandleErrorState
  <2>3. CASE HandleInitialState
    BY <1>1, <2>3 DEF HandleInitialState
  <2>4. CASE HandleConnectingState
    BY <1>1, <2>4 DEF HandleConnectingState
  <2>5. CASE HandleConnectedState
    BY <1>1, <2>5 DEF HandleConnectedState
  <2>6. CASE HandleReadingState
    BY <1>1, <2>6 DEF HandleReadingState
  <2>7. CASE RefuseRegistration
    BY <1>1, <2>7 DEF RefuseRegistration
  <2>8. CASE RespondToClient
    BY <1>1, <2>8 DEF RespondToClient
  <2>9. CASE SetHandle
    BY <1>1, <2>9 DEF SetHandle
  <2>10. CASE AddClient
    BY <1>1, <2>10 DEF AddClient
  <2>11. CASE AddTooLate
    BY <1>1, <2>11 DEF AddTooLate
  <2>12. CASE HandleWritingState
    BY <1>1, <2>12 DEF HandleWritingState
  <2>13. CASE HandleWriteDoneState
    BY <1>1, <2>13 DEF HandleWriteDoneState
  <2>14. CASE HandleReadingAckState
    BY <1>1, <2>14 DEF HandleReadingAckState
  <2>15. CASE HandleDisconnectingState
    BY <1>1, <2>15 DEF HandleDisconnectingState
  <2>16. QED
    BY <1>3, <2>1, <2>2, <2>3, <2>4, <2>5, <2>6, <2>7, <2>8, <2>9, <2>10, <2>11, <2>12, <2>13,
        <2>14, <2>15 DEF PipeCallback
<1>4. CASE Shutdown
  BY <1>1, <1>4
  DEF Shutdown
<1>5. CASE Destructor
  <2>1. CASE DisconnectPipe
    BY <1>1, <2>1 DEF DisconnectPipe
  <2>2. CASE UnregisterPipeWait
    BY <1>1, <2>2 DEF UnregisterPipeWait
  <2>3. ASSUME NEW c \in Clients, DeleteClient(c) PROVE OperationInv'
    BY <1>1, <2>3, <1>2 DEF DeleteClient
  <2>4. CASE ReleaseMutex
    BY <1>1, <2>4 DEF ReleaseMutex
  <2>5. QED
    BY <1>5, <2>1, <2>2, <2>3, <2>4 DEF Destructor
<1>6. ASSUME NEW c \in Clients, PoolThread(c) PROVE OperationInv'
  <2>1. ClientInv(c) /\ (client[c] = "ended early" => EndedEarly)
    BY <1>2
  <2>2. CASE BeginDump(c)
    BY <1>1, <2>1, <2>2, ZenonT(60) DEF BeginDump
  <2>3. CASE DumpGenerated(c)
    BY <1>1, <2>1, <2>3, ZenonT(60) DEF DumpGenerated
  <2>4. CASE EndDump(c)
    BY <1>1, <2>1, <2>4, ZenonT(60) DEF EndDump
  <2>5. CASE BeginClientEnd(c)
    BY <1>1, <2>1, <2>5, ZenonT(60) DEF BeginClientEnd
  <2>6. CASE EndClientEnd(c)
    BY <1>1, <2>1, <2>6, ZenonT(60) DEF EndClientEnd
  <2>7. QED
    BY <1>6, <2>2, <2>3, <2>4, <2>5, <2>6 DEF PoolThread
<1>7. ASSUME NEW c \in Clients, Proceed(c) PROVE OperationInv'
  <2>1. ClientInv(c) /\ (client[c] = "ended early" => EndedEarly)
    BY <1>2
  <2>2. CASE AskToRegister(c)
    BY <1>1, <2>1, <2>2 DEF AskToRegister
  <2>3. CASE RequestUpload(c)
    BY <1>1, <2>1, <2>3 DEF RequestUpload
  <2>4. CASE GetReply(c)
    BY <1>1, <2>1, <2>4 DEF GetReply
  <2>5. CASE Acknowledge(c)
    BY <1>1, <2>1, <2>5 DEF Acknowledge
  <2>6. CASE RegistrationFails(c)
    BY <1>1, <2>1, <2>6, ZenonT(60) DEF RegistrationFails
  <2>7. CASE DumpAnswered(c)
    BY <1>1, <2>1, <2>7, ZenonT(60) DEF DumpAnswered
  <2>8. CASE ServerGone(c)
    BY <1>1, <2>1, <2>8 DEF ServerGone
  <2>9. QED
    BY <1>7, <2>2, <2>3, <2>4, <2>5, <2>6, <2>7, <2>8 DEF Proceed
<1>8. ASSUME NEW c \in Clients, Connect(c) \/ RequestDump(c) \/ TimeOut(c) \/ End(c) PROVE OperationInv'
  <2>1. ClientInv(c) /\ (client[c] = "ended early" => EndedEarly)
    BY <1>2
  <2>2. CASE Connect(c)
    BY <1>1, <2>1, <2>2 DEF Connect
  <2>3. CASE RequestDump(c)
    BY <1>1, <2>1, <2>3, ZenonT(60) DEF RequestDump
  <2>4. CASE TimeOut(c)
    BY <1>1, <2>1, <2>4, ZenonT(60) DEF TimeOut
  <2>5. CASE End(c)
    BY <1>1, <2>1, <2>5, ZenonT(60) DEF End
  <2>6. QED
    BY <1>8, <2>2, <2>3, <2>4, <2>5
<1>9. QED
  BY <1>1, <1>3, <1>4, <1>5, <1>6, <1>7, <1>8 DEF ServerNext

(* ... the client of the pipe is one that registers,                          *)
LEMMA ConversingKept == ASSUME ServerStep, NEW d \in Clients PROVE Conversing(d)'
<1> USE ServerAssumption DEF machine, conversation, pipe, infos, pool, dumps, clients, others,
    rest, Pending, Disconnect, Handles, GoesOn, Awaits, HandleResult, Broken, ReadFile, IsEnded,
    Delete, Destroys, Becomes, Completes, Serving, shutting_down, UseOfFreed, ServerTypeOK,
    ControlTypeOK, PipeTypeOK, InfosTypeOK, PoolTypeOK, DumpsTypeOK, ClientsTypeOK, OperationInv,
    PipeDown, Served, Adding, Unasked, ClientInv, Conversing, Registering, Pooled, Valid,
    Answering, Fresh
<1>1. /\ ServerTypeOK
      /\ OperationInv
      /\ ServerNext
      /\ server # "undefined"
      /\ server' # "undefined"
      /\ ClientInv(d)
      /\ EndedEarly => EndedEarly'
  BY EndedStays DEF ServerStep
<1>2. \A c \in Clients : ClientInv(c) /\ (client[c] = "ended early" => EndedEarly)
  BY ZenonT(60) DEF ServerStep, EndedEarly
<1>3. CASE PipeCallback
  <2>1. CASE BeginCallback
    BY <1>1, <2>1 DEF BeginCallback
  <2>2. CASE HandleErrorState
    BY <1>1, <2>2 DEF HandleErrorState
  <2>3. CASE HandleInitialState
    BY <1>1, <2>3 DEF HandleInitialState
  <2>4. CASE HandleConnectingState
    BY <1>1, <2>4 DEF HandleConnectingState
  <2>5. CASE HandleConnectedState
    BY <1>1, <2>5 DEF HandleConnectedState
  <2>6. CASE HandleReadingState
    BY <1>1, <2>6 DEF HandleReadingState
  <2>7. CASE RefuseRegistration
    BY <1>1, <2>7 DEF RefuseRegistration
  <2>8. CASE RespondToClient
    BY <1>1, <2>8 DEF RespondToClient
  <2>9. CASE SetHandle
    BY <1>1, <2>9 DEF SetHandle
  <2>10. CASE AddClient
    BY <1>1, <2>10 DEF AddClient
  <2>11. CASE AddTooLate
    BY <1>1, <2>11, ZenonT(60) DEF AddTooLate
  <2>12. CASE HandleWritingState
    BY <1>1, <2>12 DEF HandleWritingState
  <2>13. CASE HandleWriteDoneState
    BY <1>1, <2>13 DEF HandleWriteDoneState
  <2>14. CASE HandleReadingAckState
    BY <1>1, <2>14 DEF HandleReadingAckState
  <2>15. CASE HandleDisconnectingState
    BY <1>1, <2>15 DEF HandleDisconnectingState
  <2>16. QED
    BY <1>3, <2>1, <2>2, <2>3, <2>4, <2>5, <2>6, <2>7, <2>8, <2>9, <2>10, <2>11, <2>12, <2>13,
        <2>14, <2>15 DEF PipeCallback
<1>4. CASE Shutdown
  BY <1>1, <1>4
  DEF Shutdown
<1>5. CASE Destructor
  <2>1. CASE DisconnectPipe
    BY <1>1, <2>1 DEF DisconnectPipe
  <2>2. CASE UnregisterPipeWait
    BY <1>1, <2>2 DEF UnregisterPipeWait
  <2>3. ASSUME NEW c \in Clients, DeleteClient(c) PROVE Conversing(d)'
    BY <1>1, <2>3, <1>2, ZenonT(60) DEF DeleteClient
  <2>4. CASE ReleaseMutex
    BY <1>1, <2>4 DEF ReleaseMutex
  <2>5. QED
    BY <1>5, <2>1, <2>2, <2>3, <2>4 DEF Destructor
<1>6. ASSUME NEW c \in Clients, PoolThread(c) PROVE Conversing(d)'
  <2>1. ClientInv(c) /\ (client[c] = "ended early" => EndedEarly)
    BY <1>2
  <2>2. CASE BeginDump(c)
    BY <1>1, <2>1, <2>2 DEF BeginDump
  <2>3. CASE DumpGenerated(c)
    BY <1>1, <2>1, <2>3 DEF DumpGenerated
  <2>4. CASE EndDump(c)
    BY <1>1, <2>1, <2>4 DEF EndDump
  <2>5. CASE BeginClientEnd(c)
    BY <1>1, <2>1, <2>5 DEF BeginClientEnd
  <2>6. CASE EndClientEnd(c)
    BY <1>1, <2>1, <2>6 DEF EndClientEnd
  <2>7. QED
    BY <1>6, <2>2, <2>3, <2>4, <2>5, <2>6 DEF PoolThread
<1>7. ASSUME NEW c \in Clients, Proceed(c) PROVE Conversing(d)'
  <2>1. ClientInv(c) /\ (client[c] = "ended early" => EndedEarly)
    BY <1>2
  <2>2. CASE AskToRegister(c)
    BY <1>1, <2>1, <2>2 DEF AskToRegister
  <2>3. CASE RequestUpload(c)
    BY <1>1, <2>1, <2>3 DEF RequestUpload
  <2>4. CASE GetReply(c)
    BY <1>1, <2>1, <2>4 DEF GetReply
  <2>5. CASE Acknowledge(c)
    BY <1>1, <2>1, <2>5 DEF Acknowledge
  <2>6. CASE RegistrationFails(c)
    BY <1>1, <2>1, <2>6 DEF RegistrationFails
  <2>7. CASE DumpAnswered(c)
    BY <1>1, <2>1, <2>7 DEF DumpAnswered
  <2>8. CASE ServerGone(c)
    BY <1>1, <2>1, <2>8 DEF ServerGone
  <2>9. QED
    BY <1>7, <2>2, <2>3, <2>4, <2>5, <2>6, <2>7, <2>8 DEF Proceed
<1>8. ASSUME NEW c \in Clients, Connect(c) \/ RequestDump(c) \/ TimeOut(c) \/ End(c) PROVE Conversing(d)'
  <2>1. ClientInv(c) /\ (client[c] = "ended early" => EndedEarly)
    BY <1>2
  <2>2. CASE Connect(c)
    BY <1>1, <2>1, <2>2 DEF Connect
  <2>3. CASE RequestDump(c)
    BY <1>1, <2>1, <2>3 DEF RequestDump
  <2>4. CASE TimeOut(c)
    BY <1>1, <2>1, <2>4 DEF TimeOut
  <2>5. CASE End(c)
    BY <1>1, <2>1, <2>5 DEF End
  <2>6. QED
    BY <1>8, <2>2, <2>3, <2>4, <2>5
<1>9. QED
  BY <1>1, <1>3, <1>4, <1>5, <1>6, <1>7, <1>8 DEF ServerNext

(* ... and has no ClientInfo before,                                          *)
LEMMA RegisteringKept == ASSUME ServerStep, NEW d \in Clients PROVE Registering(d)'
<1> USE ServerAssumption DEF machine, conversation, pipe, infos, pool, dumps, clients, others,
    rest, Pending, Disconnect, Handles, GoesOn, Awaits, HandleResult, Broken, ReadFile, IsEnded,
    Delete, Destroys, Becomes, Completes, Serving, shutting_down, UseOfFreed, ServerTypeOK,
    ControlTypeOK, PipeTypeOK, InfosTypeOK, PoolTypeOK, DumpsTypeOK, ClientsTypeOK, OperationInv,
    PipeDown, Served, Adding, Unasked, ClientInv, Conversing, Registering, Pooled, Valid,
    Answering, Fresh
<1>1. /\ ServerTypeOK
      /\ OperationInv
      /\ ServerNext
      /\ server # "undefined"
      /\ server' # "undefined"
      /\ ClientInv(d)
      /\ EndedEarly => EndedEarly'
  BY EndedStays DEF ServerStep
<1>2. \A c \in Clients : ClientInv(c) /\ (client[c] = "ended early" => EndedEarly)
  BY DEF ServerStep, EndedEarly
<1>3. CASE PipeCallback
  <2>1. CASE BeginCallback
    BY <1>1, <2>1 DEF BeginCallback
  <2>2. CASE HandleErrorState
    BY <1>1, <2>2 DEF HandleErrorState
  <2>3. CASE HandleInitialState
    BY <1>1, <2>3 DEF HandleInitialState
  <2>4. CASE HandleConnectingState
    BY <1>1, <2>4 DEF HandleConnectingState
  <2>5. CASE HandleConnectedState
    BY <1>1, <2>5 DEF HandleConnectedState
  <2>6. CASE HandleReadingState
    BY <1>1, <2>6 DEF HandleReadingState
  <2>7. CASE RefuseRegistration
    BY <1>1, <2>7 DEF RefuseRegistration
  <2>8. CASE RespondToClient
    BY <1>1, <2>8 DEF RespondToClient
  <2>9. CASE SetHandle
    BY <1>1, <2>9 DEF SetHandle
  <2>10. CASE AddClient
    BY <1>1, <2>10 DEF AddClient
  <2>11. CASE AddTooLate
    BY <1>1, <2>11 DEF AddTooLate
  <2>12. CASE HandleWritingState
    BY <1>1, <2>12 DEF HandleWritingState
  <2>13. CASE HandleWriteDoneState
    BY <1>1, <2>13 DEF HandleWriteDoneState
  <2>14. CASE HandleReadingAckState
    BY <1>1, <2>14 DEF HandleReadingAckState
  <2>15. CASE HandleDisconnectingState
    BY <1>1, <2>15 DEF HandleDisconnectingState
  <2>16. QED
    BY <1>3, <2>1, <2>2, <2>3, <2>4, <2>5, <2>6, <2>7, <2>8, <2>9, <2>10, <2>11, <2>12, <2>13,
        <2>14, <2>15 DEF PipeCallback
<1>4. CASE Shutdown
  BY <1>1, <1>4
  DEF Shutdown
<1>5. CASE Destructor
  <2>1. CASE DisconnectPipe
    BY <1>1, <1>2, <2>1 DEF DisconnectPipe
  <2>2. CASE UnregisterPipeWait
    BY <1>1, <1>2, <2>2 DEF UnregisterPipeWait
  <2>3. ASSUME NEW c \in Clients, DeleteClient(c) PROVE Registering(d)'
    BY <1>1, <1>2, <2>3 DEF DeleteClient
  <2>4. CASE ReleaseMutex
    BY <1>1, <1>2, <2>4 DEF ReleaseMutex
  <2>5. QED
    BY <1>5, <2>1, <2>2, <2>3, <2>4 DEF Destructor
<1>6. ASSUME NEW c \in Clients, PoolThread(c) PROVE Registering(d)'
  <2>1. ClientInv(c) /\ (client[c] = "ended early" => EndedEarly)
    BY <1>2
  <2>2. CASE BeginDump(c)
    BY <1>1, <2>1, <2>2 DEF BeginDump
  <2>3. CASE DumpGenerated(c)
    BY <1>1, <2>1, <2>3 DEF DumpGenerated
  <2>4. CASE EndDump(c)
    BY <1>1, <2>1, <2>4 DEF EndDump
  <2>5. CASE BeginClientEnd(c)
    BY <1>1, <2>1, <2>5 DEF BeginClientEnd
  <2>6. CASE EndClientEnd(c)
    BY <1>1, <2>1, <2>6, ZenonT(60) DEF EndClientEnd
  <2>7. QED
    BY <1>6, <2>2, <2>3, <2>4, <2>5, <2>6 DEF PoolThread
<1>7. ASSUME NEW c \in Clients, Proceed(c) PROVE Registering(d)'
  <2>1. ClientInv(c) /\ (client[c] = "ended early" => EndedEarly)
    BY <1>2
  <2>2. CASE AskToRegister(c)
    BY <1>1, <2>1, <2>2 DEF AskToRegister
  <2>3. CASE RequestUpload(c)
    BY <1>1, <2>1, <2>3 DEF RequestUpload
  <2>4. CASE GetReply(c)
    BY <1>1, <2>1, <2>4 DEF GetReply
  <2>5. CASE Acknowledge(c)
    BY <1>1, <2>1, <2>5 DEF Acknowledge
  <2>6. CASE RegistrationFails(c)
    BY <1>1, <2>1, <2>6, ZenonT(60) DEF RegistrationFails
  <2>7. CASE DumpAnswered(c)
    BY <1>1, <2>1, <2>7, ZenonT(60) DEF DumpAnswered
  <2>8. CASE ServerGone(c)
    BY <1>1, <2>1, <2>8 DEF ServerGone
  <2>9. QED
    BY <1>7, <2>2, <2>3, <2>4, <2>5, <2>6, <2>7, <2>8 DEF Proceed
<1>8. ASSUME NEW c \in Clients, Connect(c) \/ RequestDump(c) \/ TimeOut(c) \/ End(c) PROVE Registering(d)'
  <2>1. ClientInv(c) /\ (client[c] = "ended early" => EndedEarly)
    BY <1>2
  <2>2. CASE Connect(c)
    BY <1>1, <2>1, <2>2 DEF Connect
  <2>3. CASE RequestDump(c)
    BY <1>1, <2>1, <2>3, ZenonT(60) DEF RequestDump
  <2>4. CASE TimeOut(c)
    BY <1>1, <2>1, <2>4, ZenonT(60) DEF TimeOut
  <2>5. CASE End(c)
    BY <1>1, <2>1, <2>5, ZenonT(60) DEF End
  <2>6. QED
    BY <1>8, <2>2, <2>3, <2>4, <2>5
<1>9. QED
  BY <1>1, <1>3, <1>4, <1>5, <1>6, <1>7, <1>8 DEF ServerNext

(* ... what runs in the pool is known,                                        *)
LEMMA PooledKept == ASSUME ServerStep, NEW d \in Clients PROVE Pooled(d)'
<1> USE ServerAssumption DEF machine, conversation, pipe, infos, pool, dumps, clients, others,
    rest, Pending, Disconnect, Handles, GoesOn, Awaits, HandleResult, Broken, ReadFile, IsEnded,
    Delete, Destroys, Becomes, Completes, Serving, shutting_down, UseOfFreed, ServerTypeOK,
    ControlTypeOK, PipeTypeOK, InfosTypeOK, PoolTypeOK, DumpsTypeOK, ClientsTypeOK, OperationInv,
    PipeDown, Served, Adding, Unasked, ClientInv, Conversing, Registering, Pooled, Valid,
    Answering, Fresh
<1>1. /\ ServerTypeOK
      /\ OperationInv
      /\ ServerNext
      /\ server # "undefined"
      /\ server' # "undefined"
      /\ ClientInv(d)
      /\ EndedEarly => EndedEarly'
  BY EndedStays DEF ServerStep
<1>2. \A c \in Clients : ClientInv(c) /\ (client[c] = "ended early" => EndedEarly)
  BY DEF ServerStep, EndedEarly
<1>3. CASE PipeCallback
  <2>1. CASE BeginCallback
    BY <1>1, <2>1 DEF BeginCallback
  <2>2. CASE HandleErrorState
    BY <1>1, <2>2 DEF HandleErrorState
  <2>3. CASE HandleInitialState
    BY <1>1, <2>3 DEF HandleInitialState
  <2>4. CASE HandleConnectingState
    BY <1>1, <2>4 DEF HandleConnectingState
  <2>5. CASE HandleConnectedState
    BY <1>1, <2>5 DEF HandleConnectedState
  <2>6. CASE HandleReadingState
    BY <1>1, <2>6 DEF HandleReadingState
  <2>7. CASE RefuseRegistration
    BY <1>1, <2>7 DEF RefuseRegistration
  <2>8. CASE RespondToClient
    BY <1>1, <2>8 DEF RespondToClient
  <2>9. CASE SetHandle
    BY <1>1, <2>9 DEF SetHandle
  <2>10. CASE AddClient
    BY <1>1, <2>10 DEF AddClient
  <2>11. CASE AddTooLate
    BY <1>1, <2>11, ZenonT(60) DEF AddTooLate
  <2>12. CASE HandleWritingState
    BY <1>1, <2>12 DEF HandleWritingState
  <2>13. CASE HandleWriteDoneState
    BY <1>1, <2>13 DEF HandleWriteDoneState
  <2>14. CASE HandleReadingAckState
    BY <1>1, <2>14 DEF HandleReadingAckState
  <2>15. CASE HandleDisconnectingState
    BY <1>1, <2>15 DEF HandleDisconnectingState
  <2>16. QED
    BY <1>3, <2>1, <2>2, <2>3, <2>4, <2>5, <2>6, <2>7, <2>8, <2>9, <2>10, <2>11, <2>12, <2>13,
        <2>14, <2>15 DEF PipeCallback
<1>4. CASE Shutdown
  BY <1>1, <1>4
  DEF Shutdown
<1>5. CASE Destructor
  <2>1. CASE DisconnectPipe
    BY <1>1, <2>1 DEF DisconnectPipe
  <2>2. CASE UnregisterPipeWait
    BY <1>1, <2>2 DEF UnregisterPipeWait
  <2>3. ASSUME NEW c \in Clients, DeleteClient(c) PROVE Pooled(d)'
    BY <1>1, <2>3, <1>2, ZenonT(60) DEF DeleteClient
  <2>4. CASE ReleaseMutex
    BY <1>1, <2>4 DEF ReleaseMutex
  <2>5. QED
    BY <1>5, <2>1, <2>2, <2>3, <2>4 DEF Destructor
<1>6. ASSUME NEW c \in Clients, PoolThread(c) PROVE Pooled(d)'
  <2>1. ClientInv(c) /\ (client[c] = "ended early" => EndedEarly)
    BY <1>2
  <2>2. CASE BeginDump(c)
    BY <1>1, <2>1, <2>2 DEF BeginDump
  <2>3. CASE DumpGenerated(c)
    BY <1>1, <2>1, <2>3 DEF DumpGenerated
  <2>4. CASE EndDump(c)
    BY <1>1, <2>1, <2>4 DEF EndDump
  <2>5. CASE BeginClientEnd(c)
    BY <1>1, <2>1, <2>5 DEF BeginClientEnd
  <2>6. CASE EndClientEnd(c)
    BY <1>1, <2>1, <2>6, ZenonT(60) DEF EndClientEnd
  <2>7. QED
    BY <1>6, <2>2, <2>3, <2>4, <2>5, <2>6 DEF PoolThread
<1>7. ASSUME NEW c \in Clients, Proceed(c) PROVE Pooled(d)'
  <2>1. ClientInv(c) /\ (client[c] = "ended early" => EndedEarly)
    BY <1>2
  <2>2. CASE AskToRegister(c)
    BY <1>1, <2>1, <2>2 DEF AskToRegister
  <2>3. CASE RequestUpload(c)
    BY <1>1, <2>1, <2>3 DEF RequestUpload
  <2>4. CASE GetReply(c)
    BY <1>1, <2>1, <2>4 DEF GetReply
  <2>5. CASE Acknowledge(c)
    BY <1>1, <2>1, <2>5 DEF Acknowledge
  <2>6. CASE RegistrationFails(c)
    BY <1>1, <2>1, <2>6 DEF RegistrationFails
  <2>7. CASE DumpAnswered(c)
    BY <1>1, <2>1, <2>7 DEF DumpAnswered
  <2>8. CASE ServerGone(c)
    BY <1>1, <2>1, <2>8 DEF ServerGone
  <2>9. QED
    BY <1>7, <2>2, <2>3, <2>4, <2>5, <2>6, <2>7, <2>8 DEF Proceed
<1>8. ASSUME NEW c \in Clients, Connect(c) \/ RequestDump(c) \/ TimeOut(c) \/ End(c) PROVE Pooled(d)'
  <2>1. ClientInv(c) /\ (client[c] = "ended early" => EndedEarly)
    BY <1>2
  <2>2. CASE Connect(c)
    BY <1>1, <2>1, <2>2 DEF Connect
  <2>3. CASE RequestDump(c)
    BY <1>1, <2>1, <2>3 DEF RequestDump
  <2>4. CASE TimeOut(c)
    BY <1>1, <2>1, <2>4 DEF TimeOut
  <2>5. CASE End(c)
    BY <1>1, <2>1, <2>5, ZenonT(60) DEF End
  <2>6. QED
    BY <1>8, <2>2, <2>3, <2>4, <2>5
<1>9. QED
  BY <1>1, <1>3, <1>4, <1>5, <1>6, <1>7, <1>8 DEF ServerNext

(* ... what is known lives,                                                   *)
LEMMA ValidKept == ASSUME ServerStep, NEW d \in Clients PROVE Valid(d)'
<1> USE ServerAssumption DEF machine, conversation, pipe, infos, pool, dumps, clients, others,
    rest, Pending, Disconnect, Handles, GoesOn, Awaits, HandleResult, Broken, ReadFile, IsEnded,
    Delete, Destroys, Becomes, Completes, Serving, shutting_down, UseOfFreed, ServerTypeOK,
    ControlTypeOK, PipeTypeOK, InfosTypeOK, PoolTypeOK, DumpsTypeOK, ClientsTypeOK, OperationInv,
    PipeDown, Served, Adding, Unasked, ClientInv, Conversing, Registering, Pooled, Valid,
    Answering, Fresh
<1>1. /\ ServerTypeOK
      /\ OperationInv
      /\ ServerNext
      /\ server # "undefined"
      /\ server' # "undefined"
      /\ ClientInv(d)
      /\ EndedEarly => EndedEarly'
  BY EndedStays DEF ServerStep
<1>2. \A c \in Clients : ClientInv(c) /\ (client[c] = "ended early" => EndedEarly)
  BY DEF ServerStep, EndedEarly
<1>3. CASE PipeCallback
  <2>1. CASE BeginCallback
    BY <1>1, <2>1 DEF BeginCallback
  <2>2. CASE HandleErrorState
    BY <1>1, <2>2 DEF HandleErrorState
  <2>3. CASE HandleInitialState
    BY <1>1, <2>3 DEF HandleInitialState
  <2>4. CASE HandleConnectingState
    BY <1>1, <2>4 DEF HandleConnectingState
  <2>5. CASE HandleConnectedState
    BY <1>1, <2>5 DEF HandleConnectedState
  <2>6. CASE HandleReadingState
    BY <1>1, <2>6 DEF HandleReadingState
  <2>7. CASE RefuseRegistration
    BY <1>1, <2>7 DEF RefuseRegistration
  <2>8. CASE RespondToClient
    BY <1>1, <2>8 DEF RespondToClient
  <2>9. CASE SetHandle
    BY <1>1, <2>9 DEF SetHandle
  <2>10. CASE AddClient
    BY <1>1, <2>10 DEF AddClient
  <2>11. CASE AddTooLate
    BY <1>1, <2>11 DEF AddTooLate
  <2>12. CASE HandleWritingState
    BY <1>1, <2>12 DEF HandleWritingState
  <2>13. CASE HandleWriteDoneState
    BY <1>1, <2>13 DEF HandleWriteDoneState
  <2>14. CASE HandleReadingAckState
    BY <1>1, <2>14 DEF HandleReadingAckState
  <2>15. CASE HandleDisconnectingState
    BY <1>1, <2>15 DEF HandleDisconnectingState
  <2>16. QED
    BY <1>3, <2>1, <2>2, <2>3, <2>4, <2>5, <2>6, <2>7, <2>8, <2>9, <2>10, <2>11, <2>12, <2>13,
        <2>14, <2>15 DEF PipeCallback
<1>4. CASE Shutdown
  BY <1>1, <1>4
  DEF Shutdown
<1>5. CASE Destructor
  <2>1. CASE DisconnectPipe
    BY <1>1, <2>1 DEF DisconnectPipe
  <2>2. CASE UnregisterPipeWait
    BY <1>1, <2>2 DEF UnregisterPipeWait
  <2>3. ASSUME NEW c \in Clients, DeleteClient(c) PROVE Valid(d)'
    BY <1>1, <2>3, ZenonT(60) DEF DeleteClient
  <2>4. CASE ReleaseMutex
    BY <1>1, <2>4 DEF ReleaseMutex
  <2>5. QED
    BY <1>5, <2>1, <2>2, <2>3, <2>4 DEF Destructor
<1>6. ASSUME NEW c \in Clients, PoolThread(c) PROVE Valid(d)'
  <2>1. ClientInv(c) /\ (client[c] = "ended early" => EndedEarly)
    BY <1>2
  <2>2. CASE BeginDump(c)
    BY <1>1, <2>1, <2>2 DEF BeginDump
  <2>3. CASE DumpGenerated(c)
    BY <1>1, <2>1, <2>3 DEF DumpGenerated
  <2>4. CASE EndDump(c)
    BY <1>1, <2>1, <2>4 DEF EndDump
  <2>5. CASE BeginClientEnd(c)
    BY <1>1, <2>1, <2>5 DEF BeginClientEnd
  <2>6. CASE EndClientEnd(c)
    BY <1>1, <2>1, <2>6, ZenonT(60) DEF EndClientEnd
  <2>7. QED
    BY <1>6, <2>2, <2>3, <2>4, <2>5, <2>6 DEF PoolThread
<1>7. ASSUME NEW c \in Clients, Proceed(c) PROVE Valid(d)'
  <2>1. ClientInv(c) /\ (client[c] = "ended early" => EndedEarly)
    BY <1>2
  <2>2. CASE AskToRegister(c)
    BY <1>1, <2>1, <2>2 DEF AskToRegister
  <2>3. CASE RequestUpload(c)
    BY <1>1, <2>1, <2>3 DEF RequestUpload
  <2>4. CASE GetReply(c)
    BY <1>1, <2>1, <2>4 DEF GetReply
  <2>5. CASE Acknowledge(c)
    BY <1>1, <2>1, <2>5 DEF Acknowledge
  <2>6. CASE RegistrationFails(c)
    BY <1>1, <2>1, <2>6 DEF RegistrationFails
  <2>7. CASE DumpAnswered(c)
    BY <1>1, <2>1, <2>7 DEF DumpAnswered
  <2>8. CASE ServerGone(c)
    BY <1>1, <2>1, <2>8 DEF ServerGone
  <2>9. QED
    BY <1>7, <2>2, <2>3, <2>4, <2>5, <2>6, <2>7, <2>8 DEF Proceed
<1>8. ASSUME NEW c \in Clients, Connect(c) \/ RequestDump(c) \/ TimeOut(c) \/ End(c) PROVE Valid(d)'
  <2>1. ClientInv(c) /\ (client[c] = "ended early" => EndedEarly)
    BY <1>2
  <2>2. CASE Connect(c)
    BY <1>1, <2>1, <2>2 DEF Connect
  <2>3. CASE RequestDump(c)
    BY <1>1, <2>1, <2>3 DEF RequestDump
  <2>4. CASE TimeOut(c)
    BY <1>1, <2>1, <2>4 DEF TimeOut
  <2>5. CASE End(c)
    BY <1>1, <2>1, <2>5 DEF End
  <2>6. QED
    BY <1>8, <2>2, <2>3, <2>4, <2>5
<1>9. QED
  BY <1>1, <1>3, <1>4, <1>5, <1>6, <1>7, <1>8 DEF ServerNext

(* ... no request is answered twice,                                          *)
LEMMA AnsweringKept == ASSUME ServerStep, NEW d \in Clients PROVE Answering(d)'
<1> USE ServerAssumption DEF machine, conversation, pipe, infos, pool, dumps, clients, others,
    rest, Pending, Disconnect, Handles, GoesOn, Awaits, HandleResult, Broken, ReadFile, IsEnded,
    Delete, Destroys, Becomes, Completes, Serving, shutting_down, UseOfFreed, ServerTypeOK,
    ControlTypeOK, PipeTypeOK, InfosTypeOK, PoolTypeOK, DumpsTypeOK, ClientsTypeOK, OperationInv,
    PipeDown, Served, Adding, Unasked, ClientInv, Conversing, Registering, Pooled, Valid,
    Answering, Fresh
<1>1. /\ ServerTypeOK
      /\ OperationInv
      /\ ServerNext
      /\ server # "undefined"
      /\ server' # "undefined"
      /\ ClientInv(d)
      /\ EndedEarly => EndedEarly'
  BY EndedStays DEF ServerStep
<1>2. \A c \in Clients : ClientInv(c) /\ (client[c] = "ended early" => EndedEarly)
  BY DEF ServerStep, EndedEarly
<1>3. CASE PipeCallback
  <2>1. CASE BeginCallback
    BY <1>1, <2>1 DEF BeginCallback
  <2>2. CASE HandleErrorState
    BY <1>1, <2>2 DEF HandleErrorState
  <2>3. CASE HandleInitialState
    BY <1>1, <2>3 DEF HandleInitialState
  <2>4. CASE HandleConnectingState
    BY <1>1, <2>4 DEF HandleConnectingState
  <2>5. CASE HandleConnectedState
    BY <1>1, <2>5 DEF HandleConnectedState
  <2>6. CASE HandleReadingState
    BY <1>1, <2>6 DEF HandleReadingState
  <2>7. CASE RefuseRegistration
    BY <1>1, <2>7 DEF RefuseRegistration
  <2>8. CASE RespondToClient
    BY <1>1, <2>8 DEF RespondToClient
  <2>9. CASE SetHandle
    BY <1>1, <2>9 DEF SetHandle
  <2>10. CASE AddClient
    BY <1>1, <2>10 DEF AddClient
  <2>11. CASE AddTooLate
    BY <1>1, <2>11 DEF AddTooLate
  <2>12. CASE HandleWritingState
    BY <1>1, <2>12 DEF HandleWritingState
  <2>13. CASE HandleWriteDoneState
    BY <1>1, <2>13 DEF HandleWriteDoneState
  <2>14. CASE HandleReadingAckState
    BY <1>1, <2>14 DEF HandleReadingAckState
  <2>15. CASE HandleDisconnectingState
    BY <1>1, <2>15 DEF HandleDisconnectingState
  <2>16. QED
    BY <1>3, <2>1, <2>2, <2>3, <2>4, <2>5, <2>6, <2>7, <2>8, <2>9, <2>10, <2>11, <2>12, <2>13,
        <2>14, <2>15 DEF PipeCallback
<1>4. CASE Shutdown
  BY <1>1, <1>4
  DEF Shutdown
<1>5. CASE Destructor
  <2>1. CASE DisconnectPipe
    BY <1>1, <2>1 DEF DisconnectPipe
  <2>2. CASE UnregisterPipeWait
    BY <1>1, <2>2 DEF UnregisterPipeWait
  <2>3. ASSUME NEW c \in Clients, DeleteClient(c) PROVE Answering(d)'
    BY <1>1, <2>3, <1>2, ZenonT(60) DEF DeleteClient
  <2>4. CASE ReleaseMutex
    BY <1>1, <2>4 DEF ReleaseMutex
  <2>5. QED
    BY <1>5, <2>1, <2>2, <2>3, <2>4 DEF Destructor
<1>6. ASSUME NEW c \in Clients, PoolThread(c) PROVE Answering(d)'
  <2>1. ClientInv(c) /\ (client[c] = "ended early" => EndedEarly)
    BY <1>2
  <2>2. CASE BeginDump(c)
    BY <1>1, <2>1, <2>2, ZenonT(60) DEF BeginDump
  <2>3. CASE DumpGenerated(c)
    BY <1>1, <2>1, <2>3 DEF DumpGenerated
  <2>4. CASE EndDump(c)
    BY <1>1, <2>1, <2>4 DEF EndDump
  <2>5. CASE BeginClientEnd(c)
    BY <1>1, <2>1, <2>5 DEF BeginClientEnd
  <2>6. CASE EndClientEnd(c)
    BY <1>1, <2>1, <2>6 DEF EndClientEnd
  <2>7. QED
    BY <1>6, <2>2, <2>3, <2>4, <2>5, <2>6 DEF PoolThread
<1>7. ASSUME NEW c \in Clients, Proceed(c) PROVE Answering(d)'
  <2>1. ClientInv(c) /\ (client[c] = "ended early" => EndedEarly)
    BY <1>2
  <2>2. CASE AskToRegister(c)
    BY <1>1, <2>1, <2>2 DEF AskToRegister
  <2>3. CASE RequestUpload(c)
    BY <1>1, <2>1, <2>3 DEF RequestUpload
  <2>4. CASE GetReply(c)
    BY <1>1, <2>1, <2>4 DEF GetReply
  <2>5. CASE Acknowledge(c)
    BY <1>1, <2>1, <2>5 DEF Acknowledge
  <2>6. CASE RegistrationFails(c)
    BY <1>1, <2>1, <2>6, ZenonT(60) DEF RegistrationFails
  <2>7. CASE DumpAnswered(c)
    BY <1>1, <2>1, <2>7 DEF DumpAnswered
  <2>8. CASE ServerGone(c)
    BY <1>1, <2>1, <2>8 DEF ServerGone
  <2>9. QED
    BY <1>7, <2>2, <2>3, <2>4, <2>5, <2>6, <2>7, <2>8 DEF Proceed
<1>8. ASSUME NEW c \in Clients, Connect(c) \/ RequestDump(c) \/ TimeOut(c) \/ End(c) PROVE Answering(d)'
  <2>1. ClientInv(c) /\ (client[c] = "ended early" => EndedEarly)
    BY <1>2
  <2>2. CASE Connect(c)
    BY <1>1, <2>1, <2>2 DEF Connect
  <2>3. CASE RequestDump(c)
    BY <1>1, <2>1, <2>3 DEF RequestDump
  <2>4. CASE TimeOut(c)
    BY <1>1, <2>1, <2>4 DEF TimeOut
  <2>5. CASE End(c)
    BY <1>1, <2>1, <2>5 DEF End
  <2>6. QED
    BY <1>8, <2>2, <2>3, <2>4, <2>5
<1>9. QED
  BY <1>1, <1>3, <1>4, <1>5, <1>6, <1>7, <1>8 DEF ServerNext

(* ... and every answer is one to the last request.                           *)
LEMMA FreshKept == ASSUME ServerStep, NEW d \in Clients PROVE Fresh(d)'
<1> USE ServerAssumption DEF machine, conversation, pipe, infos, pool, dumps, clients, others,
    rest, Pending, Disconnect, Handles, GoesOn, Awaits, HandleResult, Broken, ReadFile, IsEnded,
    Delete, Destroys, Becomes, Completes, Serving, shutting_down, UseOfFreed, ServerTypeOK,
    ControlTypeOK, PipeTypeOK, InfosTypeOK, PoolTypeOK, DumpsTypeOK, ClientsTypeOK, OperationInv,
    PipeDown, Served, Adding, Unasked, ClientInv, Conversing, Registering, Pooled, Valid,
    Answering, Fresh
<1>1. /\ ServerTypeOK
      /\ OperationInv
      /\ ServerNext
      /\ server # "undefined"
      /\ server' # "undefined"
      /\ ClientInv(d)
      /\ EndedEarly => EndedEarly'
  BY EndedStays DEF ServerStep
<1>2. \A c \in Clients : ClientInv(c) /\ (client[c] = "ended early" => EndedEarly)
  BY DEF ServerStep, EndedEarly
<1>3. CASE PipeCallback
  <2>1. CASE BeginCallback
    BY <1>1, <2>1 DEF BeginCallback
  <2>2. CASE HandleErrorState
    BY <1>1, <2>2 DEF HandleErrorState
  <2>3. CASE HandleInitialState
    BY <1>1, <2>3 DEF HandleInitialState
  <2>4. CASE HandleConnectingState
    BY <1>1, <2>4 DEF HandleConnectingState
  <2>5. CASE HandleConnectedState
    BY <1>1, <2>5 DEF HandleConnectedState
  <2>6. CASE HandleReadingState
    BY <1>1, <2>6 DEF HandleReadingState
  <2>7. CASE RefuseRegistration
    BY <1>1, <2>7 DEF RefuseRegistration
  <2>8. CASE RespondToClient
    BY <1>1, <2>8 DEF RespondToClient
  <2>9. CASE SetHandle
    BY <1>1, <2>9 DEF SetHandle
  <2>10. CASE AddClient
    BY <1>1, <2>10 DEF AddClient
  <2>11. CASE AddTooLate
    BY <1>1, <2>11 DEF AddTooLate
  <2>12. CASE HandleWritingState
    BY <1>1, <2>12 DEF HandleWritingState
  <2>13. CASE HandleWriteDoneState
    BY <1>1, <2>13 DEF HandleWriteDoneState
  <2>14. CASE HandleReadingAckState
    BY <1>1, <2>14 DEF HandleReadingAckState
  <2>15. CASE HandleDisconnectingState
    BY <1>1, <2>15 DEF HandleDisconnectingState
  <2>16. QED
    BY <1>3, <2>1, <2>2, <2>3, <2>4, <2>5, <2>6, <2>7, <2>8, <2>9, <2>10, <2>11, <2>12, <2>13,
        <2>14, <2>15 DEF PipeCallback
<1>4. CASE Shutdown
  BY <1>1, <1>4
  DEF Shutdown
<1>5. CASE Destructor
  <2>1. CASE DisconnectPipe
    BY <1>1, <1>2, <2>1 DEF DisconnectPipe
  <2>2. CASE UnregisterPipeWait
    BY <1>1, <1>2, <2>2 DEF UnregisterPipeWait
  <2>3. ASSUME NEW c \in Clients, DeleteClient(c) PROVE Fresh(d)'
    BY <1>1, <1>2, <2>3, ZenonT(60) DEF DeleteClient
  <2>4. CASE ReleaseMutex
    BY <1>1, <1>2, <2>4 DEF ReleaseMutex
  <2>5. QED
    BY <1>5, <2>1, <2>2, <2>3, <2>4 DEF Destructor
<1>6. ASSUME NEW c \in Clients, PoolThread(c) PROVE Fresh(d)'
  <2>1. ClientInv(c) /\ (client[c] = "ended early" => EndedEarly)
    BY <1>2
  <2>2. CASE BeginDump(c)
    BY <1>1, <2>1, <2>2 DEF BeginDump
  <2>3. CASE DumpGenerated(c)
    BY <1>1, <2>1, <2>3 DEF DumpGenerated
  <2>4. CASE EndDump(c)
    BY <1>1, <2>1, <2>4 DEF EndDump
  <2>5. CASE BeginClientEnd(c)
    BY <1>1, <2>1, <2>5 DEF BeginClientEnd
  <2>6. CASE EndClientEnd(c)
    BY <1>1, <2>1, <2>6 DEF EndClientEnd
  <2>7. QED
    BY <1>6, <2>2, <2>3, <2>4, <2>5, <2>6 DEF PoolThread
<1>7. ASSUME NEW c \in Clients, Proceed(c) PROVE Fresh(d)'
  <2>1. ClientInv(c) /\ (client[c] = "ended early" => EndedEarly)
    BY <1>2
  <2>2. CASE AskToRegister(c)
    BY <1>1, <2>1, <2>2 DEF AskToRegister
  <2>3. CASE RequestUpload(c)
    BY <1>1, <2>1, <2>3 DEF RequestUpload
  <2>4. CASE GetReply(c)
    BY <1>1, <2>1, <2>4 DEF GetReply
  <2>5. CASE Acknowledge(c)
    BY <1>1, <2>1, <2>5 DEF Acknowledge
  <2>6. CASE RegistrationFails(c)
    BY <1>1, <2>1, <2>6 DEF RegistrationFails
  <2>7. CASE DumpAnswered(c)
    BY <1>1, <2>1, <2>7 DEF DumpAnswered
  <2>8. CASE ServerGone(c)
    BY <1>1, <2>1, <2>8 DEF ServerGone
  <2>9. QED
    BY <1>7, <2>2, <2>3, <2>4, <2>5, <2>6, <2>7, <2>8 DEF Proceed
<1>8. ASSUME NEW c \in Clients, Connect(c) \/ RequestDump(c) \/ TimeOut(c) \/ End(c) PROVE Fresh(d)'
  <2>1. ClientInv(c) /\ (client[c] = "ended early" => EndedEarly)
    BY <1>2
  <2>2. CASE Connect(c)
    BY <1>1, <2>1, <2>2 DEF Connect
  <2>3. CASE RequestDump(c)
    BY <1>1, <2>1, <2>3 DEF RequestDump
  <2>4. CASE TimeOut(c)
    BY <1>1, <2>1, <2>4 DEF TimeOut
  <2>5. CASE End(c)
    BY <1>1, <2>1, <2>5 DEF End
  <2>6. QED
    BY <1>8, <2>2, <2>3, <2>4, <2>5
<1>9. QED
  BY <1>1, <1>3, <1>4, <1>5, <1>6, <1>7, <1>8 DEF ServerNext

(* A freed object is only used after a process has ended early.               *)
LEMMA FreedEarly ==
  ASSUME ServerInv, ServerNext, server # "undefined", server' = "undefined"
  PROVE  EndedEarly /\ UseOfFreed
<1> USE ServerAssumption DEF machine, conversation, pipe, infos, pool, dumps, clients, others, rest, Serving,
        shutting_down, Handles, HandleResult, Destroys, Becomes, ServerTypeOK, ControlTypeOK,
        PipeTypeOK, InfosTypeOK
<1>1. /\ ServerTypeOK
      /\ OperationInv
      /\ server # "undefined"
      /\ server' = "undefined"
  BY DEF ServerInv
<1>2. \A c \in Clients : Valid(c)
  BY DEF ServerInv, ClientInv
<1>3. CASE PipeCallback
  <2>1. /\ current \in Clients
        /\ info[current] = "freed"
        /\ current \in listed \/ Adding(current)
        /\ UseOfFreed
    BY <1>1, <1>3 DEF PipeCallback, BeginCallback, HandleErrorState, HandleInitialState,
         HandleConnectingState, HandleConnectedState, HandleReadingState, RefuseRegistration, RespondToClient,
         SetHandle, AddClient, AddTooLate, HandleWritingState, HandleWriteDoneState, HandleReadingAckState,
         HandleDisconnectingState, OperationInv, Adding
  <2>2. Valid(current)
    BY <1>2, <2>1
  <2>3. QED
    BY <2>1, <2>2 DEF Valid
<1>4. CASE Destructor
  <2>1. \E c \in Clients : c \in listed /\ info[c] = "freed" /\ UseOfFreed
    BY <1>1, <1>4 DEF Destructor, DisconnectPipe, UnregisterPipeWait, DeleteClient, ReleaseMutex
  <2>2. QED
    BY <1>2, <2>1 DEF Valid
<1>5. CASE Shutdown
  BY <1>1, <1>5 DEF Shutdown
<1>6. ASSUME NEW c \in Clients, PoolThread(c) PROVE FALSE
  BY <1>1, <1>6 DEF PoolThread, BeginDump, DumpGenerated, EndDump, BeginClientEnd, EndClientEnd
<1>7. ASSUME NEW c \in Clients, Proceed(c) PROVE FALSE
  BY <1>1, <1>7 DEF Proceed, AskToRegister, RequestUpload, GetReply, Acknowledge, RegistrationFails,
       DumpAnswered, ServerGone
<1>8. ASSUME NEW c \in Clients, Connect(c) \/ RequestDump(c) \/ TimeOut(c) \/ End(c) PROVE FALSE
  BY <1>1, <1>8 DEF Connect, RequestDump, TimeOut, End
<1>9. QED
  BY <1>3, <1>4, <1>5, <1>6, <1>7, <1>8 DEF ServerNext

(* ... and then nothing else happens.                                         *)
LEMMA FreedStops == ASSUME server = "undefined" PROVE ~ServerNext
<1> USE DEF Serving, Handles, HandleResult, Destroys, Becomes
<1>1. ~PipeCallback
  BY DEF PipeCallback, BeginCallback, HandleErrorState, HandleInitialState, HandleConnectingState,
       HandleConnectedState, HandleReadingState, RefuseRegistration, RespondToClient, SetHandle, AddClient,
       AddTooLate, HandleWritingState, HandleWriteDoneState, HandleReadingAckState, HandleDisconnectingState
<1>2. ~(Shutdown \/ Destructor)
  BY DEF Shutdown, Destructor, DisconnectPipe, UnregisterPipeWait, DeleteClient, ReleaseMutex
<1>3. ASSUME NEW c \in Clients PROVE ~(PoolThread(c) \/ Proceed(c))
  BY DEF PoolThread, BeginDump, DumpGenerated, EndDump, BeginClientEnd, EndClientEnd, Proceed, AskToRegister,
       RequestUpload, GetReply, Acknowledge, RegistrationFails, DumpAnswered, ServerGone
<1>4. ASSUME NEW c \in Clients PROVE ~(Connect(c) \/ RequestDump(c) \/ TimeOut(c) \/ End(c))
  BY DEF Connect, RequestDump, TimeOut, End
<1>5. QED
  BY <1>1, <1>2, <1>3, <1>4 DEF ServerNext

(* The invariant holds at first,                                              *)
LEMMA ServerStarts == ASSUME ServerInit PROVE ServerInv
<1> USE ServerAssumption DEF ServerInit
<1>1. ServerTypeOK
  BY DEF ServerTypeOK, ControlTypeOK, PipeTypeOK, InfosTypeOK, PoolTypeOK, DumpsTypeOK, ClientsTypeOK
<1>2. OperationInv
  BY DEF OperationInv, Pending, PipeDown
<1>3. ASSUME NEW c \in Clients PROVE ClientInv(c)
  <2>1. Conversing(c) /\ Registering(c)
    BY DEF Conversing, Registering
  <2>2. Pooled(c) /\ Valid(c)
    BY DEF Pooled, Valid, Adding
  <2>3. Answering(c) /\ Fresh(c)
    BY DEF Answering, Unasked, Fresh
  <2>4. QED
    BY <2>1, <2>2, <2>3 DEF ClientInv
<1>4. QED
  BY <1>1, <1>2, <1>3 DEF ServerInv, AnswersAreFresh, ClientInv, Fresh

(* ... and every step keeps it.                                               *)
LEMMA ServerKept == ASSUME ServerInv, [ServerNext]_serverVars PROVE ServerInv'
<1>1. CASE ServerNext /\ server' # "undefined"
  <2>1. ServerStep
    BY <1>1, FreedStops DEF ServerInv, ServerStep
  <2>2. ServerTypeOK' /\ OperationInv'
    BY <2>1, ServerTyping, OperationKept
  <2>3. ASSUME NEW d \in Clients PROVE ClientInv(d)'
    BY <2>1, ConversingKept, RegisteringKept, PooledKept, ValidKept, AnsweringKept, FreshKept DEF ClientInv
  <2>4. QED
    BY <1>1, <2>2, <2>3 DEF ServerInv, AnswersAreFresh, ClientInv, Fresh
<1>2. CASE ServerNext /\ server' = "undefined"
  <2>1. EndedEarly /\ UseOfFreed
    BY <1>2, FreedEarly, FreedStops
  <2>2. ServerTypeOK'
    <3> USE <2>1 DEF UseOfFreed
    <3>1. ServerTypeOK
      BY DEF ServerInv
    <3>2. ControlTypeOK' /\ PipeTypeOK'
      BY <3>1 DEF ServerTypeOK, ControlTypeOK, PipeTypeOK, machine, pipe, conversation
    <3>3. InfosTypeOK' /\ PoolTypeOK' /\ DumpsTypeOK' /\ ClientsTypeOK'
      BY <3>1 DEF ServerTypeOK, InfosTypeOK, PoolTypeOK, DumpsTypeOK, ClientsTypeOK, infos, pool, dumps, clients
    <3>4. QED
      BY <3>2, <3>3 DEF ServerTypeOK
  <2>3. EndedEarly' /\ AnswersAreFresh'
    BY <2>1 DEF ServerInv, UseOfFreed, EndedEarly, AnswersAreFresh, dumps, clients
  <2>4. QED
    BY <1>2, <2>2, <2>3 DEF ServerInv
<1>3. CASE UNCHANGED serverVars
  <2> USE <1>3 DEF serverVars, machine, pipe, conversation, infos, pool, dumps, clients
  <2>1. ServerTypeOK' <=> ServerTypeOK
    BY DEF ServerTypeOK, ControlTypeOK, PipeTypeOK, InfosTypeOK, PoolTypeOK, DumpsTypeOK, ClientsTypeOK
  <2>2. OperationInv' <=> OperationInv
    BY DEF OperationInv, Pending, PipeDown
  <2>3. ASSUME NEW c \in Clients PROVE ClientInv(c)' <=> ClientInv(c)
    <3>1. EndedEarly' <=> EndedEarly
      BY DEF EndedEarly
    <3>2. (Conversing(c)' <=> Conversing(c)) /\ (Registering(c)' <=> Registering(c))
      BY DEF Conversing, Registering, Served, shutting_down
    <3>3. (Pooled(c)' <=> Pooled(c)) /\ (Valid(c)' <=> Valid(c))
      BY <3>1 DEF Pooled, Adding, IsEnded, Valid
    <3>4. (Answering(c)' <=> Answering(c)) /\ (Fresh(c)' <=> Fresh(c))
      BY DEF Answering, Unasked, Fresh
    <3>5. QED
      BY <3>2, <3>3, <3>4 DEF ClientInv
  <2>4. (AnswersAreFresh' <=> AnswersAreFresh) /\ (EndedEarly' <=> EndedEarly)
    BY DEF AnswersAreFresh, EndedEarly
  <2>5. QED
    BY <2>1, <2>2, <2>3, <2>4 DEF ServerInv
<1>4. QED
  BY <1>1, <1>2, <1>3

(* For any number of clients that ask for any number of dumps, connect, time  *)
(* out and end in any order, with the server being shut down at any moment.   *)
THEOREM ServerCorrect == ServerSpec => []ServerInv
<1>1. QED
  BY ServerStarts, ServerKept, PTL DEF ServerSpec

(* A ClientInfo that has been deleted is used only if a process ended between *)
(* its registration and AddClient (OnClientEnd against HandleReadDoneState).  *)
THEOREM NoFreedInfo == ServerSpec => []InfosAreValid
<1>1. ServerInv => InfosAreValid
  BY DEF ServerInv, InfosAreValid, EndedEarly
<1>2. QED
  BY <1>1, ServerCorrect, PTL

(* A client that has never given up is told of a dump only when the dump is   *)
(* the one it asked for last (SignalCrashEventAndWait, HandleDumpRequest).    *)
THEOREM AnswersBelong == ServerSpec => []AnswersAreFresh
<1>1. ServerInv => AnswersAreFresh
  BY DEF ServerInv
<1>2. QED
  BY <1>1, ServerCorrect, PTL

(* When the destructor of the server has returned, no wait, no callback and   *)
(* no operation is left that could use it.                                    *)
THEOREM NothingLeft == ServerSpec => []NothingOutlivesServer
<1>1. ASSUME ServerInv, server = "gone" PROVE NothingOutlivesServer
  <2>1. /\ OperationInv
        /\ ServerTypeOK
        /\ \A c \in Clients : Pooled(c)
    BY <1>1 DEF ServerInv, ClientInv
  <2>2. callback = "out" /\ listed = {}
    BY <1>1, <2>1 DEF OperationInv
  <2>3. \A c \in Clients : c \notin dumpWait \cup exitWait /\ dumping[c] = "idle" /\ ending[c] # "unregistering"
    BY <2>1, <2>2 DEF Pooled, Adding
  <2>4. dumpWait \cup exitWait = {}
    BY <2>1, <2>3 DEF ServerTypeOK, InfosTypeOK
  <2>5. Pending => state = "CONNECTING" /\ io = "connect"
    BY <1>1, <2>1 DEF OperationInv, PipeDown
  <2>6. QED
    BY <2>2, <2>3, <2>4, <2>5 DEF NothingOutlivesServer
<1>2. ServerInv => NothingOutlivesServer
  BY <1>1 DEF NothingOutlivesServer
<1>3. QED
  BY <1>2, ServerCorrect, PTL

(* ------------------------ the first request is kept ----------------------- *)

(* What becomes of the requests of c: before the first none is in the events  *)
(* or under way, and the first is signaled until it is answered.  A client    *)
(* that has been replied to has a ClientInfo, whose dump wait is registered   *)
(* as long as both live, and which is deleted only with the process or the    *)
(* server.                                                                    *)
Asked(c) ==
  /\ asked[c] = 0 => c \notin requested /\ dumping[c] = "idle"
  /\ asked[c] = 1 => c \in generated \/ (c \in requested /\ dumping[c] # "generated")
  /\ client[c] \in {"replied", "registered", "waiting"} => info[c] # "none"
  /\ info[c] = "live" /\ ~IsEnded(c) => c \in dumpWait
  /\ info[c] = "freed" => shutting_down \/ IsEnded(c)

RequestsInv == server # "undefined" => \A c \in Clients : Asked(c)

(* The request that is counted is the first only if there was none.           *)
LEMMA OneMore == \A n \in Nat : n + 1 # 0 /\ (n + 1 = 1 => n = 0)
  OBVIOUS

(* No step of a thread or a process loses the first request of a client.      *)
LEMMA AskedKept ==
  ASSUME ServerStep, \A c \in Clients : Asked(c), NEW d \in Clients
  PROVE  Asked(d)'
<1> USE ServerAssumption DEF machine, conversation, pipe, infos, pool, dumps, clients, others,
    rest, Pending, Disconnect, Handles, GoesOn, Awaits, HandleResult, Broken, ReadFile, IsEnded,
    Delete, Destroys, Becomes, Completes, Serving, shutting_down, UseOfFreed, ServerTypeOK,
    ControlTypeOK, PipeTypeOK, InfosTypeOK, PoolTypeOK, DumpsTypeOK, ClientsTypeOK, OperationInv,
    PipeDown, Served, Adding, Unasked, ClientInv, Conversing, Registering, Pooled, Valid,
    Answering, Fresh, Asked
<1>1. /\ ServerTypeOK
      /\ OperationInv
      /\ ServerNext
      /\ server # "undefined"
      /\ server' # "undefined"
      /\ ClientInv(d) /\ Asked(d)
      /\ EndedEarly => EndedEarly'
  BY EndedStays DEF ServerStep
<1>2. \A c \in Clients : ClientInv(c) /\ Asked(c) /\ (client[c] = "ended early" => EndedEarly)
  BY ZenonT(60) DEF ServerStep, EndedEarly
<1>3. CASE PipeCallback
  <2>1. CASE BeginCallback
    BY <1>1, <2>1 DEF BeginCallback
  <2>2. CASE HandleErrorState
    BY <1>1, <2>2 DEF HandleErrorState
  <2>3. CASE HandleInitialState
    BY <1>1, <2>3 DEF HandleInitialState
  <2>4. CASE HandleConnectingState
    BY <1>1, <2>4 DEF HandleConnectingState
  <2>5. CASE HandleConnectedState
    BY <1>1, <2>5 DEF HandleConnectedState
  <2>6. CASE HandleReadingState
    BY <1>1, <2>6 DEF HandleReadingState
  <2>7. CASE RefuseRegistration
    BY <1>1, <2>7 DEF RefuseRegistration
  <2>8. CASE RespondToClient
    BY <1>1, <2>8 DEF RespondToClient
  <2>9. CASE SetHandle
    BY <1>1, <2>9, ZenonT(60) DEF SetHandle
  <2>10. CASE AddClient
    BY <1>1, <2>10 DEF AddClient
  <2>11. CASE AddTooLate
    BY <1>1, <2>11, ZenonT(60) DEF AddTooLate
  <2>12. CASE HandleWritingState
    BY <1>1, <2>12 DEF HandleWritingState
  <2>13. CASE HandleWriteDoneState
    BY <1>1, <2>13 DEF HandleWriteDoneState
  <2>14. CASE HandleReadingAckState
    BY <1>1, <2>14, ZenonT(60) DEF HandleReadingAckState
  <2>15. CASE HandleDisconnectingState
    BY <1>1, <2>15 DEF HandleDisconnectingState
  <2>16. QED
    BY <1>3, <2>1, <2>2, <2>3, <2>4, <2>5, <2>6, <2>7, <2>8, <2>9, <2>10, <2>11, <2>12, <2>13,
        <2>14, <2>15 DEF PipeCallback
<1>4. CASE Shutdown
  BY <1>1, <1>4
  DEF Shutdown
<1>5. CASE Destructor
  <2>1. CASE DisconnectPipe
    BY <1>1, <2>1 DEF DisconnectPipe
  <2>2. CASE UnregisterPipeWait
    BY <1>1, <2>2 DEF UnregisterPipeWait
  <2>3. ASSUME NEW c \in Clients, DeleteClient(c) PROVE Asked(d)'
    <3>1. /\ server = "deleting" /\ server' = server
          /\ info' = [info EXCEPT ![c] = "freed"] /\ dumpWait' = dumpWait \ {c}
          /\ UNCHANGED <<requested, generated, dumping, asked, client>>
      BY <1>1, <2>3 DEF DeleteClient
    <3>2. QED
      BY <1>1, <3>1
  <2>4. CASE ReleaseMutex
    BY <1>1, <2>4 DEF ReleaseMutex
  <2>5. QED
    BY <1>5, <2>1, <2>2, <2>3, <2>4 DEF Destructor
<1>6. ASSUME NEW c \in Clients, PoolThread(c) PROVE Asked(d)'
  <2>1. ClientInv(c) /\ Asked(c) /\ (client[c] = "ended early" => EndedEarly)
    BY <1>2
  <2>2. CASE BeginDump(c)
    BY <1>1, <2>1, <2>2, ZenonT(60) DEF BeginDump
  <2>3. CASE DumpGenerated(c)
    BY <1>1, <2>1, <2>3, ZenonT(60) DEF DumpGenerated
  <2>4. CASE EndDump(c)
    BY <1>1, <2>1, <2>4, ZenonT(60) DEF EndDump
  <2>5. CASE BeginClientEnd(c)
    BY <1>1, <2>1, <2>5, ZenonT(60) DEF BeginClientEnd
  <2>6. CASE EndClientEnd(c)
    BY <1>1, <2>1, <2>6, ZenonT(60) DEF EndClientEnd
  <2>7. QED
    BY <1>6, <2>2, <2>3, <2>4, <2>5, <2>6 DEF PoolThread
<1>7. ASSUME NEW c \in Clients, Proceed(c) PROVE Asked(d)'
  <2>1. ClientInv(c) /\ Asked(c) /\ (client[c] = "ended early" => EndedEarly)
    BY <1>2
  <2>2. CASE AskToRegister(c)
    BY <1>1, <2>1, <2>2, ZenonT(60) DEF AskToRegister
  <2>3. CASE RequestUpload(c)
    BY <1>1, <2>1, <2>3, ZenonT(60) DEF RequestUpload
  <2>4. CASE GetReply(c)
    BY <1>1, <2>1, <2>4 DEF GetReply
  <2>5. CASE Acknowledge(c)
    BY <1>1, <2>1, <2>5, ZenonT(60) DEF Acknowledge
  <2>6. CASE RegistrationFails(c)
    BY <1>1, <2>1, <2>6, ZenonT(60) DEF RegistrationFails
  <2>7. CASE DumpAnswered(c)
    BY <1>1, <2>1, <2>7 DEF DumpAnswered
  <2>8. CASE ServerGone(c)
    BY <1>1, <2>1, <2>8 DEF ServerGone
  <2>9. QED
    BY <1>7, <2>2, <2>3, <2>4, <2>5, <2>6, <2>7, <2>8 DEF Proceed
<1>8. ASSUME NEW c \in Clients, Connect(c) \/ RequestDump(c) \/ TimeOut(c) \/ End(c) PROVE Asked(d)'
  <2>1. ClientInv(c) /\ Asked(c) /\ (client[c] = "ended early" => EndedEarly)
    BY <1>2
  <2>2. CASE Connect(c)
    BY <1>1, <2>1, <2>2 DEF Connect
  <2>3. CASE RequestDump(c)
    <3>1. CASE c = d
      <4>1. /\ asked' = [asked EXCEPT ![d] = @ + 1]
            /\ requested' = requested \cup {d} /\ generated' = generated \ {d}
            /\ client[d] = "registered" /\ client' = [client EXCEPT ![d] = "waiting"]
            /\ UNCHANGED <<server, info, dumpWait, dumping>>
        BY <2>3, <3>1 DEF RequestDump
      <4>2. asked[d] \in Nat /\ asked'[d] = asked[d] + 1 /\ d \in requested'
        BY <1>1, <4>1
      <4>3. client'[d] = "waiting" /\ Asked(d)
        BY <1>1, <4>1
      <4>4. asked[d] = 0 => dumping[d] = "idle"
        BY <4>3, Zenon
      <4>5. (info[d] = "live" => d \in dumpWait) /\ (info[d] = "freed" => shutting_down) /\ info[d] # "none"
        BY <4>1, <4>3
      <4>6. asked'[d] # 0 /\ (asked'[d] = 1 => asked[d] = 0)
        BY <4>2, OneMore, Zenon
      <4>7. QED
        BY <4>1, <4>2, <4>3, <4>4, <4>5, <4>6, Zenon
    <3>2. CASE c # d
      BY <1>1, <2>3, <3>2, ZenonT(60) DEF RequestDump
    <3>3. QED
      BY <3>1, <3>2
  <2>4. CASE TimeOut(c)
    BY <1>1, <2>1, <2>4 DEF TimeOut
  <2>5. CASE End(c)
    BY <1>1, <2>1, <2>5, ZenonT(60) DEF End
  <2>6. QED
    BY <1>8, <2>2, <2>3, <2>4, <2>5
<1>9. QED
  BY <1>1, <1>3, <1>4, <1>5, <1>6, <1>7, <1>8 DEF ServerNext

(* Nobody has asked when the server starts.                                   *)
LEMMA RequestsStart == ASSUME ServerInit PROVE RequestsInv
  BY DEF ServerInit, RequestsInv, Asked

LEMMA RequestsKept ==
  ASSUME ServerInv, RequestsInv, [ServerNext]_serverVars
  PROVE  RequestsInv'
<1>1. CASE ServerNext /\ server' # "undefined"
  <2>1. ServerStep /\ \A c \in Clients : Asked(c)
    BY <1>1, FreedStops DEF ServerInv, ServerStep, RequestsInv
  <2>2. QED
    BY <2>1, AskedKept DEF RequestsInv
<1>2. CASE server' = "undefined"
  BY <1>2 DEF RequestsInv
<1>3. CASE UNCHANGED serverVars
  <2> USE <1>3 DEF serverVars, machine, pipe, conversation, infos, pool, dumps, clients
  <2>1. ASSUME NEW c \in Clients PROVE Asked(c)' <=> Asked(c)
    BY DEF Asked, IsEnded, shutting_down
  <2>2. QED
    BY <2>1 DEF RequestsInv
<1>4. QED
  BY <1>1, <1>2, <1>3

(* Whatever connects, asks, gives up and ends besides it, and whenever the    *)
(* server is shut down, the first request of a client waits for a thread that *)
(* will see it, is answered, or its client is left to the mutex of a server   *)
(* that goes (RequestDump, OnDumpRequest, the destructor).                    *)
THEOREM FirstRequestStands == ServerSpec => []FirstRequestKept
<1>1. ServerInv /\ RequestsInv /\ [ServerNext]_serverVars => RequestsInv'
  BY RequestsKept
<1>2. ASSUME ServerInv, RequestsInv, NEW c \in Clients,
             client[c] = "waiting", asked[c] = 1, server # "undefined"
      PROVE  \/ c \in generated
             \/ info[c] = "live" /\ c \in requested \cap dumpWait
             \/ info[c] = "freed" /\ shutting_down
  <2>1. Asked(c) /\ ~IsEnded(c)
    BY <1>2 DEF RequestsInv, IsEnded
  <2>2. info[c] \in {"none", "live", "freed"}
    BY <1>2 DEF ServerInv, ServerTypeOK, InfosTypeOK
  <2>3. QED
    BY <1>2, <2>1, <2>2 DEF Asked
<1>3. ServerInv /\ RequestsInv => FirstRequestKept
  BY <1>2 DEF FirstRequestKept
<1>4. QED
  BY <1>1, <1>3, RequestsStart, ServerCorrect, PTL DEF ServerSpec

(* ------------------------------- CrashReport ------------------------------ *)

(* --------------------------- the inductive invariant ---------------------- *)

MemoryTypeOK ==
  /\ requests \in Seq(Events!Requests)
  /\ http \in [Events!Requests -> {"none", "running", "finished"}]
  /\ deleted \subseteq Events!Requests
  /\ position \in Nat
  /\ mailbox \in Seq(Threads \cup {"shutdown"})
  /\ pc["main"] = "pushing" => made \in Events!Requests

Busy == handler \in {"dumping", "pushing", "flushing", "joining", "hung"}

(* The handler thread works for the one thread that holds both locks, and the *)
(* semaphores pass its request there and the answer back.  On the Mac it      *)
(* works while all others are suspended.                                      *)
LocksInv ==
  /\ platform = "windows" =>
       /\ mailbox = <<>>
       /\ lock # None => stackLock = lock
       /\ requesting = lock
       /\ start = 1 => lock # None /\ finish = 0 /\ ~Busy
       /\ finish = 1 => lock # None /\ ~Busy /\ subject = lock /\ EventIsOut(subject)
       /\ Busy => lock # None /\ start = 0 /\ finish = 0 /\ subject = lock
       /\ ~installed => stackLock = None
  /\ platform = "mac" =>
       /\ start = 0 /\ finish = 0
       /\ Busy => subject \in Threads /\ "main" \in suspended /\ installed
  /\ pc["main"] \in {"flushing", "joining"} => ~installed

(* A thread that has crashed stays in the exception handling, and holds the   *)
(* locks where it says.                                                       *)
HandledInv(t) ==
  /\ platform = "windows" =>
       /\ pc[t] \in {"locked", "waiting", "leaving"} <=> stackLock = t
       /\ pc[t] = "waiting" <=> lock = t
  /\ platform = "mac" => pc[t] \notin {"entering", "locked", "leaving", "unhandled"}
  /\ process = "alive" /\ t \in crashed => pc[t] \in {"entering", "locked", "waiting", "leaving", "unhandled"}

Told(t) ==
  t \in crashed /\ error[t] # "breakpoint" /\ pc[t] \in {"leaving", "unhandled", "gone"} => EventIsOut(t)

(* Requests are made in order, each once.                                     *)
MadeInv ==
  /\ IsFiniteSet(Events!Made)
  /\ Cardinality(Events!Made) <= Len(Ids)
  /\ Events!Made = {Ids[i] : i \in 1..Cardinality(Events!Made)}

Listed(r) == \E i \in 1..Len(requests) : requests[i] = r

(* The loop of FlushEvents in the handler thread has waited for the requests  *)
(* before its position, and the one that tells of the crash is in the list    *)
(* until it has finished.                                                     *)
LoopInv ==
  /\ handler = "pushing" => event[subject] \in Events!Requests
  /\ handler \in {"flushing", "joining"} =>
       /\ position <= Len(requests)
       /\ \A i \in 1..position : requests[i] \in deleted /\ http[requests[i]] = "finished"
       /\ event[subject] \in Events!Requests
       /\ EventIsOut(subject) \/ Listed(event[subject])
  /\ handler = "joining" => position < Len(requests) /\ requests[position + 1] \in deleted

ReportInv ==
  /\ TypeOK
  /\ MemoryTypeOK
  /\ LocksInv
  /\ \A t \in Threads : HandledInv(t) /\ Told(t)
  /\ MadeInv
  /\ LoopInv

(* ------------------------- induction on the naturals ---------------------- *)

(* A set of numbers that is not empty has a least element: of the intervals   *)
(* 1..n one is the least.                                                     *)
LEMMA LeastElement ==
  ASSUME NEW B \in SUBSET Nat, B # {}
  PROVE  \E n \in B : \A k \in B : n <= k
<1> DEFINE T == {1..n : n \in B}
<1>1. T # {} /\ T \subseteq FiniteSubsetsOf(Nat)
  <2>1. ASSUME NEW n \in B PROVE 1..n \in FiniteSubsetsOf(Nat)
    <3>1. IsFiniteSet(1..n) /\ 1..n \in SUBSET Nat
      BY FS_Interval
    <3>2. QED
      BY <3>1 DEF FiniteSubsetsOf
  <2>2. QED
    BY <2>1
<1>2. IsWellFoundedOn(StrictSubsetOrdering(Nat), FiniteSubsetsOf(Nat))
  BY FS_StrictSubsetOrderingWellFounded
<1>3. PICK t \in T : \A u \in T : ~(<<u, t>> \in StrictSubsetOrdering(Nat))
  <2> HIDE DEF T
  <2>1. QED
    BY <1>1, <1>2, WFMin
<1>4. PICK n \in B : t = 1..n
  OBVIOUS
<1>5. ASSUME NEW k \in B, k < n PROVE FALSE
  <2>1. /\ 1..k \in T
        /\ 1..k \subseteq 1..n
        /\ n \in 1..n
        /\ n \notin 1..k
    BY <1>5
  <2>2. <<1..k, 1..n>> \in StrictSubsetOrdering(Nat)
    BY <2>1 DEF StrictSubsetOrdering
  <2>3. QED
    BY <1>3, <1>4, <2>1, <2>2
<1>6. QED
  BY <1>5

(* Induction, about the set of the numbers for which a statement holds.       *)
LEMMA Induction ==
  ASSUME NEW G \in SUBSET Nat, 0 \in G, \A n \in G : n + 1 \in G
  PROVE  G = Nat
<1>1. SUFFICES ASSUME Nat \ G # {} PROVE FALSE
  OBVIOUS
<1>2. PICK n \in Nat \ G : \A k \in Nat \ G : n <= k
  <2>1. Nat \ G \in SUBSET Nat
    OBVIOUS
  <2>2. QED
    BY <1>1, <2>1, LeastElement
<1>3. n - 1 \in G
  BY <1>2
<1>4. QED
  BY <1>2, <1>3

(* ------------------------------ the requests ------------------------------ *)

(* What Kept says of itself, without the recursion.                           *)
KeptTo(f, m) ==
  f = [n \in 0..m |->
         IF n = 0 THEN <<>>
         ELSE IF http[requests[n]] = "finished" THEN f[n - 1] ELSE Append(f[n - 1], requests[n])]

LEMMA KeptExists == ASSUME NEW m \in Nat PROVE \E f : KeptTo(f, m)
<1> DEFINE G == {k \in Nat : \E f : KeptTo(f, k)}
<1>1. 0 \in G
  <2>1. KeptTo([n \in 0..0 |-> <<>>], 0)
    BY DEF KeptTo
  <2>2. QED
    BY <2>1
<1>2. ASSUME NEW k \in G PROVE k + 1 \in G
  <2>1. PICK f : KeptTo(f, k)
    OBVIOUS
  <2> DEFINE last == IF http[requests[k + 1]] = "finished" THEN f[k] ELSE Append(f[k], requests[k + 1])
             g == [n \in 0..(k + 1) |-> IF n = k + 1 THEN last ELSE f[n]]
  <2>2. \A n \in 0..k : g[n] = f[n]
    OBVIOUS
  <2>3. \A n \in 0..k : f[n] = IF n = 0 THEN <<>>
                               ELSE IF http[requests[n]] = "finished" THEN f[n - 1]
                               ELSE Append(f[n - 1], requests[n])
    BY <2>1 DEF KeptTo
  <2>4. \A n \in 0..(k + 1) : g[n] = IF n = 0 THEN <<>>
                                     ELSE IF http[requests[n]] = "finished" THEN g[n - 1]
                                     ELSE Append(g[n - 1], requests[n])
    <3> TAKE n \in 0..(k + 1)
    <3>1. CASE n = k + 1
      <4>1. n - 1 = k /\ n # 0 /\ g[n - 1] = f[k] /\ g[n] = last
        BY <2>2, <3>1
      <4>2. QED
        BY <3>1, <4>1
    <3>2. CASE n \in 0..k
      <4>1. n = 0 \/ n - 1 \in 0..k
        BY <3>2
      <4>2. QED
        BY <2>2, <2>3, <3>2, <4>1
    <3>3. QED
      BY <3>1, <3>2
  <2>5. KeptTo(g, k + 1)
    <3> HIDE DEF last
    <3>1. g = [n \in 0..(k + 1) |-> g[n]]
      OBVIOUS
    <3>2. QED
      BY <2>4, <3>1 DEF KeptTo
  <2>6. QED
    BY <2>5
<1>3. G = Nat
  <2> HIDE DEF G
  <2>1. G \in SUBSET Nat
    BY DEF G
  <2>2. QED
    BY <1>1, <1>2, <2>1, Induction
<1>4. QED
  BY <1>3

LEMMA KeptStep ==
  ASSUME NEW n \in 0..Len(requests), Len(requests) \in Nat
  PROVE  Events!Kept[n] = IF n = 0 THEN <<>>
                          ELSE IF http[requests[n]] = "finished" THEN Events!Kept[n - 1]
                          ELSE Append(Events!Kept[n - 1], requests[n])
<1>1. Events!Kept = CHOOSE f : KeptTo(f, Len(requests))
  BY DEF Events!Kept, KeptTo
<1>2. \E f : KeptTo(f, Len(requests))
  BY KeptExists
<1>3. KeptTo(Events!Kept, Len(requests))
  BY <1>1, <1>2
<1>4. QED
  BY <1>3 DEF KeptTo

(* The loop that cleans the list up loses no request that has not finished.   *)
LEMMA KeptKeeps ==
  ASSUME requests \in Seq(Events!Requests)
  PROVE  /\ Events!Kept[Len(requests)] \in Seq(Events!Requests)
         /\ \A i \in 1..Len(requests) :
              http[requests[i]] # "finished" =>
                \E j \in 1..Len(Events!Kept[Len(requests)]) : Events!Kept[Len(requests)][j] = requests[i]
<1> DEFINE Fine(m) ==
      /\ Events!Kept[m] \in Seq(Events!Requests)
      /\ \A i \in 1..m :
           http[requests[i]] # "finished" => \E j \in 1..Len(Events!Kept[m]) : Events!Kept[m][j] = requests[i]
           G == {m \in Nat : m <= Len(requests) => Fine(m)}
<1>1. Len(requests) \in Nat /\ \A i \in 1..Len(requests) : requests[i] \in Events!Requests
  OBVIOUS
<1>2. 0 \in G
  <2>1. Events!Kept[0] = <<>>
    <3>1. 0 \in 0..Len(requests)
      BY <1>1
    <3>2. QED
      BY <1>1, <3>1, KeptStep
  <2>2. 1..0 = {} /\ <<>> \in Seq(Events!Requests)
    OBVIOUS
  <2>3. Fine(0)
    BY <2>1, <2>2
  <2>4. QED
    BY <2>3
<1>3. ASSUME NEW m \in G PROVE m + 1 \in G
  <2>1. SUFFICES ASSUME m + 1 <= Len(requests) PROVE Fine(m + 1)
    OBVIOUS
  <2>2. Fine(m) /\ m + 1 \in 1..Len(requests)
    BY <1>1, <2>1, SMTT(60)
  <2>3. Events!Kept[m + 1] = IF http[requests[m + 1]] = "finished" THEN Events!Kept[m]
                             ELSE Append(Events!Kept[m], requests[m + 1])
    <3>1. m + 1 \in 0..Len(requests) /\ m + 1 # 0 /\ (m + 1) - 1 = m
      BY <2>2
    <3>2. QED
      BY <1>1, <3>1, KeptStep
  <2>4. CASE http[requests[m + 1]] = "finished"
    BY <2>2, <2>3, <2>4
  <2>5. CASE http[requests[m + 1]] # "finished"
    <3> DEFINE k == Events!Kept[m]
    <3>1. k \in Seq(Events!Requests) /\ requests[m + 1] \in Events!Requests
      BY <1>1, <2>2
    <3>2. Events!Kept[m + 1] = Append(k, requests[m + 1])
      BY <2>3, <2>5
    <3> HIDE DEF k
    <3>3. /\ Append(k, requests[m + 1]) \in Seq(Events!Requests)
          /\ Len(Append(k, requests[m + 1])) = Len(k) + 1
          /\ Append(k, requests[m + 1])[Len(k) + 1] = requests[m + 1]
          /\ \A j \in 1..Len(k) : Append(k, requests[m + 1])[j] = k[j]
      BY <3>1
    <3>4. ASSUME NEW i \in 1..(m + 1), http[requests[i]] # "finished"
          PROVE  \E j \in 1..Len(Events!Kept[m + 1]) : Events!Kept[m + 1][j] = requests[i]
      <4>1. CASE i = m + 1
        <5>1. Len(k) + 1 \in 1..Len(Events!Kept[m + 1])
          BY <3>1, <3>2, <3>3
        <5>2. QED
          BY <3>2, <3>3, <4>1, <5>1
      <4>2. CASE i \in 1..m
        <5>1. PICK j \in 1..Len(k) : k[j] = requests[i]
          BY <2>2, <3>4, <4>2 DEF k
        <5>2. j \in 1..Len(Events!Kept[m + 1])
          BY <3>1, <3>2, <3>3
        <5>3. QED
          BY <3>2, <3>3, <5>1, <5>2
      <4>3. QED
        BY <4>1, <4>2
    <3>5. QED
      BY <3>2, <3>3, <3>4
  <2>6. QED
    BY <2>4, <2>5
<1>4. G = Nat
  <2> HIDE DEF G
  <2>1. G \in SUBSET Nat
    BY DEF G
  <2>2. QED
    BY <1>2, <1>3, <2>1, Induction
<1>5. QED
  BY <1>1, <1>4

(* Analytics counts like everybody else.                                      *)
LEMMA SameCardinality == \A S : Events!Cardinality(S) = Cardinality(S)
  BY DEF Events!Cardinality, Cardinality

(* A new request is one that has not been made.                               *)
LEMMA NextIsNew ==
  ASSUME MadeInv, Cardinality(Events!Made) < Len(Ids)
  PROVE  /\ Events!NextRequest \in Events!Requests \ Events!Made
         /\ Cardinality(Events!Made) \in Nat
<1> DEFINE n == Cardinality(Events!Made)
<1>1. n \in Nat
  BY FS_CardinalityType DEF MadeInv
<1>2. /\ Ids \in Seq(Events!Requests)
      /\ \A i, j \in DOMAIN Ids : Ids[i] = Ids[j] => i = j
  BY CrashAssumption
<1>3. n + 1 \in 1..Len(Ids) /\ 1..n \subseteq 1..Len(Ids)
  <2>1. Len(Ids) \in Nat
    BY <1>2
  <2>2. QED
    BY <1>1, <2>1
<1>4. DOMAIN Ids = 1..Len(Ids)
  BY <1>2
<1> HIDE DEF n
<1>5. Events!Made = {Ids[i] : i \in 1..n} /\ Events!NextRequest = Ids[n + 1]
  BY SameCardinality DEF MadeInv, Events!NextRequest, n
<1>6. Ids[n + 1] \notin {Ids[i] : i \in 1..n}
  <2>1. ASSUME NEW i \in 1..n, Ids[i] = Ids[n + 1] PROVE FALSE
    <3>1. i = n + 1
      BY <1>2, <1>3, <1>4, <2>1
    <3>2. QED
      BY <1>1, <3>1
  <2>2. QED
    BY <2>1
<1>7. Ids[n + 1] \in Events!Requests
  BY <1>3, <1>4 DEF Events!Requests
<1>8. QED
  BY <1>1, <1>5, <1>6, <1>7 DEF n

(* The first part of SendGameEvent: a new request runs, and no request that   *)
(* has not finished leaves the list.                                          *)
LEMMA MakeRequestFacts ==
  ASSUME TypeOK, MemoryTypeOK, MadeInv, Events!MakeRequest
  PROVE  /\ Events!NextRequest \in Events!Requests
         /\ http[Events!NextRequest] = "none"
         /\ http' = [http EXCEPT ![Events!NextRequest] = "running"]
         /\ deleted' = deleted
         /\ requests' \in Seq(Events!Requests)
         /\ \A r \in Events!Requests : http[r] # "finished" /\ Listed(r) => Listed(r)'
         /\ MadeInv'
<1> DEFINE n == Cardinality(Events!Made)
           next == Events!NextRequest
<1>1. /\ n < Len(Ids)
      /\ requests' = Events!Kept[Len(requests)]
      /\ http' = [http EXCEPT ![next] = "running"]
      /\ deleted' = deleted
  BY SameCardinality DEF Events!MakeRequest
<1>2. next \in Events!Requests /\ next \notin Events!Made /\ n \in Nat
  BY <1>1, NextIsNew
<1>3. http[next] = "none" /\ http \in [Events!Requests -> {"none", "running", "finished"}]
  BY <1>2 DEF Events!Made, MemoryTypeOK
<1>4. Events!Made' = Events!Made \cup {next}
  <2> HIDE DEF next
  <2>1. \A r \in Events!Requests : http'[r] = IF r = next THEN "running" ELSE http[r]
    BY <1>1, <1>3
  <2>2. Events!Made' = {r \in Events!Requests : http'[r] # "none"}
    BY DEF Events!Made, Events!Requests
  <2>3. QED
    BY <1>2, <2>1, <2>2 DEF Events!Made
<1>5. IsFiniteSet(Events!Made') /\ Cardinality(Events!Made') = n + 1
  <2>1. IsFiniteSet(Events!Made)
    BY DEF MadeInv
  <2>2. QED
    BY <1>2, <1>4, <2>1, FS_AddElement
<1>6. MadeInv'
  <2>1. Events!Made = {Ids[i] : i \in 1..n} /\ next = Ids[n + 1]
    BY SameCardinality DEF MadeInv, Events!NextRequest
  <2>2. Events!Made' = {Ids[i] : i \in 1..(n + 1)}
    <3> HIDE DEF n, next
    <3>1. 1..(n + 1) = 1..n \cup {n + 1}
      BY <1>2
    <3>2. QED
      BY <1>4, <2>1, <3>1
  <2>3. n + 1 <= Len(Ids)
    <3>1. Ids \in Seq(Events!Requests)
      BY CrashAssumption
    <3>2. Len(Ids) \in Nat
      BY <3>1
    <3>3. QED
      BY <1>1, <1>2, <3>2
  <2>4. QED
    BY <1>5, <2>2, <2>3 DEF MadeInv
<1>7. requests \in Seq(Events!Requests)
  BY DEF MemoryTypeOK
<1>8. \A r \in Events!Requests : http[r] # "finished" /\ Listed(r) => Listed(r)'
  <2>1. TAKE r \in Events!Requests
  <2>2. HAVE http[r] # "finished" /\ Listed(r)
  <2>3. PICK i \in 1..Len(requests) : requests[i] = r
    BY <2>2 DEF Listed
  <2>4. \E j \in 1..Len(requests') : requests'[j] = r
    BY <1>1, <1>7, <2>2, <2>3, KeptKeeps
  <2>5. QED
    BY <2>4 DEF Listed
<1>9. QED
  BY <1>1, <1>2, <1>3, <1>6, <1>7, <1>8, KeptKeeps

(* ------------------------------- the steps -------------------------------- *)

(* Every variable keeps its type.                                             *)
LEMMA ReportTyping ==
  ASSUME ReportInv, Next
  PROVE  TypeOK'
<1> USE DEF memory, locks, mach, task, signals, handling, faults, Goes, Runs, Undefined, Killed,
    HandlerGoes, Alive, Release, ReleaseAgain, Join, Flushed, Events!Push, Events!ReleaseRef,
    Events!Finish, Events!Destroyed, EventIsOut, Busy, Errors, Threads, TypeOK, MemoryTypeOK
<1>1. /\ TypeOK
      /\ MemoryTypeOK
      /\ LocksInv
      /\ LoopInv
      /\ MadeInv
  BY DEF ReportInv
<1>2. /\ "main" \in Threads
      /\ None \notin Threads
      /\ Events!Requests \subseteq Threads
      /\ None \notin Events!Requests
      /\ "main" \notin Events!Requests
  BY CrashAssumption
<1>3. Events!MakeRequest =>
        /\ Events!NextRequest \in Events!Requests
        /\ http[Events!NextRequest] = "none"
        /\ http' = [http EXCEPT ![Events!NextRequest] = "running"]
        /\ deleted' = deleted
        /\ requests' \in Seq(Events!Requests)
        /\ \A r \in Events!Requests : http[r] # "finished" /\ Listed(r) => Listed(r)'
  BY <1>1, MakeRequestFacts
<1>4. HandledInv("main") /\ \A t \in Threads : HandledInv(t)
  BY <1>2 DEF ReportInv
<1>5. CASE Register
  BY <1>1, <1>2, <1>5 DEF Register
<1>6. CASE SendGameEvent
  <2>1. Undefined \/ (Events!MakeRequest /\ made' = Events!NextRequest)
    BY <1>6 DEF SendGameEvent
  <2>2. made' \in Events!Requests \cup {None}
    BY <1>1, <1>3, <2>1
  <2>3. /\ UNCHANGED <<platform, registered, faults, locks, signals, mach, handling>>
        /\ pc' = pc \/ pc' = [pc EXCEPT !["main"] = "pushing"]
        /\ process' \in {process, "undefined"}
    BY <1>6 DEF SendGameEvent
  <2>4. pc' \in [Threads -> {"starting", "running", "pushing", "quitting", "flushing", "joining",
                            "entering", "locked", "waiting", "leaving", "unhandled", "gone"}]
    BY <1>1, <2>3
  <2>5. QED
    BY <1>1, <2>2, <2>3, <2>4
<1>7. CASE PushEvent
  <2>1. /\ pc' = pc \/ pc' = [pc EXCEPT !["main"] = "running"]
        /\ process' \in {process, "undefined"}
        /\ made' \in {made, None}
        /\ UNCHANGED <<platform, registered, faults, locks, signals, mach, handling>>
    BY <1>7 DEF PushEvent
  <2>2. pc' \in [Threads -> {"starting", "running", "pushing", "quitting", "flushing", "joining",
                            "entering", "locked", "waiting", "leaving", "unhandled", "gone"}]
    BY <1>1, <2>1
  <2>3. QED
    BY <1>1, <2>1, <2>2
<1>8. CASE Quit
  BY <1>1, <1>2, <1>8 DEF Quit
<1>9. CASE AtExit
  <2>1. CASE RemoveHandler
    BY <1>1, <1>2, <2>1 DEF RemoveHandler
  <2>2. CASE FlushAtExit
    BY <1>1, <1>2, <2>2, ZenonT(60) DEF FlushAtExit
  <2>3. CASE MisuseAtExit
    BY <1>1, <1>2, <2>3 DEF MisuseAtExit
  <2>4. QED
    BY <1>9, <2>1, <2>2, <2>3 DEF AtExit
<1>10. CASE HandlerThread
  <2>1. CASE TakeRequest
    BY <1>1, <1>2, <2>1 DEF TakeRequest
  <2>2. CASE ReceiveException
    BY <1>1, <1>2, <2>2 DEF ReceiveException
  <2>3. CASE ReceiveTooLate
    BY <1>1, <1>2, <2>3 DEF ReceiveTooLate
  <2>4. CASE ReceiveShutdown
    BY <1>1, <1>2, <2>4 DEF ReceiveShutdown
  <2>5. CASE SendCrashEvent
    <3>1. CASE UNCHANGED <<event, handler>>
      BY <1>1, <1>2, <2>5, <3>1, ZenonT(60) DEF SendCrashEvent
    <3>2. CASE ~UNCHANGED <<event, handler>>
      <4>1. /\ Events!NextRequest \in Events!Requests
            /\ event' = [event EXCEPT ![subject] = Events!NextRequest]
            /\ handler' = "pushing"
            /\ UNCHANGED <<task, process, pc, faults, locks, signals, mach, subject>>
        BY <1>3, <2>5, <3>2 DEF SendCrashEvent
      <4>2. event' \in [Threads -> Events!Requests \cup {None}]
        BY <1>1, <4>1
      <4>3. QED
        BY <1>1, <4>1, <4>2
    <3>3. QED
      BY <3>1, <3>2
  <2>6. CASE CrashTooEarly
    BY <1>1, <1>2, <2>6 DEF CrashTooEarly
  <2>7. CASE HangTooEarly
    BY <1>1, <1>2, <2>7 DEF HangTooEarly
  <2>8. CASE PushCrashEvent
    BY <1>1, <1>2, <2>8, ZenonT(60) DEF PushCrashEvent
  <2>9. CASE FlushInCallback
    BY <1>1, <1>2, <2>9 DEF FlushInCallback
  <2>10. CASE ReportDone
    BY <1>1, <1>2, <2>10 DEF ReportDone
  <2>11. CASE ForwardException
    BY <1>1, <1>2, <2>11 DEF ForwardException
  <2>12. QED
    BY <1>10, <2>1, <2>2, <2>3, <2>4, <2>5, <2>6, <2>7, <2>8, <2>9, <2>10,
        <2>11 DEF HandlerThread
<1>11. ASSUME NEW r \in Events!Requests, RequestEnds(r) PROVE TypeOK'
  BY <1>1, <1>2, <1>11 DEF RequestEnds
<1>12. ASSUME NEW t \in Threads, Crash(t) PROVE TypeOK'
  <2>1. HandledInv(t)
    BY <1>4
  <2>2. /\ \/ pc' = pc
           \/ pc' = [pc EXCEPT ![t] = "entering"]
           \/ pc' = [pc EXCEPT ![t] = "waiting"]
        /\ crashed' = crashed \cup {t}
        /\ \E e \in Errors : error' = [error EXCEPT ![t] = e]
        /\ process' \in {process, "killed"}
        /\ UNCHANGED <<task, locks, signals, suspended, handling>>
    BY <1>12 DEF Crash
  <2>3. pc' \in [Threads -> {"starting", "running", "pushing", "quitting", "flushing", "joining",
                            "entering", "locked", "waiting", "leaving", "unhandled", "gone"}]
    BY <1>1, <2>2
  <2>4. error' \in [Threads -> Errors \cup {"none"}]
    BY <1>1, <2>2
  <2>5. QED
    BY <1>1, <2>2, <2>3, <2>4
<1>13. ASSUME NEW t \in Threads, CrashedThread(t) PROVE TypeOK'
  <2>1. HandledInv(t)
    BY <1>4
  <2>2. CASE Enter(t)
    BY <1>1, <1>2, <2>1, <2>2 DEF Enter
  <2>3. CASE EnterTooLate(t)
    BY <1>1, <1>2, <2>1, <2>3 DEF EnterTooLate
  <2>4. CASE Submit(t)
    BY <1>1, <1>2, <2>1, <2>4 DEF Submit
  <2>5. CASE Collect(t)
    BY <1>1, <1>2, <2>1, <2>5 DEF Collect
  <2>6. CASE Leave(t)
    BY <1>1, <1>2, <2>1, <2>6 DEF Leave
  <2>7. CASE Die(t)
    BY <1>1, <1>2, <2>1, <2>7 DEF Die
  <2>8. QED
    BY <1>13, <2>2, <2>3, <2>4, <2>5, <2>6, <2>7 DEF CrashedThread
<1>14. QED
  BY <1>5, <1>6, <1>7, <1>8, <1>9, <1>10, <1>11, <1>12, <1>13 DEF Next

(* ... also those of the requests and the mailbox,                            *)
LEMMA MemoryTyping ==
  ASSUME ReportInv, Next
  PROVE  MemoryTypeOK'
<1> USE DEF memory, locks, mach, task, signals, handling, faults, Goes, Runs, Undefined, Killed,
    HandlerGoes, Alive, Release, ReleaseAgain, Join, Flushed, Events!Push, Events!ReleaseRef,
    Events!Finish, Events!Destroyed, EventIsOut, Busy, Errors, Threads, TypeOK, MemoryTypeOK,
    LoopInv
<1>1. /\ TypeOK
      /\ MemoryTypeOK
      /\ LocksInv
      /\ LoopInv
      /\ MadeInv
  BY DEF ReportInv
<1>2. /\ "main" \in Threads
      /\ None \notin Threads
      /\ Events!Requests \subseteq Threads
      /\ None \notin Events!Requests
      /\ "main" \notin Events!Requests
  BY CrashAssumption
<1>3. Events!MakeRequest =>
        /\ Events!NextRequest \in Events!Requests
        /\ http[Events!NextRequest] = "none"
        /\ http' = [http EXCEPT ![Events!NextRequest] = "running"]
        /\ deleted' = deleted
        /\ requests' \in Seq(Events!Requests)
        /\ \A r \in Events!Requests : http[r] # "finished" /\ Listed(r) => Listed(r)'
  BY <1>1, MakeRequestFacts
<1>4. HandledInv("main") /\ \A t \in Threads : HandledInv(t)
  BY <1>2 DEF ReportInv
<1>5. CASE Register
  BY <1>1, <1>2, <1>5 DEF Register
<1>6. CASE SendGameEvent
  BY <1>1, <1>2, <1>3, <1>6 DEF SendGameEvent
<1>7. CASE PushEvent
  <2>1. Undefined \/ (pc["main"] = "pushing" /\ requests' = Append(requests, made))
    BY <1>7 DEF PushEvent
  <2>2. requests' \in Seq(Events!Requests)
    <3>1. made \in Events!Requests => Append(requests, made) \in Seq(Events!Requests)
      BY <1>1
    <3>2. QED
      BY <1>1, <2>1, <3>1
  <2>3. QED
    BY <1>1, <1>2, <1>7, <2>2 DEF PushEvent
<1>8. CASE Quit
  BY <1>1, <1>2, <1>8 DEF Quit
<1>9. CASE AtExit
  <2>1. CASE RemoveHandler
    <3>1. mailbox' = mailbox \/ mailbox' = Append(mailbox, "shutdown")
      BY <2>1 DEF RemoveHandler
    <3>2. mailbox' \in Seq(Threads \cup {"shutdown"})
      <4>1. mailbox \in Seq(Threads \cup {"shutdown"}) /\ "shutdown" \in Threads \cup {"shutdown"}
        BY <1>1
      <4> HIDE DEF Threads
      <4>2. QED
        BY <3>1, <4>1
    <3>3. QED
      BY <1>1, <1>2, <2>1, <3>2 DEF RemoveHandler
  <2>2. CASE FlushAtExit
    BY <1>1, <1>2, <2>2 DEF FlushAtExit
  <2>3. CASE MisuseAtExit
    BY <1>1, <1>2, <2>3 DEF MisuseAtExit
  <2>4. QED
    BY <1>9, <2>1, <2>2, <2>3 DEF AtExit
<1>10. CASE HandlerThread
  <2>1. CASE TakeRequest
    BY <1>1, <1>2, <2>1 DEF TakeRequest
  <2>2. CASE ReceiveException
    BY <1>1, <1>2, <2>2 DEF ReceiveException
  <2>3. CASE ReceiveTooLate
    BY <1>1, <1>2, <2>3 DEF ReceiveTooLate
  <2>4. CASE ReceiveShutdown
    BY <1>1, <1>2, <2>4 DEF ReceiveShutdown
  <2>5. CASE SendCrashEvent
    BY <1>1, <1>2, <1>3, <2>5, ZenonT(60) DEF SendCrashEvent
  <2>6. CASE CrashTooEarly
    BY <1>1, <1>2, <2>6 DEF CrashTooEarly
  <2>7. CASE HangTooEarly
    BY <1>1, <1>2, <2>7 DEF HangTooEarly
  <2>8. CASE PushCrashEvent
    <3>1. Undefined \/ (handler = "pushing" /\ requests' = Append(requests, event[subject]))
      BY <2>8 DEF PushCrashEvent
    <3>2. handler = "pushing" => Append(requests, event[subject]) \in Seq(Events!Requests)
      BY <1>1
    <3>3. requests' \in Seq(Events!Requests)
      BY <1>1, <3>1, <3>2
    <3>4. QED
      BY <1>1, <1>2, <2>8, <3>3 DEF PushCrashEvent
  <2>9. CASE FlushInCallback
    BY <1>1, <1>2, <2>9 DEF FlushInCallback
  <2>10. CASE ReportDone
    BY <1>1, <1>2, <2>10 DEF ReportDone
  <2>11. CASE ForwardException
    BY <1>1, <1>2, <2>11 DEF ForwardException
  <2>12. QED
    BY <1>10, <2>1, <2>2, <2>3, <2>4, <2>5, <2>6, <2>7, <2>8, <2>9, <2>10,
        <2>11 DEF HandlerThread
<1>11. ASSUME NEW r \in Events!Requests, RequestEnds(r) PROVE MemoryTypeOK'
  BY <1>1, <1>2, <1>11 DEF RequestEnds
<1>12. ASSUME NEW t \in Threads, Crash(t) PROVE MemoryTypeOK'
  <2>1. HandledInv(t)
    BY <1>4
  <2>2. mailbox' = mailbox \/ mailbox' = Append(mailbox, t)
    BY <1>12 DEF Crash
  <2>3. mailbox' \in Seq(Threads \cup {"shutdown"})
    <3>1. mailbox \in Seq(Threads \cup {"shutdown"}) /\ t \in Threads \cup {"shutdown"}
      BY <1>1
    <3> HIDE DEF Threads
    <3>2. QED
      BY <2>2, <3>1
  <2>4. QED
    BY <1>1, <1>2, <1>12, <2>3 DEF Crash
<1>13. ASSUME NEW t \in Threads, CrashedThread(t) PROVE MemoryTypeOK'
  <2>1. HandledInv(t)
    BY <1>4
  <2>2. CASE Enter(t)
    BY <1>1, <1>2, <2>1, <2>2 DEF Enter
  <2>3. CASE EnterTooLate(t)
    BY <1>1, <1>2, <2>1, <2>3 DEF EnterTooLate
  <2>4. CASE Submit(t)
    BY <1>1, <1>2, <2>1, <2>4 DEF Submit
  <2>5. CASE Collect(t)
    BY <1>1, <1>2, <2>1, <2>5 DEF Collect
  <2>6. CASE Leave(t)
    BY <1>1, <1>2, <2>1, <2>6 DEF Leave
  <2>7. CASE Die(t)
    BY <1>1, <1>2, <2>1, <2>7 DEF Die
  <2>8. QED
    BY <1>13, <2>2, <2>3, <2>4, <2>5, <2>6, <2>7 DEF CrashedThread
<1>14. QED
  BY <1>5, <1>6, <1>7, <1>8, <1>9, <1>10, <1>11, <1>12, <1>13 DEF Next

(* ... locks, semaphores and the handler thread agree,                        *)
LEMMA LocksKept ==
  ASSUME ReportInv, Next
  PROVE  LocksInv'
<1> USE DEF memory, locks, mach, task, signals, handling, faults, Goes, Runs, Undefined, Killed,
    HandlerGoes, Alive, Release, ReleaseAgain, Join, Flushed, Events!Push, Events!ReleaseRef,
    Events!Finish, Events!Destroyed, EventIsOut, Busy, Errors, Threads, TypeOK, MemoryTypeOK,
    LocksInv, HandledInv
<1>1. /\ TypeOK
      /\ MemoryTypeOK
      /\ LocksInv
      /\ LoopInv
      /\ MadeInv
  BY DEF ReportInv
<1>2. /\ "main" \in Threads
      /\ None \notin Threads
      /\ Events!Requests \subseteq Threads
      /\ None \notin Events!Requests
      /\ "main" \notin Events!Requests
  BY CrashAssumption
<1>3. Events!MakeRequest =>
        /\ Events!NextRequest \in Events!Requests
        /\ http[Events!NextRequest] = "none"
        /\ http' = [http EXCEPT ![Events!NextRequest] = "running"]
        /\ deleted' = deleted
        /\ requests' \in Seq(Events!Requests)
        /\ \A r \in Events!Requests : http[r] # "finished" /\ Listed(r) => Listed(r)'
  BY <1>1, MakeRequestFacts
<1>4. HandledInv("main") /\ \A t \in Threads : HandledInv(t)
  BY <1>2 DEF ReportInv
<1>5. CASE Register
  BY <1>1, <1>2, <1>5 DEF Register
<1>6. CASE SendGameEvent
  BY <1>1, <1>2, <1>3, <1>6 DEF SendGameEvent
<1>7. CASE PushEvent
  BY <1>1, <1>2, <1>7 DEF PushEvent
<1>8. CASE Quit
  BY <1>1, <1>2, <1>8 DEF Quit
<1>9. CASE AtExit
  <2>1. CASE RemoveHandler
    BY <1>1, <1>2, <2>1 DEF RemoveHandler
  <2>2. CASE FlushAtExit
    BY <1>1, <1>2, <2>2 DEF FlushAtExit
  <2>3. CASE MisuseAtExit
    BY <1>1, <1>2, <2>3 DEF MisuseAtExit
  <2>4. QED
    BY <1>9, <2>1, <2>2, <2>3 DEF AtExit
<1>10. CASE HandlerThread
  <2>1. CASE TakeRequest
    BY <1>1, <1>2, <2>1 DEF TakeRequest
  <2>2. CASE ReceiveException
    BY <1>1, <1>2, <2>2 DEF ReceiveException
  <2>3. CASE ReceiveTooLate
    BY <1>1, <1>2, <2>3 DEF ReceiveTooLate
  <2>4. CASE ReceiveShutdown
    BY <1>1, <1>2, <2>4 DEF ReceiveShutdown
  <2>5. CASE SendCrashEvent
    <3>1. /\ UNCHANGED <<task, pc, faults, locks, signals, mach, subject>>
          /\ handler = "dumping"
          /\ handler' \in {"dumping", "pushing"}
      BY <2>5 DEF SendCrashEvent
    <3>2. QED
      BY <1>1, <1>2, <3>1
  <2>6. CASE CrashTooEarly
    BY <1>1, <1>2, <2>6 DEF CrashTooEarly
  <2>7. CASE HangTooEarly
    BY <1>1, <1>2, <2>7 DEF HangTooEarly
  <2>8. CASE PushCrashEvent
    BY <1>1, <1>2, <2>8 DEF PushCrashEvent
  <2>9. CASE FlushInCallback
    BY <1>1, <1>2, <2>9 DEF FlushInCallback
  <2>10. CASE ReportDone
    <3>1. Listed(event[subject]) => EventIsOut(subject)
      <4>1. handler = "flushing" /\ position = Len(requests)
        BY <2>10 DEF ReportDone
      <4>2. /\ \A i \in 1..Len(requests) : http[requests[i]] = "finished"
            /\ event[subject] \in Events!Requests
        BY <1>1, <4>1 DEF LoopInv
      <4>3. QED
        BY <1>2, <4>2 DEF Listed
    <3>2. EventIsOut(subject)
      BY <1>1, <2>10, <3>1 DEF ReportDone, LoopInv
    <3>3. QED
      BY <1>1, <1>2, <2>10, <3>2 DEF ReportDone
  <2>11. CASE ForwardException
    BY <1>1, <1>2, <2>11 DEF ForwardException
  <2>12. QED
    BY <1>10, <2>1, <2>2, <2>3, <2>4, <2>5, <2>6, <2>7, <2>8, <2>9, <2>10,
        <2>11 DEF HandlerThread
<1>11. ASSUME NEW r \in Events!Requests, RequestEnds(r) PROVE LocksInv'
  BY <1>1, <1>2, <1>11 DEF RequestEnds
<1>12. ASSUME NEW t \in Threads, Crash(t) PROVE LocksInv'
  <2>1. HandledInv(t)
    BY <1>4
  <2>2. QED
    BY <1>1, <1>2, <2>1, <1>12 DEF Crash
<1>13. ASSUME NEW t \in Threads, CrashedThread(t) PROVE LocksInv'
  <2>1. HandledInv(t)
    BY <1>4
  <2>2. CASE Enter(t)
    BY <1>1, <1>2, <2>1, <2>2 DEF Enter
  <2>3. CASE EnterTooLate(t)
    BY <1>1, <1>2, <2>1, <2>3 DEF EnterTooLate
  <2>4. CASE Submit(t)
    BY <1>1, <1>2, <2>1, <2>4 DEF Submit
  <2>5. CASE Collect(t)
    BY <1>1, <1>2, <2>1, <2>5 DEF Collect
  <2>6. CASE Leave(t)
    BY <1>1, <1>2, <2>1, <2>6 DEF Leave
  <2>7. CASE Die(t)
    BY <1>1, <1>2, <2>1, <2>7 DEF Die
  <2>8. QED
    BY <1>13, <2>2, <2>3, <2>4, <2>5, <2>6, <2>7 DEF CrashedThread
<1>14. QED
  BY <1>5, <1>6, <1>7, <1>8, <1>9, <1>10, <1>11, <1>12, <1>13 DEF Next

(* ... and so do the crashed threads,                                         *)
LEMMA HandledKept ==
  ASSUME ReportInv, Next, NEW u \in Threads
  PROVE  HandledInv(u)'
<1> USE DEF memory, locks, mach, task, signals, handling, faults, Goes, Runs, Undefined, Killed,
    HandlerGoes, Alive, Release, ReleaseAgain, Join, Flushed, Events!Push, Events!ReleaseRef,
    Events!Finish, Events!Destroyed, EventIsOut, Busy, Errors, Threads, TypeOK, MemoryTypeOK,
    LocksInv, HandledInv
<1>1. /\ TypeOK
      /\ MemoryTypeOK
      /\ LocksInv
      /\ LoopInv
      /\ MadeInv
      /\ HandledInv(u)
      /\ Told(u)
  BY DEF ReportInv
<1>2. /\ "main" \in Threads
      /\ None \notin Threads
      /\ Events!Requests \subseteq Threads
      /\ None \notin Events!Requests
      /\ "main" \notin Events!Requests
  BY CrashAssumption
<1>3. Events!MakeRequest =>
        /\ Events!NextRequest \in Events!Requests
        /\ http[Events!NextRequest] = "none"
        /\ http' = [http EXCEPT ![Events!NextRequest] = "running"]
        /\ deleted' = deleted
        /\ requests' \in Seq(Events!Requests)
        /\ \A r \in Events!Requests : http[r] # "finished" /\ Listed(r) => Listed(r)'
  BY <1>1, MakeRequestFacts
<1>4. HandledInv("main") /\ \A t \in Threads : HandledInv(t)
  BY <1>2 DEF ReportInv
<1>5. CASE Register
  BY <1>1, <1>2, <1>5 DEF Register
<1>6. CASE SendGameEvent
  BY <1>1, <1>2, <1>3, <1>6 DEF SendGameEvent
<1>7. CASE PushEvent
  BY <1>1, <1>2, <1>7 DEF PushEvent
<1>8. CASE Quit
  BY <1>1, <1>2, <1>8 DEF Quit
<1>9. CASE AtExit
  <2>1. CASE RemoveHandler
    BY <1>1, <1>2, <2>1 DEF RemoveHandler
  <2>2. CASE FlushAtExit
    BY <1>1, <1>2, <2>2 DEF FlushAtExit
  <2>3. CASE MisuseAtExit
    BY <1>1, <1>2, <2>3 DEF MisuseAtExit
  <2>4. QED
    BY <1>9, <2>1, <2>2, <2>3 DEF AtExit
<1>10. CASE HandlerThread
  <2>1. CASE TakeRequest
    BY <1>1, <1>2, <2>1 DEF TakeRequest
  <2>2. CASE ReceiveException
    BY <1>1, <1>2, <2>2 DEF ReceiveException
  <2>3. CASE ReceiveTooLate
    BY <1>1, <1>2, <2>3 DEF ReceiveTooLate
  <2>4. CASE ReceiveShutdown
    BY <1>1, <1>2, <2>4 DEF ReceiveShutdown
  <2>5. CASE SendCrashEvent
    BY <1>1, <1>2, <1>3, <2>5 DEF SendCrashEvent
  <2>6. CASE CrashTooEarly
    BY <1>1, <1>2, <2>6 DEF CrashTooEarly
  <2>7. CASE HangTooEarly
    BY <1>1, <1>2, <2>7 DEF HangTooEarly
  <2>8. CASE PushCrashEvent
    BY <1>1, <1>2, <2>8 DEF PushCrashEvent
  <2>9. CASE FlushInCallback
    BY <1>1, <1>2, <2>9 DEF FlushInCallback
  <2>10. CASE ReportDone
    BY <1>1, <1>2, <2>10 DEF ReportDone
  <2>11. CASE ForwardException
    BY <1>1, <1>2, <2>11 DEF ForwardException
  <2>12. QED
    BY <1>10, <2>1, <2>2, <2>3, <2>4, <2>5, <2>6, <2>7, <2>8, <2>9, <2>10,
        <2>11 DEF HandlerThread
<1>11. ASSUME NEW r \in Events!Requests, RequestEnds(r) PROVE HandledInv(u)'
  BY <1>1, <1>2, <1>11 DEF RequestEnds
<1>12. ASSUME NEW t \in Threads, Crash(t) PROVE HandledInv(u)'
  <2>1. HandledInv(t)
    BY <1>4
  <2>2. QED
    BY <1>1, <1>2, <2>1, <1>12 DEF Crash
<1>13. ASSUME NEW t \in Threads, CrashedThread(t) PROVE HandledInv(u)'
  <2>1. HandledInv(t)
    BY <1>4
  <2>2. CASE Enter(t)
    BY <1>1, <1>2, <2>1, <2>2 DEF Enter
  <2>3. CASE EnterTooLate(t)
    BY <1>1, <1>2, <2>1, <2>3 DEF EnterTooLate
  <2>4. CASE Submit(t)
    BY <1>1, <1>2, <2>1, <2>4 DEF Submit
  <2>5. CASE Collect(t)
    BY <1>1, <1>2, <2>1, <2>5 DEF Collect
  <2>6. CASE Leave(t)
    BY <1>1, <1>2, <2>1, <2>6 DEF Leave
  <2>7. CASE Die(t)
    BY <1>1, <1>2, <2>1, <2>7 DEF Die
  <2>8. QED
    BY <1>13, <2>2, <2>3, <2>4, <2>5, <2>6, <2>7 DEF CrashedThread
<1>14. QED
  BY <1>5, <1>6, <1>7, <1>8, <1>9, <1>10, <1>11, <1>12, <1>13 DEF Next

(* ... the loop of FlushEvents misses no request,                             *)
LEMMA LoopKept ==
  ASSUME ReportInv, Next
  PROVE  LoopInv'
<1> USE DEF memory, locks, mach, task, signals, handling, faults, Goes, Runs, Undefined, Killed,
    HandlerGoes, Alive, Release, ReleaseAgain, Join, Flushed, Events!Push, Events!ReleaseRef,
    Events!Finish, Events!Destroyed, EventIsOut, Busy, Errors, Threads, TypeOK, MemoryTypeOK,
    LocksInv, HandledInv, LoopInv, Listed
<1>1. /\ TypeOK
      /\ MemoryTypeOK
      /\ LocksInv
      /\ LoopInv
      /\ MadeInv
  BY DEF ReportInv
<1>2. /\ "main" \in Threads
      /\ None \notin Threads
      /\ Events!Requests \subseteq Threads
      /\ None \notin Events!Requests
      /\ "main" \notin Events!Requests
  BY CrashAssumption
<1>3. Events!MakeRequest =>
        /\ Events!NextRequest \in Events!Requests
        /\ http[Events!NextRequest] = "none"
        /\ http' = [http EXCEPT ![Events!NextRequest] = "running"]
        /\ deleted' = deleted
        /\ requests' \in Seq(Events!Requests)
        /\ \A r \in Events!Requests : http[r] # "finished" /\ Listed(r) => Listed(r)'
  BY <1>1, MakeRequestFacts
<1>4. HandledInv("main") /\ \A t \in Threads : HandledInv(t)
  BY <1>2 DEF ReportInv
<1>5. CASE Register
  BY <1>1, <1>2, <1>5 DEF Register
<1>6. CASE SendGameEvent
  <2>1. CASE UNCHANGED <<handling, memory, position>>
    BY <1>1, <2>1
  <2>2. CASE ~Events!Dangling /\ Events!MakeRequest /\ UNCHANGED <<handling, position>>
    <3>1. \A i \in 1..Len(requests) : requests[i] \notin deleted
      BY <1>1, <2>2 DEF Events!Dangling
    <3>2. handler # "joining" /\ (handler = "flushing" => position = 0)
      <4>1. Len(requests) \in Nat
        BY <1>1
      <4>2. ASSUME handler \in {"flushing", "joining"}, position # 0 PROVE FALSE
        <5>1. 1 \in 1..position /\ 1 \in 1..Len(requests)
          BY <1>1, <4>1, <4>2
        <5>2. QED
          BY <1>1, <3>1, <4>2, <5>1
      <4>3. ASSUME handler = "joining" PROVE FALSE
        <5>1. position + 1 \in 1..Len(requests)
          BY <1>1, <4>1, <4>3
        <5>2. QED
          BY <1>1, <3>1, <4>3, <5>1
      <4>4. QED
        BY <4>2, <4>3
    <3>3. Len(requests') \in Nat
      BY <1>3, <2>2
    <3>4. handler = "flushing" => EventIsOut(subject)' \/ Listed(event[subject])'
      <4>1. CASE EventIsOut(subject)
        BY <1>1, <1>2, <1>3, <2>2, <4>1
      <4>2. CASE ~EventIsOut(subject) /\ Listed(event[subject])
        <5> HIDE DEF Listed
        <5>1. handler = "flushing" => event[subject] \in Events!Requests /\ http[event[subject]] # "finished"
          BY <1>1, <1>2, <4>2
        <5>2. QED
          BY <1>3, <2>2, <4>2, <5>1
      <4>3. QED
        BY <1>1, <4>1, <4>2
    <3>5. QED
      BY <1>1, <2>2, <3>2, <3>3, <3>4
  <2>3. QED
    BY <1>6, <2>1, <2>2 DEF SendGameEvent
<1>7. CASE PushEvent
  <2>1. CASE Undefined
    BY <1>1, <2>1
  <2>2. CASE pc["main"] = "pushing" /\ Events!Push(made) /\ UNCHANGED <<handling, position>>
    <3>1. /\ Len(requests') = Len(requests) + 1
          /\ Len(requests) \in Nat
          /\ \A i \in 1..Len(requests) : requests'[i] = requests[i]
          /\ UNCHANGED <<handling, position, http, deleted>>
      BY <1>1, <2>2
    <3>2. Listed(event[subject]) => Listed(event[subject])'
      BY <3>1
    <3>3. EventIsOut(subject)' <=> EventIsOut(subject)
      BY <3>1
    <3> HIDE DEF Listed, EventIsOut
    <3>4. handler \in {"flushing", "joining"} =>
            /\ position <= Len(requests')
            /\ \A i \in 1..position : requests'[i] = requests[i]
      BY <1>1, <3>1
    <3>5. handler = "joining" => position + 1 \in 1..Len(requests) /\ position < Len(requests')
      BY <1>1, <3>1
    <3>6. QED
      BY <1>1, <3>1, <3>2, <3>3, <3>4, <3>5
  <2>3. QED
    BY <1>7, <2>1, <2>2 DEF PushEvent
<1>8. CASE Quit
  BY <1>1, <1>2, <1>8 DEF Quit
<1>9. CASE AtExit
  <2>1. CASE RemoveHandler
    BY <1>1, <1>2, <2>1 DEF RemoveHandler
  <2>2. CASE FlushAtExit
    BY <1>1, <1>2, <2>2 DEF FlushAtExit
  <2>3. CASE MisuseAtExit
    BY <1>1, <1>2, <2>3 DEF MisuseAtExit
  <2>4. QED
    BY <1>9, <2>1, <2>2, <2>3 DEF AtExit
<1>10. CASE HandlerThread
  <2>1. CASE TakeRequest
    BY <1>1, <1>2, <2>1 DEF TakeRequest
  <2>2. CASE ReceiveException
    BY <1>1, <1>2, <2>2 DEF ReceiveException
  <2>3. CASE ReceiveTooLate
    BY <1>1, <1>2, <2>3 DEF ReceiveTooLate
  <2>4. CASE ReceiveShutdown
    BY <1>1, <1>2, <2>4 DEF ReceiveShutdown
  <2>5. CASE SendCrashEvent
    <3>1. CASE UNCHANGED <<handling, memory, position>>
      BY <1>1, <3>1
    <3>2. CASE handler = "dumping" /\ handler' = "pushing" /\ Events!MakeRequest
               /\ event' = [event EXCEPT ![subject] = Events!NextRequest] /\ subject' = subject
      <4>1. subject \in Threads
        BY <1>1, <1>2, <3>2
      <4>2. event'[subject'] \in Events!Requests
        BY <1>1, <1>3, <3>2, <4>1
      <4>3. QED
        BY <3>2, <4>2
    <3>3. QED
      BY <2>5, <3>1, <3>2 DEF SendCrashEvent
  <2>6. CASE CrashTooEarly
    BY <1>1, <1>2, <2>6 DEF CrashTooEarly
  <2>7. CASE HangTooEarly
    BY <1>1, <1>2, <2>7 DEF HangTooEarly
  <2>8. CASE PushCrashEvent
    BY <1>1, <1>2, <2>8 DEF PushCrashEvent
  <2>9. CASE FlushInCallback
    BY <1>1, <1>2, <2>9 DEF FlushInCallback
  <2>10. CASE ReportDone
    BY <1>1, <1>2, <2>10 DEF ReportDone
  <2>11. CASE ForwardException
    BY <1>1, <1>2, <2>11 DEF ForwardException
  <2>12. QED
    BY <1>10, <2>1, <2>2, <2>3, <2>4, <2>5, <2>6, <2>7, <2>8, <2>9, <2>10,
        <2>11 DEF HandlerThread
<1>11. ASSUME NEW r \in Events!Requests, RequestEnds(r) PROVE LoopInv'
  BY <1>1, <1>2, <1>11 DEF RequestEnds
<1>12. ASSUME NEW t \in Threads, Crash(t) PROVE LoopInv'
  <2>1. HandledInv(t)
    BY <1>4
  <2>2. QED
    BY <1>1, <1>2, <2>1, <1>12 DEF Crash
<1>13. ASSUME NEW t \in Threads, CrashedThread(t) PROVE LoopInv'
  <2>1. HandledInv(t)
    BY <1>4
  <2>2. CASE Enter(t)
    BY <1>1, <1>2, <2>1, <2>2 DEF Enter
  <2>3. CASE EnterTooLate(t)
    BY <1>1, <1>2, <2>1, <2>3 DEF EnterTooLate
  <2>4. CASE Submit(t)
    BY <1>1, <1>2, <2>1, <2>4 DEF Submit
  <2>5. CASE Collect(t)
    BY <1>1, <1>2, <2>1, <2>5 DEF Collect
  <2>6. CASE Leave(t)
    BY <1>1, <1>2, <2>1, <2>6 DEF Leave
  <2>7. CASE Die(t)
    BY <1>1, <1>2, <2>1, <2>7 DEF Die
  <2>8. QED
    BY <1>13, <2>2, <2>3, <2>4, <2>5, <2>6, <2>7 DEF CrashedThread
<1>14. QED
  BY <1>5, <1>6, <1>7, <1>8, <1>9, <1>10, <1>11, <1>12, <1>13 DEF Next

(* ... nobody goes on before the authors are told,                            *)
LEMMA ToldKept ==
  ASSUME ReportInv, Next, NEW u \in Threads
  PROVE  Told(u)'
<1> USE DEF memory, locks, mach, task, signals, handling, faults, Goes, Runs, Undefined, Killed,
    HandlerGoes, Alive, Release, ReleaseAgain, Join, Flushed, Events!Push, Events!ReleaseRef,
    Events!Finish, Events!Destroyed, EventIsOut, Busy, Errors, Threads, TypeOK, MemoryTypeOK,
    LocksInv, HandledInv, Told, LoopInv
<1>1. /\ TypeOK
      /\ MemoryTypeOK
      /\ LocksInv
      /\ LoopInv
      /\ MadeInv
      /\ HandledInv(u)
      /\ Told(u)
  BY DEF ReportInv
<1>2. /\ "main" \in Threads
      /\ None \notin Threads
      /\ Events!Requests \subseteq Threads
      /\ None \notin Events!Requests
      /\ "main" \notin Events!Requests
  BY CrashAssumption
<1>3. Events!MakeRequest =>
        /\ Events!NextRequest \in Events!Requests
        /\ http[Events!NextRequest] = "none"
        /\ http' = [http EXCEPT ![Events!NextRequest] = "running"]
        /\ deleted' = deleted
        /\ requests' \in Seq(Events!Requests)
        /\ \A r \in Events!Requests : http[r] # "finished" /\ Listed(r) => Listed(r)'
  BY <1>1, MakeRequestFacts
<1>4. HandledInv("main") /\ \A t \in Threads : HandledInv(t)
  BY <1>2 DEF ReportInv
<1>5. CASE Register
  BY <1>1, <1>2, <1>5 DEF Register
<1>6. CASE SendGameEvent
  BY <1>1, <1>2, <1>3, <1>6 DEF SendGameEvent
<1>7. CASE PushEvent
  BY <1>1, <1>2, <1>7 DEF PushEvent
<1>8. CASE Quit
  BY <1>1, <1>2, <1>8 DEF Quit
<1>9. CASE AtExit
  <2>1. CASE RemoveHandler
    BY <1>1, <1>2, <2>1 DEF RemoveHandler
  <2>2. CASE FlushAtExit
    BY <1>1, <1>2, <2>2 DEF FlushAtExit
  <2>3. CASE MisuseAtExit
    BY <1>1, <1>2, <2>3 DEF MisuseAtExit
  <2>4. QED
    BY <1>9, <2>1, <2>2, <2>3 DEF AtExit
<1>10. CASE HandlerThread
  <2>1. CASE TakeRequest
    BY <1>1, <1>2, <2>1 DEF TakeRequest
  <2>2. CASE ReceiveException
    BY <1>1, <1>2, <2>2 DEF ReceiveException
  <2>3. CASE ReceiveTooLate
    BY <1>1, <1>2, <2>3 DEF ReceiveTooLate
  <2>4. CASE ReceiveShutdown
    BY <1>1, <1>2, <2>4 DEF ReceiveShutdown
  <2>5. CASE SendCrashEvent
    <3>1. /\ UNCHANGED <<platform, pc, faults, subject>>
          /\ handler = "dumping"
          /\ process = "alive"
      BY <2>5 DEF SendCrashEvent
    <3>2. \/ UNCHANGED <<event, http>>
          \/ event' = [event EXCEPT ![subject] = Events!NextRequest] /\ Events!MakeRequest
      <4>1. CASE Undefined
        BY <4>1
      <4>2. CASE ~Undefined
        BY <2>5, <4>2 DEF SendCrashEvent
      <4>3. QED
        BY <4>1, <4>2
    <3>3. u \in crashed /\ pc[u] \in {"leaving", "unhandled", "gone"} => u # subject
      BY <1>1, <3>1
    <3>4. EventIsOut(u) /\ u # subject => EventIsOut(u)'
      BY <1>1, <1>2, <1>3, <3>1, <3>2
    <3>5. QED
      BY <1>1, <3>1, <3>3, <3>4
  <2>6. CASE CrashTooEarly
    BY <1>1, <1>2, <2>6 DEF CrashTooEarly
  <2>7. CASE HangTooEarly
    BY <1>1, <1>2, <2>7 DEF HangTooEarly
  <2>8. CASE PushCrashEvent
    BY <1>1, <1>2, <2>8 DEF PushCrashEvent
  <2>9. CASE FlushInCallback
    BY <1>1, <1>2, <2>9 DEF FlushInCallback
  <2>10. CASE ReportDone
    BY <1>1, <1>2, <2>10 DEF ReportDone
  <2>11. CASE ForwardException
    <3>1. Listed(event[subject]) => EventIsOut(subject)
      <4>1. handler = "flushing" /\ position = Len(requests)
        BY <2>11 DEF ForwardException
      <4>2. /\ \A i \in 1..Len(requests) : http[requests[i]] = "finished"
            /\ event[subject] \in Events!Requests
        BY <1>1, <4>1
      <4>3. QED
        BY <1>2, <4>2 DEF Listed
    <3>2. EventIsOut(subject)
      BY <1>1, <2>11, <3>1 DEF ForwardException
    <3>3. QED
      BY <1>1, <1>2, <2>11, <3>2 DEF ForwardException
  <2>12. QED
    BY <1>10, <2>1, <2>2, <2>3, <2>4, <2>5, <2>6, <2>7, <2>8, <2>9, <2>10,
        <2>11 DEF HandlerThread
<1>11. ASSUME NEW r \in Events!Requests, RequestEnds(r) PROVE Told(u)'
  BY <1>1, <1>2, <1>11 DEF RequestEnds
<1>12. ASSUME NEW t \in Threads, Crash(t) PROVE Told(u)'
  <2>1. HandledInv(t)
    BY <1>4
  <2>2. QED
    BY <1>1, <1>2, <2>1, <1>12 DEF Crash
<1>13. ASSUME NEW t \in Threads, CrashedThread(t) PROVE Told(u)'
  <2>1. HandledInv(t)
    BY <1>4
  <2>2. CASE Enter(t)
    BY <1>1, <1>2, <2>1, <2>2 DEF Enter
  <2>3. CASE EnterTooLate(t)
    BY <1>1, <1>2, <2>1, <2>3 DEF EnterTooLate
  <2>4. CASE Submit(t)
    BY <1>1, <1>2, <2>1, <2>4 DEF Submit
  <2>5. CASE Collect(t)
    BY <1>1, <1>2, <2>1, <2>5 DEF Collect
  <2>6. CASE Leave(t)
    BY <1>1, <1>2, <2>1, <2>6 DEF Leave
  <2>7. CASE Die(t)
    BY <1>1, <1>2, <2>1, <2>7 DEF Die
  <2>8. QED
    BY <1>13, <2>2, <2>3, <2>4, <2>5, <2>6, <2>7 DEF CrashedThread
<1>14. QED
  BY <1>5, <1>6, <1>7, <1>8, <1>9, <1>10, <1>11, <1>12, <1>13 DEF Next

(* ... and requests are made one after the other.                             *)
LEMMA MadeKept ==
  ASSUME ReportInv, Next
  PROVE  MadeInv'
<1> USE DEF memory, Undefined, Killed, Release, ReleaseAgain, Join, Events!Push, Events!ReleaseRef
<1>1. TypeOK /\ MemoryTypeOK /\ MadeInv
  BY DEF ReportInv
<1>2. CASE UNCHANGED http
  <2>1. Events!Made' = Events!Made
    BY <1>2 DEF Events!Made, Events!Requests
  <2>2. QED
    BY <1>1, <2>1 DEF MadeInv
<1>3. CASE Events!MakeRequest
  BY <1>1, <1>3, MakeRequestFacts
<1>4. ASSUME NEW r \in Events!Requests, RequestEnds(r) PROVE MadeInv'
  <2>1. /\ http[r] = "running"
        /\ http' = [http EXCEPT ![r] = "finished"]
    BY <1>4 DEF RequestEnds, Events!Finish
  <2>2. \A q \in Events!Requests : http'[q] # "none" <=> http[q] # "none"
    BY <1>1, <2>1 DEF MemoryTypeOK
  <2>3. Events!Made' = {q \in Events!Requests : http'[q] # "none"}
    BY DEF Events!Made, Events!Requests
  <2>4. Events!Made' = Events!Made
    BY <2>2, <2>3 DEF Events!Made
  <2>5. QED
    BY <1>1, <2>4 DEF MadeInv
<1>5. CASE SendGameEvent \/ SendCrashEvent
  BY <1>2, <1>3, <1>5 DEF SendGameEvent, SendCrashEvent
<1>6. CASE Register \/ PushEvent \/ Quit \/ AtExit
  <2>1. UNCHANGED http
    BY <1>6 DEF Register, PushEvent, Quit, AtExit, RemoveHandler, FlushAtExit, MisuseAtExit
  <2>2. QED
    BY <1>2, <2>1
<1>7. ASSUME NEW t \in Threads, Crash(t) \/ CrashedThread(t) PROVE MadeInv'
  <2>1. UNCHANGED http
    BY <1>7 DEF Crash, CrashedThread, Enter, EnterTooLate, Submit, Collect, Leave, Die
  <2>2. QED
    BY <1>2, <2>1
<1>8. CASE HandlerThread /\ ~SendCrashEvent
  <2>1. UNCHANGED http
    BY <1>8 DEF HandlerThread, TakeRequest, ReceiveException, ReceiveTooLate, ReceiveShutdown, CrashTooEarly,
         HangTooEarly, PushCrashEvent, FlushInCallback, ReportDone, ForwardException
  <2>2. QED
    BY <1>2, <2>1
<1>9. QED
  BY <1>4, <1>5, <1>6, <1>7, <1>8 DEF Next

(* The invariant holds at first,                                              *)
LEMMA ReportStarts == ASSUME Init PROVE ReportInv
<1> USE DEF Init, Events!Init
<1>1. /\ "main" \in Threads
      /\ None \notin Threads
      /\ Events!Requests \subseteq Threads
  BY CrashAssumption DEF Threads
<1>2. http = [r \in Events!Requests |-> "none"]
  BY DEF Events!Requests
<1>3. TypeOK
  <2>1. pc \in [Threads -> {"starting", "running", "pushing", "quitting", "flushing", "joining",
                           "entering", "locked", "waiting", "leaving", "unhandled", "gone"}]
    OBVIOUS
  <2>2. /\ error \in [Threads -> Errors \cup {"none"}]
        /\ event \in [Threads -> Events!Requests \cup {None}]
    OBVIOUS
  <2>3. /\ platform \in {"windows", "mac"}
        /\ {stackLock, lock, requesting, subject} \subseteq Threads \cup {None}
        /\ made \in Events!Requests \cup {None}
        /\ start \in 0..1 /\ finish \in 0..1
    OBVIOUS
  <2>4. /\ process = "alive" /\ crashed = {} /\ installed = TRUE /\ registered = FALSE
        /\ filter = "breakpad" /\ suspended = {} /\ handler = "idle"
    OBVIOUS
  <2> HIDE DEF Init
  <2>5. QED
    BY <2>1, <2>2, <2>3, <2>4 DEF TypeOK
<1>4. MemoryTypeOK
  <2>1. /\ <<>> \in Seq(Events!Requests)
        /\ <<>> \in Seq(Threads \cup {"shutdown"})
    OBVIOUS
  <2>2. QED
    BY <1>1, <1>2, <2>1 DEF MemoryTypeOK
<1>5. LocksInv
  BY <1>1 DEF LocksInv, Busy
<1>6. ASSUME NEW t \in Threads PROVE HandledInv(t) /\ Told(t)
  BY <1>1, <1>6 DEF HandledInv, Told
<1>7. MadeInv
  <2>1. Events!Made = {}
    BY <1>2 DEF Events!Made
  <2>2. IsFiniteSet({}) /\ Cardinality({}) = 0
    BY FS_EmptySet
  <2>3. Len(Ids) \in Nat /\ 1..0 = {}
    BY CrashAssumption
  <2>4. QED
    BY <2>1, <2>2, <2>3 DEF MadeInv
<1>8. LoopInv
  BY DEF LoopInv
<1>9. QED
  BY <1>3, <1>4, <1>5, <1>6, <1>7, <1>8 DEF ReportInv

(* ... and every step keeps it.                                               *)
LEMMA ReportKept == ASSUME ReportInv, [Next]_vars PROVE ReportInv'
<1>1. CASE Next
  BY <1>1, ReportTyping, MemoryTyping, LocksKept, HandledKept, ToldKept, MadeKept, LoopKept DEF ReportInv, Threads,
     Events!Requests
<1>2. CASE UNCHANGED vars
  <2> USE <1>2 DEF vars, task, faults, locks, signals, mach, handling, memory
  <2>1. (TypeOK' <=> TypeOK) /\ (MemoryTypeOK' <=> MemoryTypeOK)
    BY DEF TypeOK, MemoryTypeOK, Threads, Errors, Events!Requests
  <2>2. LocksInv' <=> LocksInv
    BY DEF LocksInv, Busy, EventIsOut, Threads, Events!Requests
  <2>3. ASSUME NEW t \in Threads PROVE (HandledInv(t)' <=> HandledInv(t)) /\ (Told(t)' <=> Told(t))
    BY DEF HandledInv, Told, EventIsOut
  <2>4. (MadeInv' <=> MadeInv) /\ (LoopInv' <=> LoopInv)
    BY DEF MadeInv, LoopInv, Listed, EventIsOut, Events!Made, Events!Requests
  <2>5. QED
    BY <2>1, <2>2, <2>3, <2>4 DEF ReportInv, Threads, Events!Requests
<1>3. QED
  BY <1>1, <1>2

(* For any threads that crash in any order and number, at any moment of the   *)
(* game and of its end, on both platforms.                                    *)
THEOREM ReportCorrect == Spec => []ReportInv
<1>1. QED
  BY ReportStarts, ReportKept, PTL DEF Spec

(* The two critical sections and semaphores of the exception handler pair     *)
(* each crash with its own report: no report reaches another thread.          *)
THEOREM ReportsDoNotMix == Spec => []OneAtATime
<1>1. ASSUME ReportInv, platform = "windows" PROVE OneAtATime
  <2>1. /\ LocksInv
        /\ \A t \in Threads : pc[t] = "waiting" <=> lock = t
        /\ lock \in Threads \cup {None}
    BY <1>1 DEF ReportInv, HandledInv, TypeOK
  <2>2. \A t, u \in Threads : pc[t] = "waiting" /\ pc[u] = "waiting" => t = u
    BY <2>1
  <2>3. Reporting => subject = requesting /\ pc[subject] = "waiting"
    BY <1>1, <2>1 DEF LocksInv, Reporting, Busy
  <2>4. start = 1 => pc[requesting] = "waiting" /\ ~Reporting
    BY <1>1, <2>1 DEF LocksInv, Reporting, Busy
  <2>5. QED
    BY <2>2, <2>3, <2>4 DEF OneAtATime
<1>2. ReportInv => OneAtATime
  BY <1>1 DEF OneAtATime
<1>3. QED
  BY <1>2, ReportCorrect, PTL

(* The callback returns only when the request that tells the authors has left *)
(* the list (~HttpRequest waits), so the crashed thread cannot end before.    *)
THEOREM NoCrashUntold == Spec => []AuthorsAreTold
<1>1. ReportInv => AuthorsAreTold
  BY DEF ReportInv, TypeOK, Told, AuthorsAreTold
<1>2. QED
  BY <1>1, ReportCorrect, PTL
================================================================================
