----------------------------- MODULE CrashServer -----------------------------
(* Breakpad's crash generation server on Windows and its client processes     *)
(* (src/Breakpad/client/windows/crash_generation: crash_generation_server.cc, *)
(* client_info.cc, crash_generation_client.cc).  The game reports its crashes *)
(* in its own process (see CrashReport) and starts no server; the server is   *)
(* the part of the library where most threads meet.                           *)
(*                                                                            *)
(* One thread runs the callback of the pipe: a state machine with one state   *)
(* per operation on the pipe.  Threads of the pool run OnDumpRequest and      *)
(* OnClientEnd, at most one of each per client.  The destructor runs in the   *)
(* thread of the application.  Clients are other processes, which may end at  *)
(* any moment.                                                                *)
EXTENDS Naturals, FiniteSets

CONSTANTS
  Clients,      \* client processes
  NoClient,     \* no client
  MaxRequests   \* bound: how many dumps each client may have asked for, as a set
                \*   of functions, so that it can bound all of them together

ASSUME ServerAssumption ==
  /\ NoClient \notin Clients
  /\ "server" \notin Clients \cup {NoClient}
  /\ MaxRequests \subseteq [Clients -> Nat]

VARIABLES
  server,     \* "up", where the destructor is, "gone" or "undefined"
  state,      \* server_state_
  signaled,   \* overlapped_.hEvent is signaled
  waiting,    \* pipe_wait_handle_ is registered
  callback,   \* where the pipe's callback is: "out", "in", or a step of AddClient
  io,         \* the overlapped operation: which is pending, or how the last one ended
  listening,  \* a client can open the pipe
  peer,       \* the client at the other end of the pipe
  closed,     \* ... has closed its end
  inbox,      \* the message it has written
  outbox,     \* the reply waits for it
  current,    \* client_info_
  mutex,      \* the owner of server_alive_handle_: "server", None or a client
  info,       \* the ClientInfo of each client: "none", "live" or "freed"
  listed,     \* clients_
  dumpWait, exitWait,     \* clients whose waits are registered
  dumping,    \* OnDumpRequest of each client
  ending,     \* OnClientEnd of each client
  requested, generated,   \* clients whose events are signaled
  client,     \* what each client does
  asked,      \* how many dumps it has asked for
  served,     \* the last of them the server has begun to serve
  answer,     \* the one the last SetEvent of the server was for
  tardy       \* clients that have given up waiting for an answer

machine == <<state, signaled, waiting, callback, current>>
conversation == <<listening, peer, closed, inbox, outbox>>
pipe == <<io, conversation>>
infos == <<info, listed, dumpWait, exitWait>>
pool == <<dumping, ending>>
dumps == <<requested, generated, served, answer>>
clients == <<client, asked, tardy>>
serverVars == <<server, machine, pipe, mutex, infos, pool, dumps, clients>>

(* Start has created the pipe and signaled the event.                         *)
ServerInit ==
  /\ server = "up"
  /\ state = "INITIAL"
  /\ signaled = TRUE
  /\ waiting = TRUE
  /\ callback = "out"
  /\ io = "idle"
  /\ listening = TRUE
  /\ peer = NoClient
  /\ closed = FALSE
  /\ inbox = "empty"
  /\ outbox = FALSE
  /\ current = NoClient
  /\ mutex = "server"
  /\ info = [c \in Clients |-> "none"]
  /\ listed = {}
  /\ dumpWait = {}
  /\ exitWait = {}
  /\ dumping = [c \in Clients |-> "idle"]
  /\ ending = [c \in Clients |-> "idle"]
  /\ requested = {}
  /\ generated = {}
  /\ client = [c \in Clients |-> "new"]
  /\ asked = [c \in Clients |-> 0]
  /\ served = [c \in Clients |-> 0]
  /\ answer = [c \in Clients |-> 0]
  /\ tardy = {}

Serving == server \notin {"gone", "undefined"}
shutting_down == server # "up"

(* A ClientInfo is touched that has been deleted.                             *)
UseOfFreed ==
  /\ server' = "undefined"
  /\ UNCHANGED <<machine, pipe, mutex, infos, pool, dumps, clients>>

(* What DisconnectNamedPipe makes of the conversation, and of an operation    *)
(* that is pending: it ends, and signals the event.                           *)
Pending == io \in {"connect", "read", "write"}
Disconnect(result) ==
  /\ io' = IF Pending THEN "broken" ELSE result
  /\ listening' = FALSE
  /\ peer' = NoClient
  /\ closed' = FALSE
  /\ inbox' = "empty"
  /\ outbox' = FALSE

(* ------------------------- the callback of the pipe ----------------------- *)

(* HandleConnectionRequest runs whenever the event is signaled.               *)
BeginCallback ==
  /\ Serving
  /\ waiting
  /\ signaled
  /\ callback = "out"
  /\ IF shutting_down THEN state' = "ERROR" /\ signaled' = FALSE /\ UNCHANGED callback
                      ELSE callback' = "in" /\ UNCHANGED <<state, signaled>>
  /\ UNCHANGED <<server, waiting, current, pipe, mutex, infos, pool, dumps, clients>>

Handles(s) == Serving /\ callback = "in" /\ state = s

(* EnterStateImmediately, EnterStateWhenSignaled; the callback returns.       *)
GoesOn(s) == state' = s /\ signaled' = TRUE /\ callback' = "out"
Awaits(s) == state' = s /\ callback' = "out"

(* What most handlers leave alone.                                            *)
others == <<server, waiting, mutex, infos, pool, dumps, clients>>

HandleErrorState ==
  /\ Handles("ERROR")
  /\ callback' = "out"
  /\ IF shutting_down
     THEN UNCHANGED <<waiting, signaled, pipe>>
     ELSE waiting' = FALSE /\ signaled' = FALSE /\ Disconnect(io)
  /\ UNCHANGED <<server, state, current, mutex, infos, pool, dumps, clients>>

(* ConnectNamedPipe.  A client that was faster is ERROR_PIPE_CONNECTED, one   *)
(* that has already closed its end again ERROR_NO_DATA.                       *)
HandleInitialState ==
  /\ Handles("INITIAL")
  /\ \/ /\ peer = NoClient
        /\ Awaits("CONNECTING")
        /\ signaled' = FALSE
        /\ io' = "connect"
        /\ listening' = TRUE
     \/ /\ peer # NoClient
        /\ GoesOn(IF closed THEN "ERROR" ELSE "CONNECTED")
        /\ UNCHANGED <<io, listening>>
  /\ UNCHANGED <<current, peer, closed, inbox, outbox, others>>

(* The handlers that look how the operation has ended.                        *)
HandleResult(s, next) ==
  /\ Handles(s)
  /\ GoesOn(IF io = "ok" THEN next ELSE "DISCONNECTING")
  /\ UNCHANGED <<current, pipe, others>>

HandleConnectingState == HandleResult("CONNECTING", "CONNECTED")
HandleReadingState == HandleResult("READING", "READ_DONE")
HandleWritingState == HandleResult("WRITING", "WRITE_DONE")

(* ReadFile: a message that is there is read at once, a pipe without a client *)
(* gives an error at once, everything else comes later.                       *)
Broken == peer = NoClient \/ (closed /\ inbox = "empty")
ReadFile(s) ==
  \/ Broken /\ GoesOn("DISCONNECTING") /\ UNCHANGED io
  \/ inbox # "empty" /\ GoesOn(s) /\ io' = "ok"
  \/ ~Broken /\ inbox = "empty" /\ Awaits(s) /\ signaled' = FALSE /\ io' = "read"

HandleConnectedState ==
  /\ Handles("CONNECTED")
  /\ ReadFile("READING")
  /\ UNCHANGED <<current, conversation, others>>

HandleWriteDoneState ==
  /\ Handles("WRITE_DONE")
  /\ ReadFile("READING_ACK")
  /\ UNCHANGED <<current, conversation, others>>

IsEnded(c) == client[c] \in {"ended", "ended early"}

(* READ_DONE: an upload, a client that has gone, or a process that cannot be  *)
(* opened or given handles (ClientInfo::Initialize, PrepareReply).            *)
RefuseRegistration ==
  /\ Handles("READ_DONE")
  /\ inbox' = "empty"
  /\ GoesOn("DISCONNECTING")
  /\ UNCHANGED <<current, io, listening, peer, closed, outbox, others>>

(* READ_DONE: the handles of a new ClientInfo are duplicated, WriteFile sends *)
(* them, now or when the client reads, and AddClient registers both waits.    *)
RespondToClient ==
  /\ Handles("READ_DONE")
  /\ inbox = "register"
  /\ peer # NoClient
  /\ ~closed
  /\ inbox' = "empty"
  /\ outbox' = TRUE
  /\ \/ io' = "write" /\ signaled' = FALSE
     \/ io' = "ok" /\ signaled' = TRUE
  /\ current' = peer
  /\ info' = [info EXCEPT ![peer] = "live"]
  /\ dumpWait' = dumpWait \cup {peer}
  /\ exitWait' = exitWait \cup {peer}
  /\ callback' = "registered"
  /\ UNCHANGED <<server, state, waiting, listening, peer, closed, mutex, listed, pool, dumps, clients>>

(* set_process_exit_wait_handle.                                              *)
SetHandle ==
  /\ Serving
  /\ callback = "registered"
  /\ IF info[current] = "freed"
     THEN UseOfFreed
     ELSE /\ callback' = "adding"
          /\ UNCHANGED <<server, state, signaled, waiting, current, pipe, mutex, infos, pool, dumps, clients>>

(* AddClient, under the lock.                                                 *)
AddClient ==
  /\ Serving
  /\ callback = "adding"
  /\ ~shutting_down
  /\ listed' = listed \cup {current}
  /\ Awaits("WRITING")
  /\ UNCHANGED <<server, signaled, waiting, current, pipe, mutex, info, dumpWait, exitWait, pool, dumps, clients>>

(* While the server is shut down the ClientInfo is deleted instead, once the  *)
(* callbacks of its waits have returned.                                      *)
Delete(c) ==
  /\ info' = [info EXCEPT ![c] = "freed"]
  /\ dumpWait' = dumpWait \ {c}
  /\ exitWait' = exitWait \ {c}

AddTooLate ==
  /\ Serving
  /\ callback = "adding"
  /\ shutting_down
  /\ IF info[current] = "freed"
     THEN UseOfFreed
     ELSE /\ dumping[current] = "idle"
          /\ ending[current] # "unregistering"
          /\ Delete(current)
          /\ GoesOn("DISCONNECTING")
          /\ UNCHANGED <<server, waiting, current, pipe, mutex, listed, pool, dumps, clients>>

(* The connect callback gets the ClientInfo, if it is still in the list.      *)
HandleReadingAckState ==
  /\ Handles("READING_ACK")
  /\ IF io = "ok" /\ current \in listed /\ info[current] = "freed"
     THEN UseOfFreed
     ELSE /\ GoesOn("DISCONNECTING")
          /\ inbox' = "empty"
          /\ UNCHANGED <<current, io, listening, peer, closed, outbox, others>>

(* The event is reset first, so that an operation that still was pending sets *)
(* it again.                                                                  *)
HandleDisconnectingState ==
  /\ Handles("DISCONNECTING")
  /\ current' = NoClient
  /\ Disconnect("idle")
  /\ IF shutting_down THEN Awaits(state) /\ signaled' = Pending ELSE GoesOn("INITIAL")
  /\ UNCHANGED others

PipeCallback ==
  \/ BeginCallback
  \/ HandleErrorState
  \/ HandleInitialState
  \/ HandleConnectingState
  \/ HandleConnectedState
  \/ HandleReadingState
  \/ RefuseRegistration
  \/ RespondToClient
  \/ SetHandle
  \/ AddClient
  \/ AddTooLate
  \/ HandleWritingState
  \/ HandleWriteDoneState
  \/ HandleReadingAckState
  \/ HandleDisconnectingState

(* ------------------------- the threads of the pool ------------------------ *)

(* OnDumpRequest runs whenever the event of the client is signaled.           *)
BeginDump(c) ==
  /\ Serving
  /\ c \in dumpWait \cap requested
  /\ dumping[c] = "idle"
  /\ dumping' = [dumping EXCEPT ![c] = "writing"]
  /\ served' = [served EXCEPT ![c] = asked[c]]
  /\ UNCHANGED <<server, machine, pipe, mutex, infos, ending, requested, generated, answer, clients>>

(* A bug: the client is only told of a dump that could be written.            *)
DumpForgotten(c) ==
  /\ Serving
  /\ dumping[c] = "writing"
  /\ dumping' = [dumping EXCEPT ![c] = "generated"]
  /\ \/ generated' = generated \cup {c} /\ answer' = [answer EXCEPT ![c] = served[c]]
     \/ UNCHANGED <<generated, answer>>
  /\ UNCHANGED <<server, machine, pipe, mutex, infos, ending, requested, served, clients>>

(* HandleDumpRequest sets the event of the client whether there is a dump or  *)
(* not.                                                                       *)
DumpGenerated(c) ==
  /\ Serving
  /\ dumping[c] = "writing"
  /\ dumping' = [dumping EXCEPT ![c] = "generated"]
  /\ generated' = generated \cup {c}
  /\ answer' = [answer EXCEPT ![c] = served[c]]
  /\ UNCHANGED <<server, machine, pipe, mutex, infos, ending, requested, served, clients>>

EndDump(c) ==
  /\ Serving
  /\ dumping[c] = "generated"
  /\ dumping' = [dumping EXCEPT ![c] = "idle"]
  /\ requested' = requested \ {c}
  /\ UNCHANGED <<server, machine, pipe, mutex, infos, ending, generated, served, answer, clients>>

(* OnClientEnd runs once, when the process has ended; it first unregisters    *)
(* the dump wait.                                                             *)
BeginClientEnd(c) ==
  /\ Serving
  /\ c \in exitWait
  /\ IsEnded(c)
  /\ exitWait' = exitWait \ {c}
  /\ dumpWait' = dumpWait \ {c}
  /\ ending' = [ending EXCEPT ![c] = "unregistering"]
  /\ UNCHANGED <<server, machine, pipe, mutex, info, listed, dumping, dumps, clients>>

(* A bug: the list is not told.                                               *)
ForgetsToRemove(c) ==
  /\ Serving
  /\ ending[c] = "unregistering"
  /\ dumping[c] = "idle"
  /\ ending' = [ending EXCEPT ![c] = "done"]
  /\ IF shutting_down THEN UNCHANGED info ELSE info' = [info EXCEPT ![c] = "freed"]
  /\ UNCHANGED <<server, machine, pipe, mutex, listed, dumpWait, exitWait, dumping, dumps, clients>>

(* The running OnDumpRequest has returned: out of the list, and deleted,      *)
(* unless the destructor does that.                                           *)
EndClientEnd(c) ==
  /\ Serving
  /\ ending[c] = "unregistering"
  /\ dumping[c] = "idle"
  /\ ending' = [ending EXCEPT ![c] = "done"]
  /\ IF shutting_down
     THEN UNCHANGED <<info, listed>>
     ELSE listed' = listed \ {c} /\ info' = [info EXCEPT ![c] = "freed"]
  /\ UNCHANGED <<server, machine, pipe, mutex, dumpWait, exitWait, dumping, dumps, clients>>

PoolThread(c) ==
  BeginDump(c) \/ DumpGenerated(c) \/ EndDump(c) \/ BeginClientEnd(c) \/ EndClientEnd(c)

(* -------------------------------- the destructor -------------------------- *)

Destroys(from, to) == server = from /\ server' = to

Shutdown ==
  /\ Destroys("up", "disconnecting")
  /\ UNCHANGED <<machine, pipe, mutex, infos, pool, dumps, clients>>

(* A bug: the pipe is not disconnected.                                       *)
KeepPipe ==
  /\ Destroys("disconnecting", "unregistering")
  /\ UNCHANGED <<machine, pipe, mutex, infos, pool, dumps, clients>>

DisconnectPipe ==
  /\ Destroys("disconnecting", "unregistering")
  /\ Disconnect(io)
  /\ signaled' = (signaled \/ Pending)
  /\ UNCHANGED <<state, waiting, callback, current, mutex, infos, pool, dumps, clients>>

(* A bug: the error state is waited for without a limit.                      *)
UnregisterAfterError ==
  /\ Destroys("unregistering", "deleting")
  /\ state = "ERROR"
  /\ callback = "out"
  /\ waiting' = FALSE
  /\ UNCHANGED <<state, signaled, callback, current, pipe, mutex, infos, pool, dumps, clients>>

(* The error state is waited for, but only for a second; then the callback    *)
(* has returned.  What it has begun need not have ended.                      *)
UnregisterPipeWait ==
  /\ Destroys("unregistering", "deleting")
  /\ callback = "out"
  /\ waiting' = FALSE
  /\ UNCHANGED <<state, signaled, callback, current, pipe, mutex, infos, pool, dumps, clients>>

(* Each ClientInfo in the list: the callbacks of both waits have returned.    *)
DeleteClient(c) ==
  /\ server = "deleting"
  /\ c \in listed
  /\ IF info[c] = "freed"
     THEN UseOfFreed
     ELSE /\ ending[c] # "unregistering"
          /\ dumping[c] = "idle"
          /\ Delete(c)
          /\ listed' = listed \ {c}
          /\ UNCHANGED <<server, machine, pipe, mutex, pool, dumps, clients>>

ReleaseMutex ==
  /\ Destroys("deleting", "gone")
  /\ listed = {}
  /\ mutex' = NoClient
  /\ UNCHANGED <<machine, pipe, infos, pool, dumps, clients>>

Destructor ==
  \/ DisconnectPipe
  \/ UnregisterPipeWait
  \/ \E c \in Clients : DeleteClient(c)
  \/ ReleaseMutex

(* --------------------------------- the clients ---------------------------- *)

Becomes(c, from, to) ==
  /\ server # "undefined"
  /\ client[c] = from
  /\ client' = [client EXCEPT ![c] = to]

(* An operation the server has pending ends with what the client does.        *)
Completes(operation, result) ==
  IF io = operation THEN io' = result /\ signaled' = TRUE ELSE UNCHANGED <<io, signaled>>

rest == <<server, state, waiting, callback, current, infos, pool>>

Connect(c) ==
  /\ Becomes(c, "new", "connected")
  /\ listening
  /\ peer = NoClient
  /\ peer' = c
  /\ Completes("connect", "ok")
  /\ UNCHANGED <<rest, listening, closed, inbox, outbox, mutex, dumps, asked, tardy>>

(* RegisterClient writes its message and waits for the reply; RequestUpload   *)
(* writes one and closes the pipe.                                            *)
AskToRegister(c) ==
  /\ Becomes(c, "connected", "transacting")
  /\ peer = c
  /\ inbox' = "register"
  /\ Completes("read", "ok")
  /\ UNCHANGED <<rest, listening, peer, closed, outbox, mutex, dumps, asked, tardy>>

RequestUpload(c) ==
  /\ Becomes(c, "connected", "new")
  /\ peer = c
  /\ inbox' = "upload"
  /\ closed' = TRUE
  /\ Completes("read", "ok")
  /\ UNCHANGED <<rest, listening, peer, outbox, mutex, dumps, asked, tardy>>

GetReply(c) ==
  /\ Becomes(c, "transacting", "replied")
  /\ peer = c
  /\ outbox
  /\ outbox' = FALSE
  /\ Completes("write", "ok")
  /\ UNCHANGED <<rest, listening, peer, closed, inbox, mutex, dumps, asked, tardy>>

Acknowledge(c) ==
  /\ Becomes(c, "replied", "registered")
  /\ peer = c
  /\ inbox' = "ack"
  /\ closed' = TRUE
  /\ Completes("read", "ok")
  /\ UNCHANGED <<rest, listening, peer, outbox, mutex, dumps, asked, tardy>>

(* The server has disconnected the pipe.                                      *)
RegistrationFails(c) ==
  /\ server # "undefined"
  /\ client[c] \in {"connected", "transacting", "replied"}
  /\ peer # c
  /\ client' = [client EXCEPT ![c] = "new"]
  /\ UNCHANGED <<rest, signaled, pipe, mutex, dumps, asked, tardy>>

(* A bug: the answer to an earlier request is not reset.                      *)
RequestUnprepared(c) ==
  /\ Becomes(c, "registered", "waiting")
  /\ asked' = [asked EXCEPT ![c] = @ + 1]
  /\ asked' \in MaxRequests
  /\ requested' = requested \cup {c}
  /\ UNCHANGED <<rest, signaled, pipe, mutex, generated, served, answer, tardy>>

(* SignalCrashEventAndWait until its wait.                                    *)
RequestDump(c) ==
  /\ Becomes(c, "registered", "waiting")
  /\ asked' = [asked EXCEPT ![c] = @ + 1]
  /\ asked' \in MaxRequests
  /\ generated' = generated \ {c}
  /\ requested' = requested \cup {c}
  /\ UNCHANGED <<rest, signaled, pipe, mutex, served, answer, tardy>>

(* The wait ends: with the event, with the mutex of a server that has gone    *)
(* (if the event is not there), or after 15 seconds.                          *)
DumpAnswered(c) ==
  /\ Becomes(c, "waiting", "registered")
  /\ c \in generated
  /\ UNCHANGED <<rest, signaled, pipe, mutex, dumps, asked, tardy>>

ServerGone(c) ==
  /\ Becomes(c, "waiting", "registered")
  /\ c \notin generated
  /\ mutex = NoClient
  /\ mutex' = c
  /\ UNCHANGED <<rest, signaled, pipe, dumps, asked, tardy>>

TimeOut(c) ==
  /\ Becomes(c, "waiting", "registered")
  /\ c \notin generated
  /\ tardy' = tardy \cup {c}
  /\ UNCHANGED <<rest, signaled, pipe, mutex, dumps, asked>>

(* A process ends, at any moment; "early" while the server is adding it.      *)
End(c) ==
  /\ server # "undefined"
  /\ ~IsEnded(c)
  /\ client' = [client EXCEPT ![c] =
                  IF callback \in {"registered", "adding"} /\ current = c THEN "ended early" ELSE "ended"]
  /\ IF peer = c /\ ~closed
     THEN /\ closed' = TRUE
          /\ IF io \in {"read", "write"} THEN io' = "broken" /\ signaled' = TRUE ELSE UNCHANGED <<io, signaled>>
     ELSE UNCHANGED <<closed, io, signaled>>
  /\ mutex' = IF mutex = c THEN NoClient ELSE mutex
  /\ UNCHANGED <<rest, listening, peer, inbox, outbox, dumps, asked, tardy>>

Proceed(c) ==
  \/ AskToRegister(c)
  \/ RequestUpload(c)
  \/ GetReply(c)
  \/ Acknowledge(c)
  \/ RegistrationFails(c)
  \/ DumpAnswered(c)
  \/ ServerGone(c)

ServerNext ==
  \/ PipeCallback
  \/ Shutdown
  \/ Destructor
  \/ \E c \in Clients :
       PoolThread(c) \/ Proceed(c) \/ Connect(c) \/ RequestDump(c) \/ TimeOut(c) \/ End(c)

ServerSpec == ServerInit /\ [][ServerNext]_serverVars

(* Threads and clients run on.  Nobody need connect, ask, end, or shut the    *)
(* server down, and nobody relies on the 15 seconds.                          *)
FairServerSpec ==
  /\ ServerSpec
  /\ WF_serverVars(PipeCallback)
  /\ WF_serverVars(Destructor)
  /\ \A c \in Clients : WF_serverVars(PoolThread(c)) /\ WF_serverVars(Proceed(c))

(* -------------------------------- properties ------------------------------ *)

(* A ClientInfo is only used while it is valid, whatever ends in which order, *)
(* except when a process ends before AddClient has put it into the list: the  *)
(* comment in HandleReadingAckState forgets OnClientEnd runs then already.    *)
InfosAreValid ==
  server = "undefined" => \E c \in Clients : client[c] = "ended early"

(* A client is told that its dump is there only for the dump it asked for,    *)
(* unless it has once given up waiting and asked again.                       *)
AnswersAreFresh ==
  \A c \in Clients :
    client[c] = "waiting" /\ c \in generated /\ c \notin tardy => answer[c] = asked[c]

(* The destructor leaves nothing behind that could use the deleted server: no *)
(* wait, no callback, and no operation on the pipe, except the                *)
(* ConnectNamedPipe of a callback that had begun before.                      *)
NothingOutlivesServer ==
  server = "gone" =>
    /\ dumpWait \cup exitWait = {}
    /\ callback = "out"
    /\ \A c \in Clients : dumping[c] = "idle" /\ ending[c] # "unregistering"
    /\ Pending => state = "CONNECTING" /\ io = "connect"

(* The first request of a client is never lost: until it is answered it waits *)
(* for the thread that will see it, through a ClientInfo that lives, or the   *)
(* destructor has deleted that and only the mutex is left to wait for.        *)
FirstRequestKept ==
  \A c \in Clients :
    client[c] = "waiting" /\ asked[c] = 1 /\ server # "undefined" =>
      \/ c \in generated
      \/ info[c] = "live" /\ c \in requested \cap dumpWait
      \/ info[c] = "freed" /\ shutting_down

(* No client waits for ever for the answer to its first request, without any  *)
(* help of the timeout: it gets the dump, or the mutex of a server that goes. *)
(* Never do all threads wait for each other.  Only one client gets the mutex. *)
FirstRequestAnswered ==
  \A c \in Clients :
    []<>(client[c] = "waiting" /\ asked[c] = 1 => server = "undefined" \/ mutex \in Clients \ {c})

(* The destructor, once begun, does not run for ever: it returns, whoever is  *)
(* connected, waits or ends meanwhile.                                        *)
ShutdownEnds == []<>(server # "up" => ~Serving)
=============================================================================
