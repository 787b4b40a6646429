----------------------------- MODULE CrashReport -----------------------------
(* What happens when the program crashes: Breakpad's exception handler, whose *)
(* thread writes the dump and calls the program back (src/Breakpad/client/    *)
(* {windows,mac}/handler/exception_handler.cc), the callback that tells the   *)
(* authors (src/src/CrashHandler.cpp), and the Analytics it shares with the   *)
(* threads that may crash.                                                    *)
(*                                                                            *)
(* Two platforms differ.  On Windows the unhandled exception filter runs in   *)
(* the crashed thread, which wakes the handler thread and waits for it, while *)
(* the other threads run on.  On the Mac the kernel stops the crashed thread  *)
(* and mails the handler thread, which suspends all the others.               *)
EXTENDS Naturals, Sequences, FiniteSets

CONSTANTS
  Ids,         \* see Analytics
  Others,      \* threads of the engine, such as the one that mixes the sound
  None,        \* no thread
  MaxEvents,   \* bound: events of the game itself
  MaxCrashes   \* bound: threads that crash

VARIABLES
  platform,    \* "windows" or "mac"
  process,     \* "alive", or how it ended: "quit", "told", "killed", "undefined"
  pc,          \* of every thread but the handler's
  crashed,     \* the threads that have crashed
  error,       \* the kind of error of each crashed thread
  installed,   \* the handler is on handler_stack_; on the Mac, has the ports
  filter,      \* Windows: "breakpad" (HandleException) or "previous"
  stackLock,   \* the owner of handler_stack_critical_section_
  lock,        \* the owner of handler_critical_section_
  start, finish,   \* the two semaphores
  requesting,  \* requesting_thread_id_
  mailbox,     \* the Mac's messages to the handler thread
  suspended,   \* the threads suspended on the Mac
  handler,     \* what the handler thread is doing
  subject,     \* the thread whose crash it reports
  event,       \* the request that tells of the crash of a thread
  registered,  \* Analytics is a subsystem of the context
  made,        \* the request in SendGameEvent of the main thread
  position,    \* the loop of FlushEvents: the request it has got to
  requests, http, deleted   \* see Analytics

memory == <<requests, http, deleted>>
locks == <<installed, filter, stackLock, lock>>
mach == <<mailbox, suspended>>
task == <<platform, registered, made>>
signals == <<start, finish, requesting>>
handling == <<handler, subject, event>>
faults == <<crashed, error>>
vars == <<task, process, pc, faults, locks, signals, mach, handling, position, memory>>

Events == INSTANCE Analytics

ASSUME CrashAssumption ==
  /\ Ids \in Seq(Events!Requests)
  /\ \A i, j \in DOMAIN Ids : Ids[i] = Ids[j] => i = j
  /\ None \notin Events!Requests \cup Others \cup {"main"}
  /\ "main" \notin Events!Requests \cup Others
  /\ "shutdown" \notin Events!Requests \cup Others
  /\ MaxEvents \in Nat
  /\ MaxCrashes \in Nat
  /\ Len(Ids) >= MaxEvents + MaxCrashes

Threads == {"main"} \cup Others \cup Events!Requests

(* The game's constructor makes the crash handler before it registers         *)
(* Analytics.                                                                 *)
Init ==
  /\ platform \in {"windows", "mac"}
  /\ process = "alive"
  /\ pc = [t \in Threads |-> IF t = "main" THEN "starting" ELSE "running"]
  /\ crashed = {}
  /\ error = [t \in Threads |-> "none"]
  /\ installed = TRUE
  /\ filter = "breakpad"
  /\ stackLock = None
  /\ lock = None
  /\ start = 0
  /\ finish = 0
  /\ requesting = None
  /\ mailbox = <<>>
  /\ suspended = {}
  /\ handler = "idle"
  /\ subject = None
  /\ event = [t \in Threads |-> None]
  /\ registered = FALSE
  /\ made = None
  /\ position = 0
  /\ Events!Init

Goes(t, from, to) == pc[t] = from /\ pc' = [pc EXCEPT ![t] = to]

Runs(t) == process = "alive" /\ t \notin suspended

(* Two threads at work in the list of requests at once: anything may happen,  *)
(* and the same when a deleted request is touched.                            *)
Undefined ==
  /\ process' = "undefined"
  /\ UNCHANGED <<task, pc, faults, locks, signals, mach, handling, position, memory>>

(* ---------------------------------- the program --------------------------- *)

(* The end of the constructor of Game.                                        *)
Register ==
  /\ Runs("main")
  /\ Goes("main", "starting", "running")
  /\ registered' = TRUE
  /\ UNCHANGED <<platform, made, process, faults, locks, signals, mach, handling, position, memory>>

HandlerInList == handler \in {"pushing", "flushing", "joining"}

(* SendLaunchEvent, SendLevelCompletedEvent, SendLevelFailedEvent.            *)
SendGameEvent ==
  /\ Runs("main")
  /\ pc["main"] = "running"
  /\ Cardinality(Events!Made) < MaxEvents
  /\ \/ /\ ~Events!Dangling
        /\ Goes("main", "running", "pushing")
        /\ Events!MakeRequest
        /\ made' = Events!NextRequest
        /\ UNCHANGED <<platform, registered, process, faults, locks, signals, mach, handling, position>>
     \/ (Events!Dangling \/ HandlerInList) /\ Undefined

PushEvent ==
  /\ Runs("main")
  /\ pc["main"] = "pushing"
  /\ \/ /\ Goes("main", "pushing", "running")
        /\ Events!Push(made)
        /\ made' = None
        /\ UNCHANGED <<platform, registered, process, faults, locks, signals, mach, handling, position>>
     \/ HandlerInList /\ Undefined

RequestEnds(r) ==
  /\ Runs(r)
  /\ pc[r] = "running"
  /\ Events!Finish(r)
  /\ UNCHANGED <<task, process, pc, faults, locks, signals, mach, handling, position>>

(* The game is left.  The context destroys Game, and with it the handler,     *)
(* before Analytics, which flushes.  Windows: the filter is reset under the   *)
(* lock of the stack and the thread terminated; Mac: it gets a message.       *)
Quit ==
  /\ Runs("main")
  /\ Goes("main", "running", "quitting")
  /\ UNCHANGED <<task, process, faults, locks, signals, mach, handling, position, memory>>

RemoveHandler ==
  /\ Runs("main")
  /\ Goes("main", "quitting", "flushing")
  /\ installed' = FALSE
  /\ filter' = "previous"
  /\ position' = 0
  /\ \/ /\ platform = "windows"
        /\ stackLock = None
        /\ handler' = "gone"
        /\ UNCHANGED mailbox
     \/ /\ platform = "mac"
        /\ mailbox' = Append(mailbox, "shutdown")
        /\ UNCHANGED handler
  /\ UNCHANGED <<task, process, faults, stackLock, lock, signals, suspended, subject, event, memory>>

(* FlushEvents, by the main thread at the end or by the handler thread.       *)
Release(n) ==
  /\ position < Len(requests)
  /\ n = position + 1
  /\ requests[n] \notin deleted
  /\ Events!ReleaseRef(n)
  /\ UNCHANGED position

ReleaseAgain ==
  /\ position < Len(requests)
  /\ requests[position + 1] \in deleted
  /\ Undefined

Join ==
  /\ Events!Destroyed(position + 1)
  /\ position' = position + 1
  /\ UNCHANGED memory

Flushed == position = Len(requests)

FlushAtExit ==
  /\ Runs("main")
  /\ \/ /\ Goes("main", "flushing", "joining")
        /\ Release(position + 1)
        /\ UNCHANGED process
     \/ /\ Goes("main", "joining", "flushing")
        /\ Join
        /\ UNCHANGED process
     \/ /\ Goes("main", "flushing", "gone")
        /\ Flushed
        /\ process' = "quit"
        /\ UNCHANGED <<position, memory>>
  /\ UNCHANGED <<task, faults, locks, signals, mach, handling>>

MisuseAtExit == Runs("main") /\ pc["main"] = "flushing" /\ ReleaseAgain

(* ---------------------------------- crashes ------------------------------- *)

(* A thread that may crash.  Of the main thread only what it does while the   *)
(* game starts and runs is taken to fail, not its leaving.                    *)
Alive(t) ==
  /\ Runs(t)
  /\ pc[t] \in {"starting", "running", "pushing"}
  /\ t \in Events!Requests => http[t] = "running"

Errors == {"exception", "parameter", "breakpoint"}

(* The process dies without a report.                                         *)
Killed ==
  /\ process' = "killed"
  /\ UNCHANGED <<task, pc, locks, signals, mach, handling, position, memory>>

(* An error nobody catches: the system calls the filter that is set; on the   *)
(* Mac the kernel stops the thread and sends its message to the ports.  An    *)
(* invalid parameter (HandleInvalidParameter) differs at the end, in Collect. *)
(* Filter and invalid parameter handler are always set together.              *)
Crash(t) ==
  /\ Alive(t)
  /\ Cardinality(crashed) < MaxCrashes
  /\ crashed' = crashed \cup {t}
  /\ \E e \in IF platform = "windows" THEN Errors ELSE {"exception"} :
       error' = [error EXCEPT ![t] = e]
  /\ \/ /\ platform = "windows"
        /\ filter = "breakpad"
        /\ pc' = [pc EXCEPT ![t] = "entering"]
        /\ UNCHANGED <<task, process, locks, signals, mach, handling, position, memory>>
     \/ /\ platform = "mac"
        /\ installed
        /\ pc' = [pc EXCEPT ![t] = "waiting"]
        /\ mailbox' = Append(mailbox, t)
        /\ UNCHANGED <<task, process, locks, signals, suspended, handling, position, memory>>
     \/ /\ IF platform = "windows" THEN filter = "previous" ELSE ~installed
        /\ Killed

(* ------------------------ Windows: the crashed thread --------------------- *)

(* A bug: the filter stays the one of this handler.                           *)
EnterKeepsFilter(t) ==
  /\ Runs(t)
  /\ stackLock = None
  /\ installed
  /\ Goes(t, "entering", IF error[t] = "breakpoint" THEN "leaving" ELSE "locked")
  /\ stackLock' = t
  /\ UNCHANGED <<task, process, faults, installed, filter, lock, signals, mach, handling, position,
                 memory>>

(* The constructor of AutoExceptionHandler, which reads a handler_stack_ that *)
(* is gone when the handler has been removed meanwhile; HandleException lets  *)
(* breakpoints pass.                                                          *)
Enter(t) ==
  /\ Runs(t)
  /\ stackLock = None
  /\ installed
  /\ Goes(t, "entering", IF error[t] = "breakpoint" THEN "leaving" ELSE "locked")
  /\ stackLock' = t
  /\ filter' = "previous"
  /\ UNCHANGED <<task, process, faults, installed, lock, signals, mach, handling, position, memory>>

EnterTooLate(t) ==
  /\ Runs(t)
  /\ pc[t] = "entering"
  /\ stackLock = None
  /\ ~installed
  /\ Undefined

(* WriteMinidumpOnHandlerThread until the wait for handler_finish_semaphore_. *)
Submit(t) ==
  /\ Runs(t)
  /\ lock = None
  /\ Goes(t, "locked", "waiting")
  /\ lock' = t
  /\ requesting' = t
  /\ start' = 1
  /\ UNCHANGED <<task, process, faults, installed, filter, stackLock, finish, mach, handling,
                 position, memory>>

(* Its end.  The callback has returned false, so HandleInvalidParameter goes  *)
(* on to the run-time library, which ends the process.                        *)
Collect(t) ==
  /\ Runs(t)
  /\ platform = "windows"
  /\ finish = 1
  /\ Goes(t, "waiting", "leaving")
  /\ finish' = 0
  /\ requesting' = None
  /\ lock' = None
  /\ process' = IF error[t] = "parameter" THEN "told" ELSE process
  /\ UNCHANGED <<task, faults, installed, filter, stackLock, start, mach, handling, position, memory>>

(* The destructor of AutoExceptionHandler; the search for a handler goes on.  *)
Leave(t) ==
  /\ Runs(t)
  /\ Goes(t, "leaving", "unhandled")
  /\ stackLock' = None
  /\ filter' = "breakpad"
  /\ UNCHANGED <<task, process, faults, installed, lock, signals, mach, handling, position, memory>>

(* ... finds none, and the system ends the process.                           *)
Die(t) ==
  /\ Runs(t)
  /\ Goes(t, "unhandled", "gone")
  /\ process' = IF error[t] = "breakpoint" THEN "killed" ELSE "told"
  /\ UNCHANGED <<task, faults, locks, signals, mach, handling, position, memory>>

(* ---------------------------- the handler thread -------------------------- *)

HandlerGoes(from, to) == process = "alive" /\ handler = from /\ handler' = to

(* A bug: the crashed thread is let go at once.                               *)
TakeAndAnswer ==
  /\ HandlerGoes("idle", "dumping")
  /\ start = 1
  /\ start' = 0
  /\ finish' = 1
  /\ subject' = requesting
  /\ UNCHANGED <<task, process, pc, faults, locks, requesting, mach, event, position, memory>>

(* ExceptionHandlerThreadMain wakes up.                                       *)
TakeRequest ==
  /\ HandlerGoes("idle", "dumping")
  /\ start = 1
  /\ start' = 0
  /\ subject' = requesting
  /\ UNCHANGED <<task, process, pc, faults, locks, finish, requesting, mach, event, position, memory>>

(* WaitForMessage receives an exception and suspends every other thread.  The *)
(* object it belongs to may be gone.                                          *)
ReceiveException ==
  /\ HandlerGoes("idle", "dumping")
  /\ mailbox # <<>>
  /\ Head(mailbox) # "shutdown"
  /\ installed
  /\ mailbox' = Tail(mailbox)
  /\ subject' = Head(mailbox)
  /\ suspended' = {t \in Threads : t \in Events!Requests => http[t] = "running"}
  /\ UNCHANGED <<task, process, pc, faults, locks, signals, event, position, memory>>

ReceiveTooLate ==
  /\ process = "alive"
  /\ handler = "idle"
  /\ mailbox # <<>>
  /\ Head(mailbox) # "shutdown"
  /\ ~installed
  /\ Undefined

ReceiveShutdown ==
  /\ HandlerGoes("idle", "gone")
  /\ mailbox # <<>>
  /\ Head(mailbox) = "shutdown"
  /\ mailbox' = Tail(mailbox)
  /\ UNCHANGED <<task, process, pc, faults, locks, signals, suspended, subject, event, position, memory>>

(* WriteMinidumpWithException writes the dump, or fails to, and then calls    *)
(* BreakpadMinidumpCallback, which makes the event in either case.  Before    *)
(* Analytics is registered its pointer is NULL, and the handler thread        *)
(* crashes in turn.  Should that reach the handler again, nobody answers.     *)
(* The heap's lock of the C run-time, which a crashed or suspended thread may *)
(* hold, is taken to be free when the callback allocates.                     *)
MainInList == pc["main"] = "pushing"

SendCrashEvent ==
  /\ registered
  /\ \/ /\ ~Events!Dangling
        /\ HandlerGoes("dumping", "pushing")
        /\ Events!MakeRequest
        /\ event' = [event EXCEPT ![subject] = Events!NextRequest]
        /\ UNCHANGED <<task, process, pc, faults, locks, signals, mach, subject, position>>
     \/ /\ process = "alive"
        /\ handler = "dumping"
        /\ Events!Dangling \/ MainInList
        /\ Undefined

CrashTooEarly ==
  /\ process = "alive"
  /\ handler = "dumping"
  /\ ~registered
  /\ filter = "previous"
  /\ Killed
  /\ UNCHANGED faults

HangTooEarly ==
  /\ HandlerGoes("dumping", "hung")
  /\ ~registered
  /\ platform = "windows" => filter = "breakpad"
  /\ UNCHANGED <<task, process, pc, faults, locks, signals, mach, subject, event, position, memory>>

PushCrashEvent ==
  \/ /\ HandlerGoes("pushing", "flushing")
     /\ Events!Push(event[subject])
     /\ position' = 0
     /\ UNCHANGED <<task, process, pc, faults, locks, signals, mach, subject, event>>
  \/ process = "alive" /\ handler = "pushing" /\ MainInList /\ Undefined

(* No request is released twice here: after an earlier flush SendCrashEvent   *)
(* has already touched what that has deleted.                                 *)
FlushInCallback ==
  /\ \/ HandlerGoes("flushing", "joining") /\ Release(position + 1)
     \/ HandlerGoes("joining", "flushing") /\ Join
  /\ UNCHANGED <<task, process, pc, faults, locks, signals, mach, subject, event>>

(* A bug: nobody tells the crashed thread.                                    *)
DoneSilently ==
  /\ HandlerGoes("flushing", "idle")
  /\ platform = "windows"
  /\ Flushed
  /\ UNCHANGED <<task, process, pc, faults, locks, signals, mach, subject, event, position, memory>>

(* The callback returns.                                                      *)
ReportDone ==
  /\ HandlerGoes("flushing", "idle")
  /\ platform = "windows"
  /\ Flushed
  /\ finish' = 1
  /\ UNCHANGED <<task, process, pc, faults, locks, start, requesting, mach, subject, event, position,
                 memory>>

(* UninstallHandler and ForwardException: the exception reaches the system.   *)
ForwardException ==
  /\ HandlerGoes("flushing", "idle")
  /\ platform = "mac"
  /\ Flushed
  /\ installed' = FALSE
  /\ pc' = [pc EXCEPT ![subject] = "gone"]
  /\ process' = "told"
  /\ UNCHANGED <<task, faults, filter, stackLock, lock, signals, mach, subject, event, position,
                 memory>>

HandlerThread ==
  \/ TakeRequest \/ ReceiveException \/ ReceiveTooLate \/ ReceiveShutdown
  \/ SendCrashEvent \/ CrashTooEarly \/ HangTooEarly
  \/ PushCrashEvent \/ FlushInCallback \/ ReportDone \/ ForwardException

CrashedThread(t) ==
  \/ Enter(t) \/ EnterTooLate(t) \/ Submit(t) \/ Collect(t) \/ Leave(t) \/ Die(t)

AtExit == RemoveHandler \/ FlushAtExit \/ MisuseAtExit

Next ==
  \/ Register \/ SendGameEvent \/ PushEvent \/ Quit \/ AtExit
  \/ \E r \in Events!Requests : RequestEnds(r)
  \/ \E t \in Threads : Crash(t) \/ CrashedThread(t)
  \/ HandlerThread

Spec == Init /\ [][Next]_vars

(* Threads that can run do, and every request ends: its connection times out. *)
(* Nobody has to crash, to send events or to quit.                            *)
FairSpec ==
  /\ Spec
  /\ WF_vars(Register \/ PushEvent)
  /\ WF_vars(AtExit)
  /\ WF_vars(HandlerThread)
  /\ \A r \in Events!Requests : WF_vars(RequestEnds(r))
  /\ \A t \in Threads : WF_vars(CrashedThread(t))

(* -------------------------------- properties ------------------------------ *)

TypeOK ==
  /\ platform \in {"windows", "mac"}
  /\ process \in {"alive", "quit", "told", "killed", "undefined"}
  /\ pc \in [Threads -> {"starting", "running", "pushing", "quitting", "flushing", "joining",
                         "entering", "locked", "waiting", "leaving", "unhandled", "gone"}]
  /\ crashed \subseteq Threads
  /\ error \in [Threads -> Errors \cup {"none"}]
  /\ installed \in BOOLEAN /\ registered \in BOOLEAN
  /\ filter \in {"breakpad", "previous"}
  /\ {stackLock, lock, requesting, subject} \subseteq Threads \cup {None}
  /\ start \in 0..1 /\ finish \in 0..1
  /\ suspended \subseteq Threads
  /\ handler \in {"idle", "dumping", "pushing", "flushing", "joining", "hung", "gone"}
  /\ event \in [Threads -> Events!Requests \cup {None}]
  /\ made \in Events!Requests \cup {None}

Reporting == handler \in {"dumping", "pushing", "flushing", "joining"} \/ finish = 1

(* "The critical section enforcing the requirement that only one exception be *)
(* handled by a handler at a time" (exception_handler.h:442): whatever the    *)
(* handler thread works on is the crash of the one thread that waits for it,  *)
(* and its answer cannot reach another one.                                   *)
OneAtATime ==
  platform = "windows" =>
    /\ \A t, u \in Threads : pc[t] = "waiting" /\ pc[u] = "waiting" => t = u
    /\ Reporting => subject = requesting /\ pc[subject] = "waiting"
    /\ start = 1 => pc[requesting] = "waiting" /\ ~Reporting

(* A crash is over only when the authors have been told: the event is no      *)
(* longer under way when the crashed thread goes on to its end.               *)
EventIsOut(t) == event[t] # None /\ http[event[t]] = "finished"
AuthorsAreTold ==
  \A t \in crashed :
    error[t] # "breakpoint" /\ pc[t] \in {"leaving", "unhandled", "gone"} => EventIsOut(t)

(* A thread the callback waits for cannot end: a request's thread that has    *)
(* crashed itself or, on the Mac, one that has been suspended.                *)
Stuck ==
  \/ \E i \in DOMAIN requests :
       http[requests[i]] = "running" /\ requests[i] \in crashed \cup suspended
  \/ platform = "mac" /\ handler = "hung"

(* The main thread's crash reaches the authors as long as no other thread     *)
(* crashes as well: Analytics has no lock, the crash may hit the main thread  *)
(* inside it, and the callback waits for all requests of the list, but no two *)
(* threads get into the list and no request is released twice.                *)
MainCrashIsTold ==
  (registered /\ process = "alive" /\ crashed = {"main"} /\ error["main"] # "breakpoint")
    ~> (process = "told" \/ crashed # {"main"} \/ Stuck)

(* Whoever crashes, and when the game is left, also during a report: the      *)
(* process ends.  The only exceptions are the waits that Stuck names.         *)
EveryEndingComes ==
  (crashed # {} \/ pc["main"] = "quitting") ~> (process # "alive" \/ Stuck)
=============================================================================
