------------------------------ MODULE EventQueue ------------------------------
(***************************************************************************)
(* The threads of the master server and the event queue between them.      *)
(*                                                                         *)
(*   listen   CTCPServer's thread: accepts, reads packets, disconnects     *)
(*   event    EventThread: takes events from g_Events and runs handlers    *)
(*   udp      CUDPServer's thread: looks users up                          *)
(*   console  ReadConsoleThread: queues commands                           *)
(*   main     the tick loop of main(), then the orderly shutdown           *)
(*   closer   whoever calls SetServerActive(false) outside a handler: the  *)
(*            GUI thread, the console's close handler                      *)
(*                                                                         *)
(* A step is a stretch of code under one lock or between two visible       *)
(* accesses: a handler holds g_ServerCriticalSection ("lock" here), a call *)
(* of CEvents its mutex.  Only the console, which is not joined but        *)
(* terminated, is seen inside such a call.  Handlers are the Lobby         *)
(* module's concern; here one runs, may disconnect clients, and may shut   *)
(* the server down.  Why the listen thread drops a client is left open.    *)
(***************************************************************************)
EXTENDS Sequences, SequencesExt, Subsequence

CONSTANTS
  Sock,        \* connections: one CExtendedSocket object each
  MaxPackets,  \* bound: packets a client sends
  MaxCalls,    \* bound: ticks and commands queued
  NoThread, NoEvent,
  Posix        \* the build: pthreads or Windows threads

ASSUME BoundAssumption == MaxPackets \in Nat /\ MaxCalls \in Nat
ASSUME BuildAssumption == Posix \in BOOLEAN

VARIABLES
  events,     \* CEvents::m_Events
  running,    \* the popped event, NoEvent once its handler is done
  signalled,  \* CEvents::m_Object
  mutex,      \* the owner of CEvents::m_Mutex
  active,     \* CServerInstance::m_bIsServerActive
  listening,  \* m_bIsRunning of the TCP and of the UDP server
  lock,       \* the owner of g_ServerCriticalSection
  client,     \* life of each CExtendedSocket
  received,   \* packets read from each client
  executed,   \* packets of each client handed to a handler
  calls,      \* function events queued so far
  process,    \* "up", or "killed" by the operating system
  pc

queue == <<events, running, signalled, mutex>>
sockets == <<client, received, executed>>
vars == <<queue, active, listening, lock, sockets, calls, process, pc>>

Thread == {"listen", "event", "udp", "console", "main", "closer"}
Server == {"tcp", "udp"}
Packet == [kind : {"packet"}, sock : Sock, num : 1..MaxPackets]
Call == [kind : {"call"}]
ASSUME NullAssumption == NoThread \notin Thread /\ NoEvent \notin Packet \cup Call

Open == {s \in Sock : client[s] = "open"}

At(t, label) == process = "up" /\ pc[t] = label
Goto(t, label) == pc' = [pc EXCEPT ![t] = label]

-----------------------------------------------------------------------------
(* CEvents and the critical section *)

\* A call of CEvents that takes the mutex and gives it back in one step.
MutexFree == mutex = NoThread /\ UNCHANGED mutex

\* An event that is no packet does not wake the event thread.
AddEventQuietly(ev) ==
  /\ events' = Append(events, ev)
  /\ signalled' = (signalled \/ ev \in Packet)

AddEvent(ev) ==
  /\ events' = Append(events, ev)
  /\ signalled' = TRUE

AddCall == /\ calls < MaxCalls
           /\ calls' = calls + 1
           /\ AddEvent([kind |-> "call"])
           /\ UNCHANGED running

\* The packets of a closed socket stay.
RemoveNothing(gone) == {events}

\* m_Events without the packets of the sockets in gone.
RemoveEventsBySocket(gone) ==
  Rests(events, {i \in DOMAIN events : events[i] \in Packet => events[i].sock \notin gone})

\* CTCPServer::DisconnectClient of each socket in gone, OnTCPConnectionClosed included.
DisconnectClient(gone) ==
  /\ gone = {} \/ mutex = NoThread
  /\ UNCHANGED mutex
  /\ client' = [s \in Sock |-> IF s \in gone THEN "closed" ELSE client[s]]
  /\ events' \in RemoveEventsBySocket(gone)

Enter(t) == lock = NoThread /\ lock' = t
Leave(t) == lock = t /\ lock' = NoThread

-----------------------------------------------------------------------------
Init ==
  /\ events = <<>> /\ running = NoEvent /\ signalled = FALSE /\ mutex = NoThread
  /\ active = TRUE
  /\ listening = [v \in Server |-> TRUE]
  /\ lock = NoThread
  /\ client = [s \in Sock |-> "new"]
  /\ received = [s \in Sock |-> 0]
  /\ executed = [s \in Sock |-> 0]
  /\ calls = 0
  /\ process = "up"
  /\ pc = [t \in Thread |-> "loop"]

-----------------------------------------------------------------------------
(* The event thread *)

EventLoop ==
  /\ At("event", "loop")
  /\ Goto("event", IF active THEN "wait" ELSE "done")
  /\ UNCHANGED <<queue, active, listening, lock, sockets, calls, process>>

WaitForSignal ==
  /\ At("event", "wait") /\ signalled
  /\ signalled' = FALSE
  /\ Goto("event", "check")
  /\ UNCHANGED <<events, running, mutex, active, listening, lock, sockets, calls, process>>

\* The state may have changed during the wait.
EventCheck ==
  /\ At("event", "check")
  /\ Goto("event", IF active THEN "next" ELSE "loop")
  /\ UNCHANGED <<queue, active, listening, lock, sockets, calls, process>>

\* The newest event first.
GetLastEvent ==
  /\ At("event", "next") /\ MutexFree
  /\ IF events = <<>>
     THEN Goto("event", "loop") /\ UNCHANGED <<events, running>>
     ELSE /\ running' = Last(events)
          /\ events' = Front(events)
          /\ Goto("event", "enter")
  /\ UNCHANGED <<signalled, active, listening, lock, sockets, calls, process>>

\* Taken without g_ServerCriticalSection.
GetNextEvent ==
  /\ At("event", "next") /\ MutexFree
  /\ IF events = <<>>
     THEN Goto("event", "loop") /\ UNCHANGED <<events, running>>
     ELSE /\ running' = Head(events)
          /\ events' = Tail(events)
          /\ Goto("event", "enter")
  /\ UNCHANGED <<signalled, active, listening, lock, sockets, calls, process>>

EnterHandler ==
  /\ At("event", "enter") /\ Enter("event")
  /\ Goto("event", "execute")
  /\ UNCHANGED <<queue, active, listening, sockets, calls, process>>

\* OnEvent handles one event per signal.
HandlerEndsOnce ==
  /\ Leave("event")
  /\ running' = NoEvent
  /\ Goto("event", "loop")

\* OnEvent asks for another event until there is none, even when the handler it
\* has run shut the server down.
HandlerEnds ==
  /\ Leave("event")
  /\ running' = NoEvent
  /\ Goto("event", "next")

\* OnPackets, with a socket that still exists; the handler may disconnect clients.
ExecutePacket ==
  /\ At("event", "execute") /\ running \in Packet
  /\ client[running.sock] = "open"
  /\ executed' = [executed EXCEPT ![running.sock] = @ + 1]
  /\ \E gone \in SUBSET Open : DisconnectClient(gone)
  /\ HandlerEnds
  /\ UNCHANGED <<signalled, active, listening, received, calls, process>>

\* OnPackets with a deleted socket is undefined: the handler may find no user for
\* the pointer and return, or the access kills the process.
ExecuteDeleted ==
  /\ At("event", "execute") /\ running \in Packet
  /\ client[running.sock] # "open"
  /\ \/ HandlerEnds /\ UNCHANGED process
     \/ process' = "killed" /\ UNCHANGED <<running, lock, pc>>
  /\ UNCHANGED <<events, signalled, mutex, active, listening, sockets, calls>>

\* A tick, a console command or a request of the GUI.
ExecuteCall ==
  /\ At("event", "execute") /\ running \in Call
  /\ \E gone \in SUBSET Open : DisconnectClient(gone)
  /\ HandlerEnds
  /\ UNCHANGED <<signalled, active, listening, received, executed, calls, process>>

\* The command "shutdown": SetServerActive(false) inside a handler.
ExecuteShutdown ==
  /\ At("event", "execute") /\ running \in Call
  /\ active' = FALSE /\ signalled' = TRUE
  /\ HandlerEnds
  /\ UNCHANGED <<events, mutex, listening, sockets, calls, process>>

-----------------------------------------------------------------------------
(* The listen thread *)

ListenLoop ==
  /\ At("listen", "loop")
  /\ Goto("listen", IF listening["tcp"] THEN "poll" ELSE "done")
  /\ UNCHANGED <<queue, active, listening, lock, sockets, calls, process>>

\* poll() runs without the lock and wakes at the latest after a second.
Poll ==
  /\ At("listen", "poll")
  /\ \E label \in {"loop", "enter"} : Goto("listen", label)
  /\ UNCHANGED <<queue, active, listening, lock, sockets, calls, process>>

EnterListen ==
  /\ At("listen", "enter") /\ Enter("listen")
  /\ Goto("listen", "pass")
  /\ UNCHANGED <<queue, active, listening, sockets, calls, process>>

\* A banned address is accepted and disconnected at once.
Accept(s) ==
  /\ At("listen", "pass") /\ client[s] = "new"
  /\ \E life \in {"open", "closed"} : client' = [client EXCEPT ![s] = life]
  /\ UNCHANGED <<queue, active, listening, lock, received, executed, calls, process, pc>>

Read(s) ==
  /\ At("listen", "pass") /\ s \in Open /\ received[s] < MaxPackets
  /\ MutexFree
  /\ received' = [received EXCEPT ![s] = @ + 1]
  /\ AddEvent([kind |-> "packet", sock |-> s, num |-> received'[s]])
  /\ UNCHANGED <<running, active, listening, lock, client, executed, calls, process, pc>>

DropClient(s) ==
  /\ At("listen", "pass") /\ s \in Open
  /\ DisconnectClient({s})
  /\ UNCHANGED <<running, signalled, active, listening, lock, received, executed, calls,
                 process, pc>>

LeaveListen ==
  /\ At("listen", "pass") /\ Leave("listen")
  /\ Goto("listen", "loop")
  /\ UNCHANGED <<queue, active, listening, sockets, calls, process>>

-----------------------------------------------------------------------------
(* The UDP thread *)

UdpLoop ==
  /\ At("udp", "loop")
  /\ Goto("udp", IF listening["udp"] THEN "select" ELSE "done")
  /\ UNCHANGED <<queue, active, listening, lock, sockets, calls, process>>

Select ==
  /\ At("udp", "select")
  /\ \E label \in {"loop", "enter"} : Goto("udp", label)
  /\ UNCHANGED <<queue, active, listening, lock, sockets, calls, process>>

EnterUdp ==
  /\ At("udp", "enter") /\ Enter("udp")
  /\ Goto("udp", "use")
  /\ UNCHANGED <<queue, active, listening, sockets, calls, process>>

\* OnUDPMessage reads and writes the user of the datagram up to here.
LeaveUdp ==
  /\ At("udp", "use") /\ Leave("udp")
  /\ Goto("udp", "loop")
  /\ UNCHANGED <<queue, active, listening, sockets, calls, process>>

-----------------------------------------------------------------------------
(* The console, and SetServerActive(false) outside a handler *)

\* A command was read; AddEvent takes the mutex.
ReadCommand ==
  /\ At("console", "getline") /\ calls < MaxCalls
  /\ mutex = NoThread /\ mutex' = "console"
  /\ Goto("console", "add")
  /\ UNCHANGED <<events, running, signalled, active, listening, lock, sockets, calls, process>>

\* The rest of AddEvent.
AddCommand ==
  /\ At("console", "add")
  /\ AddCall
  /\ mutex' = NoThread
  /\ Goto("console", "loop")
  /\ UNCHANGED <<active, listening, lock, sockets, process>>

EndOfInput ==
  /\ At("console", "getline")
  /\ Goto("console", "done")
  /\ UNCHANGED <<queue, active, listening, lock, sockets, calls, process>>

ConsoleLoop ==
  /\ At("console", "loop")
  /\ Goto("console", IF active THEN "getline" ELSE "done")
  /\ UNCHANGED <<queue, active, listening, lock, sockets, calls, process>>

SetInactive ==
  /\ At("closer", "loop")
  /\ active' = FALSE
  /\ Goto("closer", "signal")
  /\ UNCHANGED <<queue, listening, lock, sockets, calls, process>>

\* SetServerActive(false) leaves the event thread asleep.
SignalNobody ==
  /\ At("closer", "signal")
  /\ Goto("closer", "done")
  /\ UNCHANGED <<queue, active, listening, lock, sockets, calls, process>>

\* Wakes the event thread up.
SignalInactive ==
  /\ At("closer", "signal")
  /\ signalled' = TRUE
  /\ Goto("closer", "done")
  /\ UNCHANGED <<events, running, mutex, active, listening, lock, sockets, calls, process>>

-----------------------------------------------------------------------------
(* main *)

Tick ==
  /\ At("main", "loop") /\ active /\ MutexFree
  /\ AddCall
  /\ UNCHANGED <<active, listening, lock, sockets, process, pc>>

MainLeavesLoop ==
  /\ At("main", "loop") /\ ~active
  /\ Goto("main", "join")
  /\ UNCHANGED <<queue, active, listening, lock, sockets, calls, process>>

\* main does not wait for the event thread.
JoinNobody ==
  /\ At("main", "join")
  /\ Goto("main", "enter")
  /\ UNCHANGED <<queue, active, listening, lock, sockets, calls, process>>

JoinEvent ==
  /\ At("main", "join") /\ pc["event"] = "done"
  /\ Goto("main", "enter")
  /\ UNCHANGED <<queue, active, listening, lock, sockets, calls, process>>

EnterMain ==
  /\ At("main", "enter") /\ Enter("main")
  /\ Goto("main", "terminate")
  /\ UNCHANGED <<queue, active, listening, sockets, calls, process>>

\* CThread::Terminate of the console thread, which may be in getline and may be anywhere
\* else: TerminateThread ends it and leaves the mutex to a thread that is no more,
\* pthread_kill with SIGKILL ends the process.
TerminateConsole ==
  /\ At("main", "terminate") /\ Leave("main")
  /\ ~Posix \/ pc["console"] = "done"
  /\ pc' = [pc EXCEPT !["main"] = "stop", !["console"] = "done"]
  /\ UNCHANGED <<queue, active, listening, sockets, calls, process>>

TerminateProcess ==
  /\ At("main", "terminate")
  /\ Posix /\ pc["console"] # "done"
  /\ process' = "killed"
  /\ UNCHANGED <<queue, active, listening, lock, sockets, calls, pc>>

StopListening ==
  /\ At("main", "stop")
  /\ listening' = [listening EXCEPT !["tcp"] = FALSE]
  /\ Goto("main", "joinListen")
  /\ UNCHANGED <<queue, active, lock, sockets, calls, process>>

JoinListen ==
  /\ At("main", "joinListen") /\ pc["listen"] = "done"
  /\ Goto("main", "close")
  /\ UNCHANGED <<queue, active, listening, lock, sockets, calls, process>>

\* CTCPServer::Stop closes the clients it is left with, without the lock.
CloseClient(s) ==
  /\ At("main", "close") /\ s \in Open
  /\ DisconnectClient({s})
  /\ UNCHANGED <<running, signalled, active, listening, lock, received, executed, calls,
                 process, pc>>

StopUdp ==
  /\ At("main", "close") /\ Open = {}
  /\ listening' = [listening EXCEPT !["udp"] = FALSE]
  /\ Goto("main", "joinUdp")
  /\ UNCHANGED <<queue, active, lock, sockets, calls, process>>

\* Then ShutdownAll, and the end of main.
JoinUdp ==
  /\ At("main", "joinUdp") /\ pc["udp"] = "done"
  /\ Goto("main", "end")
  /\ UNCHANGED <<queue, active, listening, lock, sockets, calls, process>>

-----------------------------------------------------------------------------
EventThread ==
  \/ EventLoop \/ WaitForSignal \/ EventCheck \/ GetNextEvent
  \/ ExecutePacket \/ ExecuteDeleted \/ ExecuteCall \/ ExecuteShutdown

ListenThread == ListenLoop \/ Poll \/ LeaveListen
Traffic == \E s \in Sock : Accept(s) \/ Read(s) \/ DropClient(s)
UdpThread == UdpLoop \/ Select \/ LeaveUdp
Console == ReadCommand \/ AddCommand \/ EndOfInput \/ ConsoleLoop
MainThread ==
  \/ Tick \/ MainLeavesLoop \/ JoinEvent \/ TerminateConsole \/ TerminateProcess
  \/ StopListening \/ JoinListen \/ (\E s \in Sock : CloseClient(s)) \/ StopUdp \/ JoinUdp

Next ==
  \/ EventThread \/ EnterHandler
  \/ ListenThread \/ EnterListen \/ Traffic
  \/ UdpThread \/ EnterUdp
  \/ Console \/ SetInactive \/ SignalInactive
  \/ MainThread \/ EnterMain

\* The scheduler runs every thread that can run, also one inside CEvents, and gives the
\* critical section to a thread that keeps asking for it.  Nothing is assumed of clients, of the
\* operator, or of who closes the window.
Fairness ==
  /\ WF_vars(EventThread) /\ SF_vars(EnterHandler)
  /\ WF_vars(ListenThread) /\ SF_vars(EnterListen)
  /\ WF_vars(UdpThread) /\ SF_vars(EnterUdp)
  /\ WF_vars(AddCommand) /\ WF_vars(SignalInactive)
  /\ WF_vars(MainThread) /\ SF_vars(EnterMain)

Spec == Init /\ [][Next]_vars /\ Fairness

-----------------------------------------------------------------------------
(* Properties *)

\* The places in the code of a thread.
Label == {"loop", "done", "enter", "wait", "check", "next", "execute", "poll", "pass", "select",
          "use", "getline", "add", "signal", "join", "terminate", "stop", "joinListen", "close",
          "joinUdp", "end"}

\* Types of the variables.
TypeOK ==
  /\ events \in Seq(Packet \cup Call)
  /\ running \in Packet \cup Call \cup {NoEvent}
  /\ signalled \in BOOLEAN /\ active \in BOOLEAN
  /\ mutex \in Thread \cup {NoThread}
  /\ listening \in [Server -> BOOLEAN]
  /\ lock \in Thread \cup {NoThread}
  /\ client \in [Sock -> {"new", "open", "closed"}]
  /\ received \in [Sock -> 0..MaxPackets]
  /\ executed \in [Sock -> 0..MaxPackets]
  /\ calls \in 0..MaxCalls
  /\ process \in {"up", "killed"}
  /\ pc \in [Thread -> Label]

\* A packet in the queue belongs to a socket object that exists: whoever deletes a
\* socket, in a pass of the listen thread, in a handler or at shutdown, takes its
\* packets out of the queue, and none is added later.
QueuedPacketsLive ==
  \A i \in DOMAIN events : events[i] \in Packet => events[i].sock \in Open

\* What waits for a handler: m_Events, and in front of it the popped event.
Waiting ==
  [i \in DOMAIN events \cup (IF running = NoEvent THEN {} ELSE {0}) |->
     IF i = 0 THEN running ELSE events[i]]

PacketsOf(s) == {i \in DOMAIN Waiting : Waiting[i] \in Packet /\ Waiting[i].sock = s}

\* The packets of a connected client are executed in the order they were read,
\* none lost and none twice: those that wait are exactly the ones after the last one
\* executed, in the order of their numbers.
InOrderOf(s) ==
  /\ executed[s] <= received[s]
  /\ {Waiting[i].num : i \in PacketsOf(s)} = (executed[s] + 1)..received[s]
  /\ \A i, j \in PacketsOf(s) : i < j => Waiting[i].num < Waiting[j].num

InOrder == \A s \in Open : InOrderOf(s)

\* No wake-up is lost: when the event thread of an active server is about to sleep on
\* a queue that is not empty, the signal is set (one signal may stand for many events).
NoLostWakeup ==
  active /\ events # <<>> /\ pc["event"] \in {"loop", "wait"} => signalled

\* Shutdown is ordered: clients are closed without the lock, so by then no handler
\* and no pass of the listen thread may run, and when main ends no thread uses the
\* managers and no client is connected.
OrderlyShutdown ==
  /\ pc["main"] \in {"close", "joinUdp", "end"} =>
       pc["event"] = "done" /\ pc["listen"] = "done"
  /\ pc["main"] = "end" => pc["udp"] = "done" /\ Open = {}

\* Every packet that was read is executed, unless its socket is closed, the server
\* is shut down or the process is killed.
PacketsAreHandled ==
  \A s \in Sock, n \in 1..MaxPackets :
    received[s] >= n ~> \/ executed[s] >= n \/ client[s] = "closed"
                        \/ ~active \/ process = "killed"

\* The mutex of the queue belongs to the console thread, which main has terminated inside
\* AddEvent.
MutexAbandoned == mutex = "console" /\ pc["console"] = "done"

\* After SetServerActive(false) main reaches its end, however its joins, the wake-up of the
\* event thread, the closing of the clients and a command that comes at that moment fall
\* together.  Two ways out are the code's: a POSIX build is killed where it terminates the
\* console, and a Windows build with clients connected may find the mutex of the queue
\* abandoned, at which CTCPServer::Stop, or a listen thread that still reads, waits for good.
ShutdownCompletes ==
  ~active ~> \/ pc["main"] = "end" \/ process = "killed"
             \/ MutexAbandoned /\ Open # {}

\* A handler is given a socket that exists: serverinstance.cpp:206, "events with
\* socket should be removed as they refer to deleted object".
NoDeletedSocket == running \in Packet /\ pc["event"] = "execute" => running.sock \in Open

\* Ending the console thread is safe, as main.cpp:133 says: the clean-up after it runs, and
\* finds the queue's mutex free.
TerminateIsSafe ==
  [][process = "up" /\ pc["main"] = "terminate" => process' = "up" /\ ~MutexAbandoned']_vars

\* No client is closed, and no user deleted with it, while the UDP thread is inside
\* the critical section and may be using that user: tcpserver.cpp:560, "Critical
\* section is used for interacting with the listener object or extended socket".
ListenerCalledUnderLock == [][client' # client => lock # "udp"]_vars
=============================================================================
