--------------------------- MODULE EventQueueProofs ---------------------------
(***************************************************************************)
(* Theorems about EventQueue, for any number of clients, packets and calls *)
(* and for both builds.                                                    *)
(***************************************************************************)
EXTENDS EventQueue, SequenceTheorems, FiniteSetTheorems, TLAPS

\* Where each thread that handles clients holds g_ServerCriticalSection.
Inside == [event |-> "execute", listen |-> "pass", udp |-> "use", main |-> "terminate"]

\* Whoever is inside the critical section owns it: the handlers of the event thread, the
\* passes of the listen thread, the datagrams of the UDP thread and the clean-up of main
\* exclude each other, which every other module takes for granted.
LockOwned ==
  \A t \in DOMAIN Inside : pc[t] = Inside[t] => lock = t

\* main has left its loop and waited for the event thread; the pool of threads it waits for
\* grows as it goes on.
ShutdownInv ==
  /\ DOMAIN pc = Thread
  /\ pc["main"] \notin {"loop", "join"} => pc["event"] = "done"
  /\ pc["main"] \in {"close", "joinUdp", "end"} => pc["listen"] = "done"
  /\ pc["main"] \in {"joinUdp", "end"} => Open = {}
  /\ pc["main"] = "end" => pc["udp"] = "done"

\* A disconnection opens no client.
LEMMA DisconnectOpensNobody ==
  ASSUME NEW gone, DisconnectClient(gone)
  PROVE  Open' \subseteq Open
BY DEF DisconnectClient, Open

LEMMA LockStep == ASSUME DOMAIN pc = Thread, LockOwned, [Next]_vars PROVE LockOwned'
<1> USE DEF LockOwned, Inside, Thread, Goto, At
<1>1. ASSUME EventThread PROVE LockOwned'
  BY <1>1 DEF EventThread, EventLoop, WaitForSignal, EventCheck, GetNextEvent, ExecutePacket,
     ExecuteDeleted, ExecuteCall, ExecuteShutdown, HandlerEnds, Leave
<1>2. ASSUME EnterHandler \/ EnterListen \/ EnterUdp \/ EnterMain PROVE LockOwned'
  BY <1>2, NullAssumption DEF EnterHandler, EnterListen, EnterUdp, EnterMain, Enter
<1>3. ASSUME ListenThread \/ UdpThread PROVE LockOwned'
  BY <1>3 DEF ListenThread, UdpThread, ListenLoop, Poll, LeaveListen, UdpLoop, Select, LeaveUdp,
     Leave
<1>4. ASSUME Traffic \/ Console \/ SetInactive \/ SignalInactive PROVE LockOwned'
  BY <1>4 DEF Traffic, Accept, Read, DropClient, Console, ReadCommand, AddCommand, EndOfInput,
     ConsoleLoop, SetInactive, SignalInactive
<1>5. ASSUME MainThread PROVE LockOwned'
  <2>1. CASE TerminateConsole
    <3>1. lock = "main" /\ pc["main"] = "terminate"
      BY <2>1 DEF TerminateConsole, Leave
    <3>2. /\ pc'["main"] = "stop"
          /\ \A t \in {"event", "listen", "udp"} : pc'[t] = pc[t]
      BY <2>1 DEF TerminateConsole
    <3> QED BY <3>1, <3>2
  <2>2. CASE Tick \/ TerminateProcess \/ \E s \in Sock : CloseClient(s)
    BY <2>2 DEF Tick, TerminateProcess, CloseClient
  <2>3. CASE MainLeavesLoop \/ JoinEvent \/ StopListening \/ JoinListen \/ StopUdp \/ JoinUdp
    BY <2>3 DEF MainLeavesLoop, JoinEvent, StopListening, JoinListen, StopUdp, JoinUdp
  <2> QED BY <1>5, <2>1, <2>2, <2>3 DEF MainThread
<1>6. ASSUME UNCHANGED vars PROVE LockOwned'
  BY <1>6 DEF vars
<1> QED BY <1>1, <1>2, <1>3, <1>4, <1>5, <1>6 DEF Next

LEMMA ShutdownStep == ASSUME ShutdownInv, [Next]_vars PROVE ShutdownInv'
<1> USE DEF ShutdownInv, Thread, Goto, At
<1>1. ASSUME EventThread PROVE ShutdownInv'
  <2>1. Open' \subseteq Open
    BY <1>1, DisconnectOpensNobody DEF EventThread, EventLoop, WaitForSignal, EventCheck,
       GetNextEvent, ExecutePacket, ExecuteDeleted, ExecuteCall, ExecuteShutdown, Open, sockets
  <2> QED
    BY <1>1, <2>1 DEF EventThread, EventLoop, WaitForSignal, EventCheck, GetNextEvent,
       ExecutePacket, ExecuteDeleted, ExecuteCall, ExecuteShutdown, HandlerEnds
<1>2. ASSUME EnterHandler \/ EnterListen \/ EnterUdp \/ EnterMain PROVE ShutdownInv'
  BY <1>2 DEF EnterHandler, EnterListen, EnterUdp, EnterMain, sockets, Open
<1>3. ASSUME ListenThread \/ UdpThread PROVE ShutdownInv'
  BY <1>3 DEF ListenThread, UdpThread, ListenLoop, Poll, LeaveListen, UdpLoop, Select, LeaveUdp,
     sockets, Open
<1>4. ASSUME Traffic PROVE ShutdownInv'
  <2>1. /\ UNCHANGED pc /\ pc["listen"] = "pass"
    BY <1>4 DEF Traffic, Accept, Read, DropClient
  <2> QED BY <2>1
<1>5. ASSUME Console \/ SetInactive \/ SignalInactive PROVE ShutdownInv'
  BY <1>5 DEF Console, ReadCommand, AddCommand, EndOfInput, ConsoleLoop, SetInactive,
     SignalInactive, sockets, Open
<1>6. ASSUME MainThread PROVE ShutdownInv'
  <2>1. ASSUME NEW s \in Sock, CloseClient(s) PROVE ShutdownInv'
    BY <2>1 DEF CloseClient
  <2>2. CASE ~\E s \in Sock : CloseClient(s)
    BY <1>6, <2>2 DEF MainThread, Tick, MainLeavesLoop, JoinEvent, TerminateConsole,
       TerminateProcess, StopListening, JoinListen, StopUdp, JoinUdp, sockets, Open
  <2> QED BY <2>1, <2>2
<1>7. ASSUME UNCHANGED vars PROVE ShutdownInv'
  BY <1>7 DEF vars, sockets, Open
<1> QED BY <1>1, <1>2, <1>3, <1>4, <1>5, <1>6, <1>7 DEF Next

\* The four stretches of code in the critical section exclude each other, also while the
\* server is shut down.
THEOREM MutualExclusion == Spec => []LockOwned
<1>1. Init => ShutdownInv /\ LockOwned
  BY DEF Init, ShutdownInv, LockOwned, Inside, Thread
<1>2. ShutdownInv /\ LockOwned /\ [Next]_vars => (ShutdownInv /\ LockOwned)'
  BY LockStep, ShutdownStep DEF ShutdownInv
<1> QED BY <1>1, <1>2, PTL DEF Spec

\* Clients and managers are destroyed without the critical section, but only when no thread
\* is left that could use them, in every interleaving of the shutdown with all threads.
THEOREM ShutdownOrdered == Spec => []OrderlyShutdown
<1>1. Init => ShutdownInv
  BY DEF Init, ShutdownInv, Thread
<1>2. ShutdownInv /\ [Next]_vars => ShutdownInv'
  BY ShutdownStep
<1>3. ShutdownInv => OrderlyShutdown
  BY DEF ShutdownInv, OrderlyShutdown
<1> QED BY <1>1, <1>2, <1>3, PTL DEF Spec

-----------------------------------------------------------------------------
(***************************************************************************)
(* The queue: no dead packet, no packet lost or overtaken, no wake-up lost *)
(***************************************************************************)

\* The phases in which the event thread holds a popped event, and what is known of the sockets
\* of that event and of those in the queue.  Without the part on new sockets, an accepted
\* connection could find packets it never sent.
QueueInv ==
  /\ TypeOK
  /\ running # NoEvent <=> pc["event"] \in {"enter", "execute"}
  /\ QueuedPacketsLive
  /\ running \in Packet => client[running.sock] # "new"
  /\ \A s \in Sock : client[s] = "new" => received[s] = 0 /\ executed[s] = 0
  /\ InOrder

WakeupInv == QueueInv /\ NoLostWakeup

Increasing(f, n) == \A j, k \in 1..n : j < k => f[j] < f[k]

\* Rests returns the entries at the given positions, all of them, once each and in order.
LEMMA RestFacts ==
  ASSUME NEW T, NEW s \in Seq(T), NEW I \in SUBSET DOMAIN s, NEW t \in Rests(s, I)
  PROVE  /\ t \in Seq(T) /\ Len(t) <= Len(s)
         /\ \E f \in [1..Len(t) -> I] :
              /\ Increasing(f, Len(t))
              /\ \A x \in I : \E i \in 1..Len(t) : f[i] = x
              /\ \A i \in 1..Len(t) : t[i] = s[f[i]]
<1> DEFINE n == Cardinality(I)
<1>1. Len(s) \in Nat /\ DOMAIN s = 1..Len(s)
  BY LenProperties
<1>2. n \in Nat /\ n <= Len(s)
  <2>1. IsFiniteSet(1..Len(s))
    BY <1>1, FS_Interval
  <2>2. Cardinality(1..Len(s)) = IF 1 > Len(s) THEN 0 ELSE Len(s) - 1 + 1
    BY <1>1, FS_Interval
  <2>3. IsFiniteSet(I) /\ Cardinality(I) <= Cardinality(1..Len(s))
    BY <1>1, <2>1, FS_Subset
  <2> QED BY <1>1, <2>2, <2>3, FS_CardinalityType
<1>3. PICK f \in Ascending(I) : t = [k \in 1..n |-> s[f[k]]]
  BY DEF Rests
<1>4. /\ f \in [1..n -> I] /\ Increasing(f, n)
      /\ \A x \in I : \E i \in 1..n : f[i] = x
  BY DEF Ascending, Increasing
<1> HIDE DEF n
<1>5. \A i \in 1..n : s[f[i]] \in T
  BY <1>1, <1>4, ElementOfSeq
<1>6. t \in Seq(T) /\ Len(t) = n
  BY <1>2, <1>3, <1>5
<1> QED BY <1>1, <1>2, <1>3, <1>4, <1>6

\* The positions a disconnection of the sockets in gone keeps.
Kept(gone) == {i \in DOMAIN events : events[i] \in Packet => events[i].sock \notin gone}

LEMMA EventKinds == Packet \cap Call = {} /\ \A ev \in Packet : ev.sock \in Sock /\ ev.num \in 1..MaxPackets
BY DEF Packet, Call

\* Where everything that waits comes from, when something was taken out of what waited: f maps
\* the positions of now to the positions of before.
Thinned(f) ==
  /\ f \in [DOMAIN Waiting' -> DOMAIN Waiting]
  /\ \A i, j \in DOMAIN Waiting' : i < j => f[i] < f[j]
  /\ \A i \in DOMAIN Waiting' : Waiting'[i] = Waiting[f[i]]

\* The packets of s are all still waiting, but for those in without.
Covers(f, s, without) ==
  \A x \in PacketsOf(s) \ without : \E i \in DOMAIN Waiting' : f[i] = x

LEMMA WaitingType ==
  ASSUME QueueInv
  PROVE  /\ Len(events) \in Nat /\ DOMAIN events = 1..Len(events)
         /\ DOMAIN Waiting \in SUBSET Nat
         /\ DOMAIN Waiting = DOMAIN events \cup (IF running = NoEvent THEN {} ELSE {0})
         /\ running # NoEvent => Waiting[0] = running
         /\ \A i \in DOMAIN events : Waiting[i] = events[i]
         /\ \A i \in DOMAIN events : events[i] \in Packet \cup Call
         /\ \A i \in DOMAIN Waiting : Waiting[i] \in Packet \cup Call
<1>1. events \in Seq(Packet \cup Call) /\ running \in Packet \cup Call \cup {NoEvent}
  BY DEF QueueInv, TypeOK
<1>2. Len(events) \in Nat /\ DOMAIN events = 1..Len(events)
  BY <1>1, LenProperties
<1>3. \A i \in DOMAIN events : events[i] \in Packet \cup Call
  BY <1>1, <1>2, ElementOfSeq
<1> QED BY <1>1, <1>2, <1>3 DEF Waiting

\* Taking nothing of s away keeps the order of s.
LEMMA OrderKept ==
  ASSUME QueueInv, NEW f, Thinned(f), NEW s \in Open, s \in Open',
         received'[s] = received[s], executed'[s] = executed[s], Covers(f, s, {})
  PROVE  InOrderOf(s)'
<1>1. /\ executed[s] <= received[s]
      /\ {Waiting[i].num : i \in PacketsOf(s)} = (executed[s] + 1)..received[s]
      /\ \A i, j \in PacketsOf(s) : i < j => Waiting[i].num < Waiting[j].num
  BY DEF QueueInv, InOrder, InOrderOf
<1>2. \A i \in PacketsOf(s)' : f[i] \in PacketsOf(s) /\ Waiting'[i] = Waiting[f[i]]
  BY DEF Thinned, PacketsOf
<1>3. \A x \in PacketsOf(s) : \E i \in PacketsOf(s)' : f[i] = x
  BY DEF Thinned, PacketsOf, Covers
<1>4. \A i, j \in PacketsOf(s)' : i < j => f[i] < f[j]
  BY DEF Thinned, PacketsOf
<1>5. {Waiting'[i].num : i \in PacketsOf(s)'} = {Waiting[i].num : i \in PacketsOf(s)}
  BY <1>2, <1>3
<1> QED BY <1>1, <1>2, <1>4, <1>5 DEF InOrderOf

\* Taking the popped packet away keeps the order too, if it counts as executed.
LEMMA OrderAdvances ==
  ASSUME QueueInv, NEW f, Thinned(f), NEW s \in Open, s \in Open',
         received'[s] = received[s], executed'[s] = executed[s] + 1,
         0 \in PacketsOf(s), 0 \notin DOMAIN Waiting',
         \A i \in DOMAIN Waiting' : f[i] # 0, Covers(f, s, {0})
  PROVE  InOrderOf(s)'
<1> DEFINE P == PacketsOf(s)
           num(i) == Waiting[i].num
<1>1. /\ {num(i) : i \in P} = (executed[s] + 1)..received[s]
      /\ \A i, j \in P : i < j => num(i) < num(j)
  BY DEF QueueInv, InOrder, InOrderOf
<1>2. \A i \in PacketsOf(s)' : f[i] \in P \ {0} /\ Waiting'[i] = Waiting[f[i]]
  BY DEF Thinned, PacketsOf
<1>3. \A x \in P \ {0} : \E i \in PacketsOf(s)' : f[i] = x
  BY DEF Thinned, PacketsOf, Covers
<1>4. \A i, j \in PacketsOf(s)' : i < j => f[i] < f[j]
  BY DEF Thinned, PacketsOf
<1>5. {Waiting'[i].num : i \in PacketsOf(s)'} = {num(i) : i \in P \ {0}}
  BY <1>2, <1>3
<1>6. P \in SUBSET Nat /\ \A i \in P : num(i) \in Nat
  <2>1. \A i \in P : Waiting[i] \in Packet /\ i \in DOMAIN Waiting
    BY DEF PacketsOf
  <2> QED BY <2>1, WaitingType, EventKinds
<1>7. executed[s] \in Nat /\ received[s] \in Nat
  BY BoundAssumption DEF QueueInv, TypeOK, Open
<1>8. /\ {num(i) : i \in P \ {0}} = (executed[s] + 2)..received[s]
      /\ executed[s] + 1 <= received[s]
  <2> HIDE DEF P, num
  <2>1. num(0) = executed[s] + 1
    <3>1. PICK i \in P : num(i) = executed[s] + 1
      <4>1. num(0) \in (executed[s] + 1)..received[s]
        BY <1>1 DEF P
      <4>2. executed[s] + 1 \in (executed[s] + 1)..received[s]
        BY <1>7, <4>1
      <4> QED BY <1>1, <4>2
    <3>2. ~(0 < i)
      <4>1. 0 \in P
        BY DEF P
      <4>2. num(0) >= executed[s] + 1
        BY <1>1, <1>7, <4>1
      <4>3. 0 < i => num(0) < num(i)
        BY <1>1, <4>1
      <4> QED BY <1>6, <1>7, <3>1, <4>1, <4>2, <4>3
    <3>3. i \in Nat
      BY <1>6
    <3> QED BY <3>1, <3>2, <3>3
  <2>2. \A i \in P \ {0} : num(i) \in (executed[s] + 2)..received[s]
    <3>1. \A i \in P \ {0} : num(0) < num(i) /\ num(i) \in (executed[s] + 1)..received[s]
      <4>1. 0 \in P
        BY DEF P
      <4>2. \A i \in P \ {0} : 0 < i
        BY <1>6
      <4> QED BY <1>1, <4>1, <4>2
    <3> QED BY <1>7, <2>1, <3>1
  <2>3. \A n \in (executed[s] + 2)..received[s] : \E i \in P \ {0} : num(i) = n
    <3>1. SUFFICES ASSUME NEW n \in (executed[s] + 2)..received[s]
                   PROVE  \E i \in P \ {0} : num(i) = n
      OBVIOUS
    <3>2. n \in (executed[s] + 1)..received[s] /\ n # executed[s] + 1
      BY <1>7
    <3> QED BY <1>1, <2>1, <3>2
  <2>4. executed[s] + 1 <= received[s]
    <3>1. num(0) \in (executed[s] + 1)..received[s]
      BY <1>1 DEF P
    <3> QED BY <1>7, <2>1, <3>1
  <2> QED BY <2>2, <2>3, <2>4
<1>9. executed'[s] + 1 = executed[s] + 2
  BY <1>7
<1>10. ASSUME NEW i \in PacketsOf(s)', NEW j \in PacketsOf(s)', i < j
       PROVE  Waiting'[i].num < Waiting'[j].num
  <2>1. num(f[i]) < num(f[j])
    BY <1>1, <1>2, <1>4, <1>10
  <2> QED BY <1>2, <2>1
<1> HIDE DEF P, num
<1> QED BY <1>5, <1>8, <1>9, <1>10 DEF InOrderOf

\* A step that disconnects the clients in gone, if any.
Disconnects(gone) ==
  DisconnectClient(gone) \/ (gone = {} /\ UNCHANGED <<events, client, mutex>>)

\* A disconnection by whoever leaves the popped event in its place: what waits is thinned, and
\* whoever stays open loses nothing.
LEMMA DisconnectThins ==
  ASSUME QueueInv, NEW gone \in SUBSET Open, Disconnects(gone),
         running' = running \/ running' = NoEvent
  PROVE  /\ events' \in Seq(Packet \cup Call)
         /\ client' \in [Sock -> {"new", "open", "closed"}]
         /\ Open' = Open \ gone
         /\ \A s \in Sock : client'[s] = "new" <=> client[s] = "new"
         /\ QueuedPacketsLive'
         /\ events = <<>> => events' = <<>>
         /\ \E f : /\ Thinned(f)
                   /\ \A i \in DOMAIN Waiting' : f[i] = 0 <=> i = 0
                   /\ \A s \in Open' : Covers(f, s, IF running' = running THEN {} ELSE {0})
<1>1. events \in Seq(Packet \cup Call) /\ Kept(gone) \in SUBSET DOMAIN events
  BY DEF QueueInv, TypeOK, Kept
<1>2. /\ events' \in Seq(Packet \cup Call)
      /\ \E g \in [1..Len(events') -> Kept(gone)] :
           /\ Increasing(g, Len(events'))
           /\ \A x \in Kept(gone) : \E i \in 1..Len(events') : g[i] = x
           /\ \A i \in 1..Len(events') : events'[i] = events[g[i]]
  <2>1. CASE DisconnectClient(gone)
    <3>1. events' \in Rests(events, Kept(gone))
      BY <2>1 DEF DisconnectClient, RemoveEventsBySocket, Kept
    <3> QED BY <1>1, <3>1, RestFacts
  <2>2. CASE gone = {} /\ UNCHANGED <<events, client, mutex>>
    <3> DEFINE g == [i \in 1..Len(events') |-> i]
    <3>1. Kept(gone) = 1..Len(events')
      BY <1>1, <2>2, LenProperties DEF Kept
    <3>2. g \in [1..Len(events') -> Kept(gone)] /\ Increasing(g, Len(events'))
      BY <3>1 DEF Increasing
    <3>3. \A i \in 1..Len(events') : g[i] = i /\ events'[i] = events[g[i]]
      BY <2>2
    <3> HIDE DEF g
    <3> QED BY <1>1, <2>2, <3>1, <3>2, <3>3
  <2> QED BY <2>1, <2>2 DEF Disconnects
<1>3. events' \in Seq(Packet \cup Call)
  BY <1>2
<1>4. PICK g \in [1..Len(events') -> Kept(gone)] :
        /\ Increasing(g, Len(events'))
        /\ \A x \in Kept(gone) : \E i \in 1..Len(events') : g[i] = x
        /\ \A i \in 1..Len(events') : events'[i] = events[g[i]]
  BY <1>2
<1>5. /\ client' \in [Sock -> {"new", "open", "closed"}]
      /\ Open' = Open \ gone
      /\ \A s \in Sock : client'[s] = "new" <=> client[s] = "new"
  BY DEF QueueInv, TypeOK, Open, Disconnects, DisconnectClient
<1>6. Len(events') \in Nat /\ DOMAIN events' = 1..Len(events')
  BY <1>3, LenProperties
<1>7. QueuedPacketsLive'
  BY <1>4, <1>5, <1>6 DEF QueueInv, QueuedPacketsLive, Kept
<1>8. events = <<>> => events' = <<>>
  <2>1. SUFFICES ASSUME events = <<>> PROVE Len(events') = 0
    BY <1>3
  <2>2. Kept(gone) = {}
    BY <2>1 DEF Kept
  <2> QED BY <1>4, <1>6, <2>2
<1> DEFINE f == [i \in DOMAIN Waiting' |-> IF i = 0 THEN 0 ELSE g[i]]
<1>9. DOMAIN Waiting' = DOMAIN events' \cup (IF running' = NoEvent THEN {} ELSE {0})
  BY DEF Waiting
<1>10. \A i \in DOMAIN events' : Waiting'[i] = events'[i] /\ i # 0
  BY <1>6 DEF Waiting
<1>11. running' # NoEvent => Waiting'[0] = running' /\ running' = running
  BY DEF Waiting
<1>12. Thinned(f) /\ \A i \in DOMAIN Waiting' : f[i] = 0 <=> i = 0
  <2>1. \A i \in DOMAIN events' : g[i] \in DOMAIN events /\ g[i] \in Nat /\ g[i] # 0
    BY <1>4, <1>6, WaitingType DEF Kept
  <2>2. f \in [DOMAIN Waiting' -> DOMAIN Waiting]
    BY <1>9, <1>11, <2>1, WaitingType
  <2>3. ASSUME NEW i \in DOMAIN Waiting', NEW j \in DOMAIN Waiting', i < j PROVE f[i] < f[j]
    BY <1>4, <1>6, <1>9, <2>1, <2>3 DEF Increasing
  <2>4. ASSUME NEW i \in DOMAIN Waiting' PROVE Waiting'[i] = Waiting[f[i]]
    <3>1. CASE i = 0
      BY <1>6, <1>9, <1>11, <3>1, WaitingType
    <3>2. CASE i # 0
      BY <1>4, <1>6, <1>9, <1>10, <2>1, <3>2, WaitingType
    <3> QED BY <3>1, <3>2
  <2> QED BY <1>9, <2>1, <2>2, <2>3, <2>4 DEF Thinned
<1>13. ASSUME NEW s \in Open'
       PROVE  Covers(f, s, IF running' = running THEN {} ELSE {0})
  <2>1. SUFFICES ASSUME NEW x \in PacketsOf(s), x # 0 \/ running' = running
                 PROVE  \E i \in DOMAIN Waiting' : f[i] = x
    BY DEF Covers
  <2>2. x \in DOMAIN Waiting /\ Waiting[x] \in Packet /\ Waiting[x].sock = s
    BY DEF PacketsOf
  <2>3. CASE x = 0
    <3>1. running # NoEvent
      BY <2>2, <2>3, WaitingType
    <3> QED BY <1>9, <2>1, <2>3, <3>1
  <2>4. CASE x # 0
    <3>1. x \in DOMAIN events /\ events[x] = Waiting[x]
      BY <2>2, <2>4, WaitingType
    <3>2. x \in Kept(gone)
      BY <1>5, <2>2, <3>1 DEF Kept
    <3>3. PICK i \in 1..Len(events') : g[i] = x
      BY <1>4, <3>2
    <3> QED BY <1>6, <1>9, <1>10, <3>3
  <2> QED BY <2>3, <2>4
<1> HIDE DEF f
<1> QED BY <1>3, <1>5, <1>7, <1>8, <1>12, <1>13

LEMMA QueueUntouched ==
  ASSUME QueueInv, TypeOK', UNCHANGED <<events, running, sockets>>,
         pc'["event"] \in {"enter", "execute"} <=> pc["event"] \in {"enter", "execute"}
  PROVE  QueueInv'
<1>1. Waiting' = Waiting
  BY DEF Waiting
<1>2. UNCHANGED <<events, running, client, received, executed>>
  BY DEF sockets
<1>3. Open' = Open
  BY <1>2 DEF Open
<1>4. \A s \in Open : PacketsOf(s)' = PacketsOf(s)
  BY <1>1 DEF PacketsOf
<1>5. InOrder'
  BY <1>1, <1>2, <1>3, <1>4 DEF QueueInv, InOrder, InOrderOf
<1>6. QueuedPacketsLive'
  BY <1>2, <1>3 DEF QueueInv, QueuedPacketsLive
<1> QED BY <1>2, <1>5, <1>6 DEF QueueInv

\* The types of what a step of a thread leaves alone, but for its position in the code.
Rest == <<signalled, mutex, active, listening, lock, calls, process>>

LEMMA TypeKept ==
  ASSUME TypeOK, UNCHANGED Rest, NEW t \in Thread, NEW label \in Label,
         pc' = pc \/ pc' = [pc EXCEPT ![t] = label],
         events' \in Seq(Packet \cup Call), running' \in Packet \cup Call \cup {NoEvent},
         client' \in [Sock -> {"new", "open", "closed"}],
         received' \in [Sock -> 0..MaxPackets], executed' \in [Sock -> 0..MaxPackets]
  PROVE  TypeOK'
<1>1. pc' \in [Thread -> Label]
  BY DEF TypeOK
<1>2. signalled' \in BOOLEAN /\ active' \in BOOLEAN /\ listening' \in [Server -> BOOLEAN]
  BY DEF TypeOK, Rest
<1>3. /\ lock' \in Thread \cup {NoThread} /\ mutex' \in Thread \cup {NoThread}
      /\ calls' \in 0..MaxCalls /\ process' \in {"up", "killed"}
  BY DEF TypeOK, Rest
<1> QED BY <1>1, <1>2, <1>3 DEF TypeOK

\* The popped event moves from position 1 of the queue to position 0, everything else up by one.
LEMMA GetNextEventStep == ASSUME QueueInv, GetNextEvent PROVE QueueInv'
<1>0. DOMAIN pc = Thread /\ pc["event"] = "next" /\ running = NoEvent /\ mutex' = mutex
  BY DEF QueueInv, TypeOK, GetNextEvent, At, MutexFree
<1>1. CASE events = <<>>
  <2>1. UNCHANGED <<events, running, sockets>> /\ pc'["event"] = "loop"
    BY <1>0, <1>1 DEF GetNextEvent, Goto, Thread
  <2>2. TypeOK'
    <3>1. pc' = [pc EXCEPT !["event"] = "loop"] /\ UNCHANGED Rest
      BY <1>0, <1>1 DEF GetNextEvent, Goto, Rest
    <3>2. UNCHANGED <<events, running, client, received, executed>>
      BY <2>1 DEF sockets
    <3>3. "event" \in Thread /\ "loop" \in Label
      BY DEF Thread, Label
    <3>4. TypeOK
      BY DEF QueueInv
    <3> QED BY <3>1, <3>2, <3>3, <3>4, TypeKept DEF TypeOK
  <2> QED BY <1>0, <2>1, <2>2, QueueUntouched
<1>2. CASE events # <<>>
  <2>1. /\ running' = Head(events) /\ events' = Tail(events)
        /\ pc' = [pc EXCEPT !["event"] = "enter"]
        /\ UNCHANGED <<signalled, active, listening, lock, sockets, calls, process>>
    BY <1>2 DEF GetNextEvent, Goto
  <2>2. events \in Seq(Packet \cup Call)
    BY DEF QueueInv, TypeOK
  <2>3. /\ running' = events[1] /\ 1 \in DOMAIN events
        /\ events' \in Seq(Packet \cup Call)
        /\ DOMAIN events' = 1..(Len(events) - 1)
        /\ \A i \in DOMAIN events' : events'[i] = events[i + 1]
    BY <1>2, <2>1, <2>2, HeadTailProperties, LenProperties
  <2>4. running' \in Packet \cup Call /\ running' # NoEvent
    BY <2>3, WaitingType, NullAssumption
  <2>5. TypeOK'
    <3>1. UNCHANGED Rest /\ UNCHANGED <<client, received, executed>>
      BY <1>0, <2>1 DEF Rest, sockets
    <3>2. "event" \in Thread /\ "enter" \in Label
      BY DEF Thread, Label
    <3>3. TypeOK
      BY DEF QueueInv
    <3> QED BY <2>1, <2>3, <2>4, <3>1, <3>2, <3>3, TypeKept DEF TypeOK
  <2>6. QueuedPacketsLive' /\ (running' \in Packet => client'[running'.sock] # "new")
    <3>1. Open' = Open /\ client' = client
      BY <2>1 DEF Open, sockets
    <3>2. \A i \in DOMAIN events : events[i] \in Packet => events[i].sock \in Open
      BY DEF QueueInv, QueuedPacketsLive
    <3>3. \A i \in DOMAIN events' : i + 1 \in DOMAIN events
      BY <2>3, WaitingType
    <3>4. QueuedPacketsLive'
      BY <2>3, <3>1, <3>2, <3>3 DEF QueuedPacketsLive
    <3>5. running' \in Packet => running'.sock \in Open
      BY <2>3, <3>2
    <3> QED BY <3>1, <3>4, <3>5 DEF Open
  <2>7. InOrder'
    <3> DEFINE f == [i \in DOMAIN Waiting' |-> i + 1]
    <3>1. /\ DOMAIN Waiting' = 0..(Len(events) - 1)
          /\ \A i \in DOMAIN Waiting' : Waiting'[i] = events[i + 1]
      BY <2>3, <2>4, WaitingType DEF Waiting
    <3>2. DOMAIN Waiting = 1..Len(events) /\ \A i \in 1..Len(events) : Waiting[i] = events[i]
      BY <1>0, WaitingType
    <3>3. Len(events) \in Nat
      BY WaitingType
    <3>4. Thinned(f)
      BY <3>1, <3>2, <3>3 DEF Thinned
    <3>5. ASSUME NEW s \in Open PROVE Covers(f, s, {})
      <4>1. SUFFICES ASSUME NEW x \in 1..Len(events) PROVE \E i \in DOMAIN Waiting' : f[i] = x
        BY <3>2 DEF Covers, PacketsOf
      <4>2. x - 1 \in DOMAIN Waiting' /\ f[x - 1] = x
        BY <3>1, <3>3
      <4> QED BY <4>2
    <3> HIDE DEF f
    <3>6. Open' = Open /\ received' = received /\ executed' = executed
      BY <2>1 DEF Open, sockets
    <3> QED BY <3>4, <3>5, <3>6, OrderKept DEF InOrder
  <2>8. running' # NoEvent <=> pc'["event"] \in {"enter", "execute"}
    BY <1>0, <2>1, <2>4 DEF Thread
  <2> QED BY <2>1, <2>5, <2>6, <2>7, <2>8 DEF QueueInv, sockets
<1> QED BY <1>1, <1>2

\* A client is disconnected while the popped event waits for its turn.
LEMMA DropStep ==
  ASSUME QueueInv, NEW s \in Open, DropClient(s) \/ CloseClient(s)
  PROVE  QueueInv'
<1>1. /\ DisconnectClient({s}) /\ UNCHANGED <<running, received, executed, pc>>
      /\ UNCHANGED <<signalled, mutex, active, listening, lock, calls, process>>
  BY DEF DropClient, CloseClient, DisconnectClient
<1>2. /\ events' \in Seq(Packet \cup Call)
      /\ client' \in [Sock -> {"new", "open", "closed"}]
      /\ Open' = Open \ {s} /\ QueuedPacketsLive'
      /\ \A t \in Sock : client'[t] = "new" <=> client[t] = "new"
  BY <1>1, DisconnectThins DEF Disconnects
<1>3. PICK f : Thinned(f) /\ \A t \in Open' : Covers(f, t, {})
  BY <1>1, DisconnectThins DEF Disconnects
<1>4. TypeOK'
  BY <1>1, <1>2 DEF QueueInv, TypeOK
<1>5. InOrder'
  BY <1>1, <1>2, <1>3, OrderKept DEF InOrder
<1>6. running' \in Packet => client'[running'.sock] # "new"
  BY <1>1, <1>2, EventKinds DEF QueueInv
<1> QED BY <1>1, <1>2, <1>4, <1>5, <1>6 DEF QueueInv

\* A handler that disconnects clients ends, and the event it was given is gone.
LEMMA HandlerStep ==
  ASSUME QueueInv, NEW gone \in SUBSET Open, Disconnects(gone), HandlerEnds,
         At("event", "execute"), UNCHANGED <<received, listening, calls, process>>,
         signalled' \in BOOLEAN, active' \in BOOLEAN,
         \/ /\ running \in Packet /\ running.sock \in Open
            /\ executed' = [executed EXCEPT ![running.sock] = @ + 1]
         \/ /\ running \in Call \/ (running \in Packet /\ running.sock \notin Open)
            /\ executed' = executed
  PROVE  QueueInv'
<1>1. /\ running' = NoEvent /\ running # NoEvent /\ lock' = NoThread
      /\ pc' = [pc EXCEPT !["event"] = "next"] /\ DOMAIN pc = Thread
  BY DEF HandlerEnds, Goto, Leave, At, QueueInv, TypeOK
<1>2. /\ events' \in Seq(Packet \cup Call)
      /\ client' \in [Sock -> {"new", "open", "closed"}]
      /\ Open' = Open \ gone /\ QueuedPacketsLive'
      /\ \A t \in Sock : client'[t] = "new" <=> client[t] = "new"
  BY <1>1, DisconnectThins DEF Disconnects
<1>3. PICK f : /\ Thinned(f)
               /\ \A i \in DOMAIN Waiting' : f[i] = 0 <=> i = 0
               /\ \A t \in Open' : Covers(f, t, {0})
  BY <1>1, DisconnectThins DEF Disconnects
<1>4. 0 \notin DOMAIN Waiting' /\ \A i \in DOMAIN Waiting' : f[i] # 0
  <2>1. events' \in Seq(Packet \cup Call) => 0 \notin DOMAIN events'
    BY LenProperties
  <2> QED BY <1>1, <1>2, <1>3, <2>1 DEF Waiting
<1>5. 0 \in DOMAIN Waiting /\ Waiting[0] = running
  BY <1>1, WaitingType
<1>6. ASSUME NEW s \in Open'
      PROVE  InOrderOf(s)'
  <2>1. s \in Open /\ s \in Sock
    BY <1>2 DEF Open
  <2>2. CASE running \in Packet /\ running.sock = s
    <3>1. executed'[s] = executed[s] + 1
      BY <2>1, <2>2, EventKinds DEF QueueInv, TypeOK
    <3>2. 0 \in PacketsOf(s)
      BY <1>5, <2>2 DEF PacketsOf
    <3> QED BY <1>3, <1>4, <2>1, <3>1, <3>2, OrderAdvances
  <2>3. CASE ~(running \in Packet /\ running.sock = s)
    <3>1. executed'[s] = executed[s]
      BY <2>1, <2>3, EventKinds DEF QueueInv, TypeOK
    <3>2. 0 \notin PacketsOf(s)
      BY <1>5, <2>3 DEF PacketsOf
    <3>3. Covers(f, s, {})
      BY <1>3, <3>2 DEF Covers
    <3> QED BY <1>3, <2>1, <3>1, <3>3, OrderKept
  <2> QED BY <2>2, <2>3
<1>7. executed' \in [Sock -> 0..MaxPackets]
  <2>1. CASE executed' = executed
    BY <2>1 DEF QueueInv, TypeOK
  <2>2. CASE /\ running \in Packet /\ running.sock \in Open
             /\ executed' = [executed EXCEPT ![running.sock] = @ + 1]
    <3> DEFINE s == running.sock
    <3>1. 0 \in PacketsOf(s) /\ s \in Open
      BY <1>5, <2>2 DEF PacketsOf
    <3>2. Waiting[0].num \in (executed[s] + 1)..received[s]
      BY <3>1 DEF QueueInv, InOrder, InOrderOf
    <3>3. s \in Sock /\ executed[s] \in 0..MaxPackets /\ received[s] \in 0..MaxPackets
      BY <2>2, EventKinds DEF QueueInv, TypeOK
    <3>4. executed[s] + 1 \in 0..MaxPackets
      <4>1. running.num \in 1..MaxPackets
        BY <2>2, EventKinds
      <4> QED BY <1>5, <3>2, <3>3, <4>1, BoundAssumption
    <3> QED BY <2>2, <3>3, <3>4 DEF QueueInv, TypeOK
  <2> QED BY <2>1, <2>2
<1>8. TypeOK'
  <2>1. pc' \in [Thread -> Label]
    BY <1>1 DEF QueueInv, TypeOK, Label
  <2>2. listening' \in [Server -> BOOLEAN] /\ calls' \in 0..MaxCalls /\ process' \in {"up", "killed"}
        /\ received' \in [Sock -> 0..MaxPackets]
    BY DEF QueueInv, TypeOK
  <2>3. /\ running' \in Packet \cup Call \cup {NoEvent}
        /\ lock' \in Thread \cup {NoThread} /\ mutex' \in Thread \cup {NoThread}
    BY <1>1 DEF Disconnects, DisconnectClient, QueueInv, TypeOK
  <2> QED BY <1>2, <1>7, <2>1, <2>2, <2>3 DEF TypeOK
<1>9. InOrder'
  BY <1>6 DEF InOrder
<1>10. \A s \in Sock : client'[s] = "new" => received'[s] = 0 /\ executed'[s] = 0
  <2>1. SUFFICES ASSUME NEW s \in Sock, client[s] = "new" PROVE received'[s] = 0 /\ executed'[s] = 0
    BY <1>2
  <2>2. s \notin Open
    BY <2>1 DEF Open
  <2>3. executed'[s] = executed[s]
    BY <2>2 DEF QueueInv, TypeOK
  <2> QED BY <2>1, <2>3 DEF QueueInv
<1>11. running' \notin Packet
  BY <1>1, NullAssumption
<1> QED BY <1>1, <1>2, <1>8, <1>9, <1>10, <1>11 DEF QueueInv, Thread

\* An event is put behind everything that waits: nothing else changes its position.
LEMMA AppendFacts ==
  ASSUME QueueInv, NEW ev \in Packet \cup Call, events' = Append(events, ev), running' = running
  PROVE  /\ events' \in Seq(Packet \cup Call)
         /\ DOMAIN events' = DOMAIN events \cup {Len(events) + 1}
         /\ events'[Len(events) + 1] = ev
         /\ \A i \in DOMAIN events : events'[i] = events[i]
         /\ DOMAIN Waiting' = DOMAIN Waiting \cup {Len(events) + 1}
         /\ Waiting'[Len(events) + 1] = ev
         /\ \A i \in DOMAIN Waiting : i < Len(events) + 1 /\ Waiting'[i] = Waiting[i]
<1>1. events \in Seq(Packet \cup Call)
  BY DEF QueueInv, TypeOK
<1>2. /\ events' \in Seq(Packet \cup Call)
      /\ Len(events') = Len(events) + 1 /\ events'[Len(events) + 1] = ev
      /\ \A i \in 1..Len(events) : events'[i] = events[i]
  BY <1>1, AppendProperties
<1>3. /\ Len(events) \in Nat /\ DOMAIN events = 1..Len(events)
      /\ DOMAIN events' = 1..(Len(events) + 1)
  BY <1>1, <1>2, LenProperties
<1>4. DOMAIN events' = DOMAIN events \cup {Len(events) + 1}
  BY <1>3
<1>5. DOMAIN Waiting' = DOMAIN Waiting \cup {Len(events) + 1}
  BY <1>4 DEF Waiting
<1>6. Waiting'[Len(events) + 1] = ev
  BY <1>2, <1>3, <1>4 DEF Waiting
<1>7. ASSUME NEW i \in DOMAIN Waiting PROVE i < Len(events) + 1 /\ Waiting'[i] = Waiting[i]
  <2>1. CASE i = 0
    BY <1>3, <1>5, <2>1 DEF Waiting
  <2>2. CASE i # 0
    <3>1. i \in DOMAIN events
      BY <2>2 DEF Waiting
    <3>2. events'[i] = events[i] /\ i < Len(events) + 1
      BY <1>2, <1>3, <3>1
    <3> QED BY <1>4, <2>2, <3>1, <3>2 DEF Waiting
  <2> QED BY <2>1, <2>2
<1> QED BY <1>2, <1>3, <1>4, <1>5, <1>6, <1>7

\* A tick or a command is queued.
LEMMA AddCallStep ==
  ASSUME QueueInv, AddCall, UNCHANGED <<active, listening, lock, sockets, process>>,
         mutex' \in Thread \cup {NoThread},
         NEW label \in Label, pc' = pc \/ pc' = [pc EXCEPT !["console"] = label]
  PROVE  QueueInv'
<1> DEFINE ev == [kind |-> "call"]
           top == Len(events) + 1
<1>1. /\ events' = Append(events, ev) /\ signalled' = TRUE /\ running' = running
      /\ calls' \in 0..MaxCalls
      /\ UNCHANGED <<client, received, executed, active, listening, lock, process>>
  BY BoundAssumption DEF AddCall, AddEvent, QueueInv, TypeOK, sockets
<1>2. ev \in Call /\ ev \notin Packet
  BY DEF Call, Packet
<1> HIDE DEF ev
<1>3. /\ events' \in Seq(Packet \cup Call)
      /\ DOMAIN events' = DOMAIN events \cup {top} /\ events'[top] = ev
      /\ \A i \in DOMAIN events : events'[i] = events[i]
      /\ DOMAIN Waiting' = DOMAIN Waiting \cup {top} /\ Waiting'[top] = ev
      /\ \A i \in DOMAIN Waiting : Waiting'[i] = Waiting[i]
  BY <1>1, <1>2, AppendFacts
<1> HIDE DEF top
<1>4. Open' = Open
  BY <1>1 DEF Open
<1>5. \A s \in Open : PacketsOf(s)' = PacketsOf(s)
  BY <1>2, <1>3 DEF PacketsOf
<1>6. \A s \in Open : \A i \in PacketsOf(s) : Waiting'[i] = Waiting[i]
  BY <1>3 DEF PacketsOf
<1>7. InOrder'
  <2>1. SUFFICES ASSUME NEW s \in Open
                 PROVE  /\ executed[s] <= received[s]
                        /\ {Waiting'[i].num : i \in PacketsOf(s)} = (executed[s] + 1)..received[s]
                        /\ \A i, j \in PacketsOf(s) : i < j => Waiting'[i].num < Waiting'[j].num
    BY <1>1, <1>4, <1>5 DEF InOrder, InOrderOf
  <2>2. {Waiting'[i].num : i \in PacketsOf(s)} = {Waiting[i].num : i \in PacketsOf(s)}
    BY <1>6
  <2> QED BY <1>6, <2>2 DEF QueueInv, InOrder, InOrderOf
<1>8. QueuedPacketsLive'
  BY <1>2, <1>3, <1>4 DEF QueueInv, QueuedPacketsLive
<1>9. TypeOK'
  <2>1. pc' \in [Thread -> Label]
    BY DEF QueueInv, TypeOK
  <2>2. /\ active' \in BOOLEAN /\ listening' \in [Server -> BOOLEAN]
        /\ lock' \in Thread \cup {NoThread} /\ process' \in {"up", "killed"}
    BY <1>1 DEF QueueInv, TypeOK
  <2>3. /\ running' \in Packet \cup Call \cup {NoEvent}
        /\ client' \in [Sock -> {"new", "open", "closed"}]
        /\ received' \in [Sock -> 0..MaxPackets] /\ executed' \in [Sock -> 0..MaxPackets]
    BY <1>1 DEF QueueInv, TypeOK
  <2> QED BY <1>1, <1>3, <2>1, <2>2, <2>3 DEF TypeOK
<1>10. pc'["event"] = pc["event"]
  BY DEF QueueInv, TypeOK, Thread
<1> QED BY <1>1, <1>7, <1>8, <1>9, <1>10 DEF QueueInv

\* A packet is read and queued: it is the next one of its client.
LEMMA ReadStep == ASSUME QueueInv, NEW s \in Sock, Read(s) PROVE QueueInv'
<1> DEFINE n == received[s] + 1
           ev == [kind |-> "packet", sock |-> s, num |-> n]
           top == Len(events) + 1
<1>1. /\ s \in Open /\ received[s] \in 0..MaxPackets /\ received[s] < MaxPackets
      /\ executed[s] \in 0..MaxPackets
  BY DEF Read, QueueInv, TypeOK
<1>2. n \in 1..MaxPackets
  BY <1>1, BoundAssumption
<1>3. /\ received' = [received EXCEPT ![s] = n] /\ received'[s] = n
      /\ received' \in [Sock -> 0..MaxPackets]
  <2>1. received \in [Sock -> 0..MaxPackets] /\ n \in 0..MaxPackets
    BY <1>1, BoundAssumption DEF QueueInv, TypeOK
  <2>2. received' = [received EXCEPT ![s] = n]
    BY DEF Read
  <2> HIDE DEF n
  <2> QED BY <2>1, <2>2
<1>4. /\ events' = Append(events, ev) /\ signalled' = TRUE
      /\ UNCHANGED <<running, mutex, active, listening, lock, client, executed, calls, process, pc>>
  BY <1>3 DEF Read, AddEvent, MutexFree
<1>5. ev \in Packet /\ ev.sock = s /\ ev.num = n
  BY <1>2 DEF Packet
<1> HIDE DEF ev
<1>6. /\ events' \in Seq(Packet \cup Call)
      /\ DOMAIN events' = DOMAIN events \cup {top} /\ events'[top] = ev
      /\ \A i \in DOMAIN events : events'[i] = events[i]
      /\ DOMAIN Waiting' = DOMAIN Waiting \cup {top} /\ Waiting'[top] = ev
      /\ \A i \in DOMAIN Waiting : i < top /\ Waiting'[i] = Waiting[i]
  BY <1>4, <1>5, AppendFacts
<1>7. top \in Nat /\ DOMAIN Waiting \in SUBSET Nat
  BY WaitingType
<1> HIDE DEF top
<1>8. Open' = Open
  BY <1>4 DEF Open
<1>9. ASSUME NEW t \in Open
      PROVE  InOrderOf(t)'
  <2>1. /\ executed[t] <= received[t]
        /\ {Waiting[i].num : i \in PacketsOf(t)} = (executed[t] + 1)..received[t]
        /\ \A i, j \in PacketsOf(t) : i < j => Waiting[i].num < Waiting[j].num
    BY DEF QueueInv, InOrder, InOrderOf
  <2>2. \A i \in PacketsOf(t) : i \in DOMAIN Waiting /\ i < top /\ Waiting'[i] = Waiting[i]
    BY <1>6 DEF PacketsOf
  <2>3. CASE t # s
    <3>1. PacketsOf(t)' = PacketsOf(t)
      BY <1>5, <1>6, <2>3 DEF PacketsOf
    <3>2. {Waiting'[i].num : i \in PacketsOf(t)} = {Waiting[i].num : i \in PacketsOf(t)}
      BY <2>2
    <3>3. received'[t] = received[t]
      BY <1>3, <2>3 DEF QueueInv, TypeOK, Open
    <3> QED BY <1>4, <2>1, <2>2, <3>1, <3>2, <3>3 DEF InOrderOf
  <2>4. CASE t = s
    <3>1. PacketsOf(s)' = PacketsOf(s) \cup {top}
      BY <1>5, <1>6, <2>4 DEF PacketsOf
    <3>2. /\ Waiting'[top].num = n
          /\ {Waiting'[i].num : i \in PacketsOf(s)} = {Waiting[i].num : i \in PacketsOf(s)}
      BY <1>5, <1>6, <2>2, <2>4
    <3>3. {Waiting'[i].num : i \in PacketsOf(s)'} = ((executed[s] + 1)..received[s]) \cup {n}
      BY <2>1, <2>4, <3>1, <3>2
    <3>5. ((executed[s] + 1)..received[s]) \cup {n} = (executed[s] + 1)..n
      BY <1>1, <2>1, <2>4
    <3>6. ASSUME NEW i \in PacketsOf(s)', NEW j \in PacketsOf(s)', i < j
          PROVE  Waiting'[i].num < Waiting'[j].num
      <4>1. i \in Nat /\ j \in Nat
        BY <1>7, <2>2, <2>4, <3>1
      <4>2. i # top /\ i \in PacketsOf(s)
        BY <1>7, <2>2, <2>4, <3>1, <3>6, <4>1
      <4>3. CASE j = top
        <5>1. Waiting[i].num \in (executed[s] + 1)..received[s]
          BY <2>1, <2>4, <4>2
        <5> QED BY <1>1, <2>2, <2>4, <3>2, <4>2, <4>3, <5>1
      <4>4. CASE j # top
        BY <2>1, <2>2, <2>4, <3>1, <3>6, <4>2, <4>4
      <4> QED BY <4>3, <4>4
    <3>7. executed[s] <= n
      BY <1>1, <2>1, <2>4
    <3> HIDE DEF n
    <3> QED BY <1>3, <1>4, <2>4, <3>3, <3>5, <3>6, <3>7 DEF InOrderOf
  <2> QED BY <2>3, <2>4
<1>10. InOrder'
  BY <1>8, <1>9 DEF InOrder
<1>11. QueuedPacketsLive'
  BY <1>1, <1>5, <1>6, <1>8 DEF QueueInv, QueuedPacketsLive
<1>12. TypeOK'
  <2>1. /\ active' \in BOOLEAN /\ listening' \in [Server -> BOOLEAN]
        /\ lock' \in Thread \cup {NoThread} /\ process' \in {"up", "killed"}
        /\ mutex' \in Thread \cup {NoThread}
    BY <1>4 DEF QueueInv, TypeOK
  <2>2. /\ running' \in Packet \cup Call \cup {NoEvent}
        /\ client' \in [Sock -> {"new", "open", "closed"}]
        /\ executed' \in [Sock -> 0..MaxPackets] /\ calls' \in 0..MaxCalls
        /\ pc' \in [Thread -> Label]
    BY <1>4 DEF QueueInv, TypeOK
  <2> QED BY <1>3, <1>4, <1>6, <2>1, <2>2 DEF TypeOK
<1>13. \A t \in Sock : client[t] = "new" => received'[t] = 0
  BY <1>1, <1>3 DEF QueueInv, TypeOK, Open
<1> HIDE DEF n
<1> QED BY <1>4, <1>10, <1>11, <1>12, <1>13 DEF QueueInv

\* An accepted client has sent nothing, and nothing waits in its name.
LEMMA AcceptStep == ASSUME QueueInv, NEW s \in Sock, Accept(s) PROVE QueueInv'
<1>1. /\ client[s] = "new"
      /\ UNCHANGED <<events, running, signalled, mutex, active, listening, lock, received, executed,
                     calls, process, pc>>
  BY DEF Accept, queue
<1>2. PICK life \in {"open", "closed"} : client' = [client EXCEPT ![s] = life]
  BY DEF Accept
<1>3. /\ client' \in [Sock -> {"new", "open", "closed"}] /\ client'[s] \in {"open", "closed"}
      /\ \A t \in Sock : t # s => client'[t] = client[t]
  BY <1>2 DEF QueueInv, TypeOK
<1>4. Open \subseteq Open' /\ Open' \subseteq Open \cup {s}
  BY <1>1, <1>3 DEF Open
<1>5. Waiting' = Waiting /\ \A t \in Sock : PacketsOf(t)' = PacketsOf(t)
  <2>1. Waiting' = Waiting
    BY <1>1 DEF Waiting
  <2> QED BY <2>1 DEF PacketsOf
<1>6. PacketsOf(s) = {}
  <2>1. SUFFICES ASSUME NEW i \in DOMAIN Waiting, Waiting[i] \in Packet, Waiting[i].sock = s
                 PROVE  FALSE
    BY DEF PacketsOf
  <2>2. CASE i \in DOMAIN events
    BY <1>1, <2>1, <2>2, WaitingType DEF QueueInv, QueuedPacketsLive, Open
  <2>3. CASE i \notin DOMAIN events
    <3>1. Waiting[i] = running
      BY <2>3, WaitingType
    <3> QED BY <1>1, <2>1, <3>1 DEF QueueInv
  <2> QED BY <2>2, <2>3
<1>7. InOrderOf(s)'
  <2>1. received[s] = 0 /\ executed[s] = 0
    BY <1>1 DEF QueueInv
  <2>2. (0 + 1)..0 = {}
    OBVIOUS
  <2>3. PacketsOf(s)' = {} /\ received'[s] = 0 /\ executed'[s] = 0
    BY <1>1, <1>5, <1>6, <2>1
  <2> QED BY <2>2, <2>3 DEF InOrderOf
<1>8. ASSUME NEW t \in Open PROVE InOrderOf(t)'
  <2>1. InOrderOf(t) /\ t \in Sock
    BY DEF QueueInv, InOrder, Open
  <2> QED BY <1>1, <1>5, <2>1 DEF InOrderOf
<1>9. InOrder'
  BY <1>4, <1>7, <1>8 DEF InOrder
<1>10. TypeOK'
  <2>1. /\ signalled' \in BOOLEAN /\ active' \in BOOLEAN /\ listening' \in [Server -> BOOLEAN]
        /\ lock' \in Thread \cup {NoThread} /\ process' \in {"up", "killed"}
        /\ mutex' \in Thread \cup {NoThread}
    BY <1>1 DEF QueueInv, TypeOK
  <2> QED BY <1>1, <1>3, <2>1 DEF QueueInv, TypeOK
<1>11. QueuedPacketsLive'
  BY <1>1, <1>4 DEF QueueInv, QueuedPacketsLive
<1>12. running' \in Packet => client'[running'.sock] # "new"
  BY <1>1, <1>3, EventKinds DEF QueueInv
<1>13. \A t \in Sock : client'[t] = "new" => received'[t] = 0 /\ executed'[t] = 0
  BY <1>1, <1>3 DEF QueueInv
<1> QED BY <1>1, <1>9, <1>10, <1>11, <1>12, <1>13 DEF QueueInv

\* Whoever takes the lock, waits, or ends.
LEMMA OtherSteps ==
  ASSUME QueueInv,
         \/ EventLoop \/ WaitForSignal \/ EventCheck \/ EnterHandler
         \/ ListenThread \/ EnterListen \/ UdpThread \/ EnterUdp \/ EnterMain
         \/ ReadCommand \/ EndOfInput \/ ConsoleLoop \/ SetInactive \/ SignalInactive
         \/ MainLeavesLoop \/ JoinEvent \/ TerminateConsole \/ TerminateProcess
         \/ StopListening \/ JoinListen \/ StopUdp \/ JoinUdp
  PROVE  QueueInv'
<1> USE DEF Goto, At, Enter, Leave
<1>1. UNCHANGED <<events, running, sockets, calls>>
  BY DEF EventLoop, WaitForSignal, EventCheck, EnterHandler, ListenThread, ListenLoop, Poll,
     LeaveListen, EnterListen, UdpThread, UdpLoop, Select, LeaveUdp, EnterUdp, EnterMain, ReadCommand,
     EndOfInput, ConsoleLoop, SetInactive, SignalInactive, MainLeavesLoop, JoinEvent, TerminateConsole,
     TerminateProcess, StopListening, JoinListen, StopUdp, JoinUdp, queue
<1>2. pc \in [Thread -> Label]
  BY DEF QueueInv, TypeOK
<1>3. /\ pc' \in [Thread -> Label]
      /\ pc'["event"] \in {"enter", "execute"} <=> pc["event"] \in {"enter", "execute"}
  <2>1. CASE EventLoop \/ WaitForSignal \/ EventCheck \/ EnterHandler
    BY <1>2, <2>1 DEF Label, Thread, EventLoop, WaitForSignal, EventCheck, EnterHandler
  <2>2. CASE ListenThread \/ EnterListen \/ UdpThread \/ EnterUdp
    BY <1>2, <2>2 DEF Label, Thread, ListenThread, ListenLoop, Poll, LeaveListen, EnterListen,
       UdpThread, UdpLoop, Select, LeaveUdp, EnterUdp
  <2>3. CASE EnterMain \/ ReadCommand \/ EndOfInput \/ ConsoleLoop \/ SetInactive \/ SignalInactive
    BY <1>2, <2>3 DEF Label, Thread, EnterMain, ReadCommand, EndOfInput, ConsoleLoop, SetInactive,
       SignalInactive
  <2>4. CASE MainLeavesLoop \/ JoinEvent \/ TerminateConsole \/ TerminateProcess
    BY <1>2, <2>4 DEF Label, Thread, MainLeavesLoop, JoinEvent, TerminateConsole, TerminateProcess
  <2>5. CASE StopListening \/ JoinListen \/ StopUdp \/ JoinUdp
    BY <1>2, <2>5 DEF Label, Thread, StopListening, JoinListen, StopUdp, JoinUdp
  <2> QED BY <2>1, <2>2, <2>3, <2>4, <2>5
<1>4. /\ signalled' \in BOOLEAN /\ active' \in BOOLEAN /\ listening' \in [Server -> BOOLEAN]
      /\ lock' \in Thread \cup {NoThread} /\ process' \in {"up", "killed"}
      /\ mutex' \in Thread \cup {NoThread}
  <2>0. /\ signalled \in BOOLEAN /\ active \in BOOLEAN /\ listening \in [Server -> BOOLEAN]
        /\ lock \in Thread \cup {NoThread} /\ process \in {"up", "killed"}
        /\ mutex \in Thread \cup {NoThread}
    BY DEF QueueInv, TypeOK
  <2>1. CASE EventLoop \/ WaitForSignal \/ EventCheck \/ EnterHandler
    BY <2>0, <2>1 DEF Thread, EventLoop, WaitForSignal, EventCheck, EnterHandler, queue
  <2>2. CASE ListenThread \/ EnterListen \/ UdpThread \/ EnterUdp
    BY <2>0, <2>2 DEF Thread, ListenThread, ListenLoop, Poll, LeaveListen, EnterListen,
       UdpThread, UdpLoop, Select, LeaveUdp, EnterUdp, queue
  <2>3. CASE EnterMain \/ ReadCommand \/ EndOfInput \/ ConsoleLoop \/ SetInactive \/ SignalInactive
    BY <2>0, <2>3 DEF Thread, EnterMain, ReadCommand, EndOfInput, ConsoleLoop, SetInactive,
       SignalInactive, queue
  <2>4. CASE MainLeavesLoop \/ JoinEvent \/ TerminateConsole \/ TerminateProcess
    BY <2>0, <2>4 DEF Thread, MainLeavesLoop, JoinEvent, TerminateConsole, TerminateProcess, queue
  <2>5. CASE StopListening \/ JoinListen \/ StopUdp \/ JoinUdp
    BY <2>0, <2>5 DEF Server, StopListening, JoinListen, StopUdp, JoinUdp, queue
  <2> QED BY <2>1, <2>2, <2>3, <2>4, <2>5
<1>5. TypeOK'
  <2>1. /\ events' \in Seq(Packet \cup Call) /\ running' \in Packet \cup Call \cup {NoEvent}
        /\ client' \in [Sock -> {"new", "open", "closed"}] /\ received' \in [Sock -> 0..MaxPackets]
        /\ executed' \in [Sock -> 0..MaxPackets] /\ calls' \in 0..MaxCalls
    BY <1>1 DEF QueueInv, TypeOK, sockets
  <2> QED BY <1>3, <1>4, <2>1 DEF TypeOK
<1> QED BY <1>1, <1>3, <1>5, QueueUntouched

LEMMA QueueStep == ASSUME QueueInv, [Next]_vars PROVE QueueInv'
<1>1. ASSUME EventThread PROVE QueueInv'
  <2>1. CASE EventLoop \/ WaitForSignal \/ EventCheck
    BY <2>1, OtherSteps
  <2>2. CASE GetNextEvent
    BY <2>2, GetNextEventStep
  <2>3. CASE ExecutePacket
    <3>1. PICK gone \in SUBSET Open : Disconnects(gone)
      BY <2>3 DEF ExecutePacket, Disconnects
    <3>2. running \in Packet /\ running.sock \in Open
      BY <2>3, EventKinds DEF ExecutePacket, Open
    <3>3. signalled' \in BOOLEAN /\ active' \in BOOLEAN
      BY <2>3 DEF ExecutePacket, QueueInv, TypeOK
    <3> QED BY <2>3, <3>1, <3>2, <3>3, HandlerStep DEF ExecutePacket
  <2>4. CASE ExecuteDeleted
    <3>1. running \in Packet /\ running.sock \notin Open
      BY <2>4 DEF ExecuteDeleted, Open
    <3>2. CASE HandlerEnds /\ UNCHANGED process
      <4>1. Disconnects({})
        BY <2>4 DEF Disconnects, ExecuteDeleted, sockets
      <4>2. signalled' \in BOOLEAN /\ active' \in BOOLEAN
        BY <2>4 DEF ExecuteDeleted, QueueInv, TypeOK
      <4> QED BY <2>4, <3>1, <3>2, <4>1, <4>2, HandlerStep DEF ExecuteDeleted, sockets
    <3>3. CASE process' = "killed" /\ UNCHANGED <<running, lock, pc>>
      BY <2>4, <3>3, QueueUntouched DEF ExecuteDeleted, QueueInv, TypeOK, sockets
    <3> QED BY <2>4, <3>2, <3>3 DEF ExecuteDeleted
  <2>5. CASE ExecuteCall
    <3>1. PICK gone \in SUBSET Open : Disconnects(gone)
      BY <2>5 DEF ExecuteCall, Disconnects
    <3>2. signalled' \in BOOLEAN /\ active' \in BOOLEAN
      BY <2>5 DEF ExecuteCall, QueueInv, TypeOK
    <3> QED BY <2>5, <3>1, <3>2, HandlerStep DEF ExecuteCall
  <2>6. CASE ExecuteShutdown
    <3>1. Disconnects({})
      BY <2>6 DEF Disconnects, ExecuteShutdown, sockets
    <3> QED BY <2>6, <3>1, HandlerStep DEF ExecuteShutdown, sockets
  <2> QED BY <1>1, <2>1, <2>2, <2>3, <2>4, <2>5, <2>6 DEF EventThread
<1>2. ASSUME Traffic PROVE QueueInv'
  <2>1. PICK s \in Sock : Accept(s) \/ Read(s) \/ DropClient(s)
    BY <1>2 DEF Traffic
  <2>2. ASSUME DropClient(s) PROVE s \in Open
    BY <2>2 DEF DropClient
  <2> QED BY <2>1, <2>2, AcceptStep, ReadStep, DropStep
<1>3. ASSUME Console PROVE QueueInv'
  <2>1. CASE AddCommand
    <3>1. pc' = [pc EXCEPT !["console"] = "loop"] /\ "loop" \in Label /\ mutex' = NoThread
      BY <2>1 DEF AddCommand, Goto, Label
    <3> QED BY <2>1, <3>1, AddCallStep DEF AddCommand
  <2> QED BY <1>3, <2>1, OtherSteps DEF Console
<1>4. ASSUME MainThread PROVE QueueInv'
  <2>1. CASE Tick
    <3>1. "loop" \in Label /\ mutex' \in Thread \cup {NoThread}
      BY <2>1 DEF Label, Tick, MutexFree, QueueInv, TypeOK
    <3> QED BY <2>1, <3>1, AddCallStep DEF Tick
  <2>2. ASSUME NEW s \in Sock, CloseClient(s) PROVE QueueInv'
    BY <2>2, DropStep DEF CloseClient
  <2> QED BY <1>4, <2>1, <2>2, OtherSteps DEF MainThread
<1>5. ASSUME UNCHANGED vars PROVE QueueInv'
  BY <1>5, QueueUntouched DEF vars, queue, sockets, QueueInv, TypeOK
<1> QED BY <1>1, <1>2, <1>3, <1>4, <1>5, OtherSteps DEF Next

LEMMA QueueInit == Init => QueueInv
<1>1. SUFFICES ASSUME Init PROVE QueueInv
  OBVIOUS
<1>2. TypeOK
  <2>1. pc \in [Thread -> Label]
    BY <1>1 DEF Init, Label
  <2>2. signalled \in BOOLEAN /\ active \in BOOLEAN /\ listening \in [Server -> BOOLEAN]
    BY <1>1 DEF Init
  <2>3. /\ received \in [Sock -> 0..MaxPackets] /\ executed \in [Sock -> 0..MaxPackets]
        /\ calls \in 0..MaxCalls
    BY <1>1, BoundAssumption DEF Init
  <2>4. /\ events \in Seq(Packet \cup Call) /\ running \in Packet \cup Call \cup {NoEvent}
        /\ lock \in Thread \cup {NoThread} /\ process \in {"up", "killed"}
        /\ client \in [Sock -> {"new", "open", "closed"}] /\ mutex \in Thread \cup {NoThread}
    BY <1>1 DEF Init
  <2> QED BY <2>1, <2>2, <2>3, <2>4 DEF TypeOK
<1>3. running \notin Packet /\ Open = {} /\ DOMAIN events = {}
  BY <1>1, NullAssumption DEF Init, Open
<1>4. pc["event"] = "loop"
  BY <1>1 DEF Init, Thread
<1> QED BY <1>1, <1>2, <1>3, <1>4 DEF QueueInv, QueuedPacketsLive, InOrder, Init

\* While the event thread is on its way to sleep, the queue grows only with a signal.
LEMMA WakeupStep == ASSUME WakeupInv, [Next]_vars PROVE NoLostWakeup'
<1> DEFINE Awake == pc["event"] \in {"loop", "wait"}
<1>1. QueueInv /\ NoLostWakeup /\ pc \in [Thread -> Label]
  BY DEF WakeupInv, QueueInv, TypeOK
<1> USE DEF NoLostWakeup, Goto, At
<1>2. ASSUME EventThread PROVE NoLostWakeup'
  <2>1. CASE EventLoop \/ WaitForSignal \/ EventCheck \/ GetNextEvent
    BY <1>1, <2>1 DEF EventLoop, WaitForSignal, EventCheck, GetNextEvent, queue, Thread
  <2>2. CASE ExecutePacket \/ ExecuteCall \/ ExecuteShutdown
    <3>1. pc'["event"] = "next"
      BY <1>1, <2>2 DEF ExecutePacket, ExecuteCall, ExecuteShutdown, HandlerEnds, Thread
    <3> QED BY <3>1
  <2>3. CASE ExecuteDeleted
    <3>1. pc'["event"] \in {"next", "execute"}
      BY <1>1, <2>3 DEF ExecuteDeleted, HandlerEnds, Thread
    <3> QED BY <3>1
  <2> QED BY <1>2, <2>1, <2>2, <2>3 DEF EventThread
<1>3. ASSUME EnterHandler \/ EnterListen \/ EnterUdp \/ EnterMain PROVE NoLostWakeup'
  BY <1>1, <1>3 DEF EnterHandler, EnterListen, EnterUdp, EnterMain, queue, Thread
<1>4. ASSUME ListenThread \/ UdpThread PROVE NoLostWakeup'
  BY <1>1, <1>4 DEF ListenThread, UdpThread, ListenLoop, Poll, LeaveListen, UdpLoop, Select,
     LeaveUdp, queue, Thread
<1>5. ASSUME NEW s \in Sock, DropClient(s) \/ CloseClient(s) PROVE NoLostWakeup'
  <2>1. events = <<>> => events' = <<>>
    <3>1. s \in Open /\ DisconnectClient({s}) /\ running' = running
      BY <1>5 DEF DropClient, CloseClient
    <3> QED BY <1>1, <3>1, DisconnectThins DEF Disconnects
  <2> QED BY <1>1, <1>5, <2>1 DEF DropClient, CloseClient
<1>6. ASSUME NEW s \in Sock, Accept(s) \/ Read(s) PROVE NoLostWakeup'
  BY <1>1, <1>6 DEF Accept, Read, AddEvent, queue
<1>7. ASSUME Console \/ SetInactive \/ SignalInactive PROVE NoLostWakeup'
  BY <1>1, <1>7 DEF Console, ReadCommand, AddCommand, EndOfInput, ConsoleLoop, SetInactive,
     SignalInactive, AddCall, AddEvent, queue, Thread
<1>8. ASSUME MainThread PROVE NoLostWakeup'
  <2>1. CASE \E s \in Sock : CloseClient(s)
    BY <1>5, <2>1
  <2>2. CASE Tick \/ MainLeavesLoop \/ JoinEvent \/ TerminateConsole \/ TerminateProcess
    BY <1>1, <2>2 DEF Tick, MainLeavesLoop, JoinEvent, TerminateConsole, TerminateProcess, AddCall,
       AddEvent, queue, Thread
  <2>3. CASE StopListening \/ JoinListen \/ StopUdp \/ JoinUdp
    BY <1>1, <2>3 DEF StopListening, JoinListen, StopUdp, JoinUdp, queue, Thread
  <2> QED BY <1>8, <2>1, <2>2, <2>3 DEF MainThread
<1>9. ASSUME UNCHANGED vars PROVE NoLostWakeup'
  BY <1>1, <1>9 DEF vars, queue
<1> QED BY <1>2, <1>3, <1>4, <1>5, <1>6, <1>7, <1>8, <1>9 DEF Next, Traffic

LEMMA QueueInvariance == Spec => []WakeupInv
<1>1. Init => WakeupInv
  BY QueueInit DEF WakeupInv, Init, NoLostWakeup
<1>2. WakeupInv /\ [Next]_vars => WakeupInv'
  BY QueueStep, WakeupStep DEF WakeupInv
<1> QED BY <1>1, <1>2, PTL DEF Spec

\* No packet in the queue belongs to a socket object that was deleted, or was not there yet.
THEOREM QueueIsLive == Spec => []QueuedPacketsLive
<1>1. WakeupInv => QueuedPacketsLive
  BY DEF WakeupInv, QueueInv
<1> QED BY <1>1, QueueInvariance, PTL

\* The packets of a connected client are handled in order, each once, whatever is queued between
\* them and whoever is disconnected meanwhile.
THEOREM PacketsInOrder == Spec => []InOrder
<1>1. WakeupInv => InOrder
  BY DEF WakeupInv, QueueInv
<1> QED BY <1>1, QueueInvariance, PTL

\* The event thread never sleeps on a queue that is not empty while the server is active, though
\* it clears the signal before it looks and one signal stands for many events.
THEOREM WakeupsAreKept == Spec => []NoLostWakeup
<1>1. WakeupInv => NoLostWakeup
  BY DEF WakeupInv
<1> QED BY <1>1, QueueInvariance, PTL
=============================================================================
