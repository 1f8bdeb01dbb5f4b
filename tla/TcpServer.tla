------------------------------- MODULE TcpServer -------------------------------
(***************************************************************************)
(* CTCPServer::Listen with the streams of its clients: the poll array, the *)
(* pass over its results, and per client the packet being received and the *)
(* queue of packets to send.                                               *)
(*                                                                         *)
(* poll() runs without g_ServerCriticalSection and writes its results into *)
(* m_fds by place; handlers of the event thread, one step each, send       *)
(* packets and disconnect clients whenever no pass is on.  A pass holds    *)
(* the critical section; the network goes on meanwhile.                    *)
(*                                                                         *)
(* A packet is Header units followed by Body units, standing for the       *)
(* 4 bytes of the header and the bytes its length announces.  Accepted     *)
(* sockets are non-blocking like the listening one, as on Windows.         *)
(* Encryption, TLS, descriptors used again and what packets say are left   *)
(* out.                                                                    *)
(***************************************************************************)
EXTENDS Sequences, SequencesExt, Subsequence

CONSTANTS
  Sock,          \* the connections clients make
  Listener,      \* the listening socket
  Header, Body,  \* lengths of the parts of a packet
  Packets,       \* bound: packets each client sends
  Faulty,        \* clients whose last packet is invalid
  Expelled,      \* bound: clients that handlers may disconnect
  MaxQueue,      \* bound: packets waiting to be sent to a client
  WholePackets   \* the network delivers each packet in one piece

ASSUME ListenerAssumption == Listener \notin Sock
ASSUME LengthAssumption == {Header, Body} \subseteq Nat \ {0}
ASSUME BoundAssumption == Packets \in [Sock -> Nat] /\ MaxQueue \in Nat
ASSUME ClientAssumption ==
  Faulty \cup Expelled \subseteq Sock /\ \A s \in Faulty : Packets[s] > 0
ASSUME NetworkAssumption == WholePackets \in BOOLEAN

VARIABLES
  fds,      \* m_fds: sockets with the revents of the last poll
  clients,  \* m_Clients
  stage,    \* where the listen thread is
  it,       \* the place the pass has reached
  polled,   \* the sockets poll was called with
  life,     \* of each connection
  peer,     \* what the client has done to its end
  sent,     \* units the client has sent
  inbox,    \* units that wait to be received
  part,     \* units of m_pMsg received so far, 0 when there is none
  handed,   \* packets handed to OnTCPMessage
  queue,    \* length of m_SendPackets
  dead      \* the first packet of m_SendPackets has been deleted

listen == <<stage, it, polled>>
network == <<peer, sent, inbox>>
socket == <<part, handed, queue, dead>>
connection == <<life, network, socket>>
vars == <<fds, clients, listen, connection>>

Packet == Header + Body

\* Whether packet n of client s is invalid.
Invalid(s, n) == s \in Faulty /\ n = Packets[s]

Flag == {"in", "out", "err"}  \* POLLRDNORM, POLLWRNORM, POLLERR or POLLHUP
Unlocked == {"idle", "polling", "returned"}

-----------------------------------------------------------------------------
Init ==
  /\ fds = <<[sock |-> Listener, rev |-> {}]>>
  /\ clients = {}
  /\ stage = "idle" /\ it = 0 /\ polled = <<>>
  /\ life = [s \in Sock |-> "new"]
  /\ peer = [s \in Sock |-> "up"]
  /\ sent = [s \in Sock |-> 0]
  /\ inbox = [s \in Sock |-> 0]
  /\ part = [s \in Sock |-> 0]
  /\ handed = [s \in Sock |-> 0]
  /\ queue = [s \in Sock |-> 0]
  /\ dead = [s \in Sock |-> FALSE]

(* Clients and the network *)

Connect(s) ==
  /\ life[s] = "new"
  /\ life' = [life EXCEPT ![s] = "backlog"]
  /\ UNCHANGED <<fds, clients, listen, network, socket>>

Arrive(s) ==
  LET n == IF WholePackets THEN Packet ELSE 1
  IN  /\ life[s] \in {"backlog", "open"} /\ peer[s] = "up"
      /\ sent[s] + n <= Packets[s] * Packet
      /\ sent' = [sent EXCEPT ![s] = @ + n]
      /\ inbox' = [inbox EXCEPT ![s] = @ + n]
      /\ UNCHANGED <<fds, clients, listen, life, peer, socket>>

\* The client closes its end, or the connection breaks.
Hang(s) ==
  /\ life[s] \in {"backlog", "open"} /\ peer[s] = "up"
  /\ \E end \in {"closed", "reset"} : peer' = [peer EXCEPT ![s] = end]
  /\ UNCHANGED <<fds, clients, listen, life, sent, inbox, socket>>

(* Disconnection, by the pass and by handlers *)

\* ~CExtendedSocket: what was received, what was to be sent and the descriptor go.  What
\* the network keeps of the connection matters to a poll that is on only.
DeleteSocket(s) ==
  /\ life' = [life EXCEPT ![s] = "gone"]
  /\ IF stage = "polling"
     THEN UNCHANGED network
     ELSE /\ peer' = [peer EXCEPT ![s] = "up"]
          /\ sent' = [sent EXCEPT ![s] = 0]
          /\ inbox' = [inbox EXCEPT ![s] = 0]
  /\ part' = [part EXCEPT ![s] = 0]
  /\ handed' = [handed EXCEPT ![s] = 0]
  /\ queue' = [queue EXCEPT ![s] = 0]
  /\ dead' = [dead EXCEPT ![s] = FALSE]

\* Mutant of DisconnectClient: the poll array keeps the socket.
DisconnectKeepFd(s) ==
  /\ clients' = clients \ {s}
  /\ DeleteSocket(s)
  /\ UNCHANGED fds

DisconnectClient(s) ==
  /\ fds' \in Rests(fds, {i \in DOMAIN fds : fds[i].sock # s})
  /\ clients' = clients \ {s}
  /\ DeleteSocket(s)

\* CServerInstance::DisconnectClient in a handler.
HandlerDisconnects(s) ==
  /\ stage \in Unlocked /\ s \in clients \cap Expelled
  /\ DisconnectClient(s)
  /\ UNCHANGED <<listen>>

\* CExtendedSocket::Send in a handler.  The few packets that go past the queue leave no
\* trace here.
HandlerSends(s) ==
  /\ stage \in Unlocked /\ s \in clients /\ queue[s] < MaxQueue
  /\ queue' = [queue EXCEPT ![s] = @ + 1]
  /\ UNCHANGED <<fds, clients, listen, life, network, part, handed, dead>>

(* poll *)

StartPoll ==
  /\ stage = "idle"
  /\ stage' = "polling"
  /\ polled' = [i \in 1..Len(fds) |-> fds[i].sock]
  /\ UNCHANGED <<fds, clients, it, connection>>

\* Mutant of Revents: a closed end is not reported.
ReventsOfData(x) ==
  IF x = Listener
    THEN {IF \E s \in Sock : life[s] = "backlog" THEN {"in"} ELSE {}}
    ELSE {{"out"} \cup IF inbox[x] > 0 THEN {"in"} ELSE {}}

\* What poll may report of a socket.  A closed end is readable, on Windows POLLHUP as
\* well; a socket that was closed during the poll may be reported as before or not at all.
Revents(x) ==
  IF x = Listener
    THEN {IF \E s \in Sock : life[s] = "backlog" THEN {"in"} ELSE {}}
    ELSE (IF life[x] = "gone" THEN {{}} ELSE {})
         \cup CASE peer[x] = "reset" -> {{"in", "out", "err"}}
                [] peer[x] = "closed" -> {{"in", "out"}, {"in", "out", "err"}}
                [] peer[x] = "up" -> {IF inbox[x] > 0 THEN {"in", "out"} ELSE {"out"}}

\* Result i belongs to the socket that had place i when poll was called, and is written
\* to whatever has place i now.
PollReturns ==
  /\ stage = "polling"
  /\ \E rev \in [1..Len(polled) -> SUBSET Flag] :
       /\ \A i \in 1..Len(polled) : rev[i] \in Revents(polled[i])
       /\ fds' = [i \in 1..Len(fds) |-> [fds[i] EXCEPT !.rev = rev[i]]]
       /\ stage' = IF \A i \in 1..Len(polled) : rev[i] = {} THEN "idle" ELSE "returned"
  /\ polled' = <<>>
  /\ UNCHANGED <<clients, it, connection>>

(* The pass *)

EnterPass ==
  /\ stage = "returned"
  /\ stage' = "read" /\ it' = 1
  /\ UNCHANGED <<fds, clients, polled, connection>>

\* A banned address is disconnected at once, before it gets a place in m_fds.
Accept(s) ==
  \/ DisconnectClient(s)
  \/ /\ life' = [life EXCEPT ![s] = "open"]
     /\ clients' = clients \cup {s}
     /\ fds' = Append(fds, [sock |-> s, rev |-> {}])
     /\ UNCHANGED <<network, socket>>

\* The listening socket has the first place, where every restart of the pass leads
\* (it = begin() and the loop's it++): the pass goes on with the second.
VisitListener ==
  /\ stage = "read" /\ it = 1
  /\ it' = 2
  /\ IF "in" \in fds[1].rev
     THEN \E s \in Sock : life[s] = "backlog" /\ Accept(s)
     ELSE UNCHANGED <<fds, clients, connection>>
  /\ UNCHANGED <<stage, polled>>

Visiting(step, s) == stage = step /\ it \in 2..Len(fds) /\ fds[it].sock = s

\* CExtendedSocket::Read gives up: nothing or not a whole header to receive, an invalid
\* header or a wrong sequence, nothing to receive of the body.
ReadFails(s) ==
  IF part[s] = 0 THEN inbox[s] <= Header \/ Invalid(s, handed[s] + 1) ELSE inbox[s] = 0

\* Mutant of Receive: a part of a body is forgotten.
ReceiveForgetPart(s) ==
  LET n == IF inbox[s] < Packet - part[s] THEN inbox[s] ELSE Packet - part[s]
  IN  /\ inbox' = [inbox EXCEPT ![s] = @ - n]
      /\ part' = [part EXCEPT ![s] = 0]
      /\ handed' = [handed EXCEPT ![s] = IF part[s] + n = Packet THEN @ + 1 ELSE @]

\* What there is of the packet, up to its end; a whole packet goes to OnTCPMessage.
Receive(s) ==
  LET n == IF inbox[s] < Packet - part[s] THEN inbox[s] ELSE Packet - part[s]
      whole == part[s] + n = Packet
  IN  /\ inbox' = [inbox EXCEPT ![s] = @ - n]
      /\ part' = [part EXCEPT ![s] = IF whole THEN 0 ELSE @ + n]
      /\ handed' = [handed EXCEPT ![s] = IF whole THEN @ + 1 ELSE @]

\* Every failed read marks the socket; what it has read is lost with it.
VisitReadable(s) ==
  /\ Visiting("read", s)
  /\ stage' = "write"
  /\ IF "in" \in fds[it].rev
     THEN \/ ~ReadFails(s) /\ Receive(s) /\ UNCHANGED fds
          \/ /\ ReadFails(s) \/ peer[s] = "reset"
             /\ fds' = [fds EXCEPT ![it].rev = @ \cup {"err"}]
             /\ UNCHANGED <<inbox, part, handed>>
     ELSE UNCHANGED <<fds, inbox, part, handed>>
  /\ UNCHANGED <<clients, it, polled, life, peer, sent, queue, dead>>

\* CExtendedSocket::Send of the first packet of the queue.  It stays there when the
\* buffer is full; one that cannot be sent is deleted and stays there, too.
SendFirst(s) ==
  \/ /\ peer[s] # "reset"
     /\ queue' = [queue EXCEPT ![s] = @ - 1]
     /\ UNCHANGED <<fds, dead>>
  \/ peer[s] # "reset" /\ UNCHANGED <<fds, queue, dead>>
  \/ /\ peer[s] # "up"
     /\ dead' = [dead EXCEPT ![s] = TRUE]
     /\ fds' = [fds EXCEPT ![it].rev = @ \cup {"err"}]
     /\ UNCHANGED queue

VisitWritable(s) ==
  /\ Visiting("write", s)
  /\ stage' = "drop"
  /\ IF "out" \in fds[it].rev /\ "err" \notin fds[it].rev /\ queue[s] > 0
     THEN SendFirst(s)
     ELSE UNCHANGED <<fds, queue, dead>>
  /\ UNCHANGED <<clients, it, polled, life, network, part, handed>>

\* After a disconnection the pass starts again, with the revents it has already seen.
VisitBroken(s) ==
  /\ Visiting("drop", s)
  /\ stage' = "read"
  /\ IF "err" \in fds[it].rev
     THEN DisconnectClient(s) /\ it' = 2
     ELSE it' = it + 1 /\ UNCHANGED <<fds, clients, connection>>
  /\ UNCHANGED <<polled>>

EndPass ==
  /\ stage = "read" /\ it > Len(fds)
  /\ stage' = "idle" /\ it' = 0
  /\ UNCHANGED <<fds, clients, polled, connection>>

Listen ==
  \/ StartPoll \/ PollReturns \/ EnterPass \/ VisitListener \/ EndPass
  \/ \E s \in Sock : VisitReadable(s) \/ VisitWritable(s) \/ VisitBroken(s)

Next ==
  \/ Listen
  \/ \E s \in Sock :
       Connect(s) \/ Arrive(s) \/ Hang(s) \/ HandlerDisconnects(s) \/ HandlerSends(s)

\* ListenThread calls Listen again and again; nothing is assumed of clients and handlers.
Spec == Init /\ [][Next]_vars /\ WF_vars(Listen)
-----------------------------------------------------------------------------
(* Properties *)

\* Types of the variables.
TypeOK ==
  /\ fds \in Seq([sock : Sock \cup {Listener}, rev : SUBSET Flag])
  /\ clients \subseteq Sock
  /\ stage \in Unlocked \cup {"read", "write", "drop"}
  /\ it \in Nat /\ polled \in Seq(Sock \cup {Listener})
  /\ life \in [Sock -> {"new", "backlog", "open", "gone"}]
  /\ peer \in [Sock -> {"up", "closed", "reset"}]
  /\ sent \in [Sock -> Nat] /\ inbox \in [Sock -> Nat]
  /\ part \in [Sock -> 0..(Packet - 1)]
  /\ \A s \in Sock : handed[s] \in 0..Packets[s]
  /\ queue \in [Sock -> 0..MaxQueue]
  /\ dead \in [Sock -> BOOLEAN]

\* The poll array is the listening socket and the clients, each once: entries are found
\* by descriptor and clients by entry, and neither may outlive the other.
PollSetIsClients ==
  /\ fds[1].sock = Listener
  /\ IsInjective([i \in DOMAIN fds |-> fds[i].sock])
  /\ {fds[i].sock : i \in 2..Len(fds)} = clients
  /\ clients = {s \in Sock : life[s] = "open"}

\* However the stream is cut into pieces and whatever else a pass does, what a client has
\* sent is what it still waits to be received, the packet being received, and the packets
\* handed over; and an invalid packet is never one of these.
StreamPosition ==
  \A s \in clients :
    /\ sent[s] = inbox[s] + part[s] + handed[s] * Packet
    /\ ~Invalid(s, handed[s])

\* A whole packet in the stream is handed over, or the client is disconnected.
PacketsArrive ==
  \A s \in Sock : \A n \in 1..Packets[s] :
    sent[s] >= n * Packet ~> handed[s] >= n \/ life[s] = "gone"

\* A client that has closed its end or lost its connection is disconnected.
ClosedAreDropped == \A s \in Sock : peer[s] # "up" ~> life[s] = "gone"

\* The pass disconnects whom tcpserver.cpp:350 says: "client closed the connection or had
\* a socket error or sent an invalid packet or sent wrong sequence or decryption failed".
DropsAreJustified ==
  [][\A s \in clients \ clients' :
       stage = "drop" => peer[s] # "up" \/ Invalid(s, handed[s] + 1)]_vars

\* extendedsocket.cpp:106, "Deletes unsent and unreceived packets": the packets a socket
\* deletes with itself have not been deleted before.
PacketsDeletedOnce == [][\A s \in clients \ clients' : ~dead[s]]_vars
=============================================================================
