---------------------------- MODULE TcpServerProofs ----------------------------
(***************************************************************************)
(* Theorems about TcpServer, for any clients, lengths of packets and       *)
(* bounds, and for a network that cuts streams anywhere or nowhere.        *)
(***************************************************************************)
EXTENDS TcpServer, SequenceTheorems, FiniteSetTheorems, TLAPS

Entry == [sock : Sock \cup {Listener}, rev : SUBSET Flag]

\* The sockets with a place in the poll array.
Placed == {fds[i].sock : i \in DOMAIN fds}

\* A poll that is on was called for at least as many places as m_fds has: handlers only take
\* places away.
PollInv ==
  /\ fds \in Seq(Entry)
  /\ stage \in Unlocked \cup {"read", "write", "drop"}
  /\ it \in Nat
  /\ polled \in Seq(Sock \cup {Listener})
  /\ stage = "polling" => Len(fds) <= Len(polled)
  /\ life \in [Sock -> {"new", "backlog", "open", "gone"}]
  /\ clients = {s \in Sock : life[s] = "open"}
  /\ Len(fds) >= 1 /\ fds[1].sock = Listener
  /\ \A i, j \in DOMAIN fds : fds[i].sock = fds[j].sock => i = j
  /\ Placed = clients \cup {Listener}

LEMMA FdsFacts ==
  ASSUME PollInv
  PROVE  /\ Len(fds) \in Nat /\ DOMAIN fds = 1..Len(fds) /\ 1 \in DOMAIN fds
         /\ \A i \in DOMAIN fds : /\ fds[i] \in Entry
                                  /\ fds[i].sock \in Sock \cup {Listener}
                                  /\ fds[i].rev \in SUBSET Flag
<1>1. fds \in Seq(Entry) /\ Len(fds) >= 1
  BY DEF PollInv
<1>2. Len(fds) \in Nat /\ DOMAIN fds = 1..Len(fds)
  BY <1>1, LenProperties
<1>3. \A i \in DOMAIN fds : fds[i] \in Entry
  BY <1>1, <1>2, ElementOfSeq
<1> QED BY <1>1, <1>2, <1>3 DEF Entry

Increasing(f, n) == \A j, k \in 1..n : j < k => f[j] < f[k]

\* Rests returns the entries at the given positions, all of them, once each and in order.
LEMMA RestFacts ==
  ASSUME NEW T, NEW s \in Seq(T), NEW I \in SUBSET DOMAIN s, NEW t \in Rests(s, I)
  PROVE  /\ t \in Seq(T) /\ Len(t) <= Len(s)
         /\ \E f \in [1..Len(t) -> I] :
              /\ Increasing(f, Len(t))
              /\ \A x \in I : \E i \in 1..Len(t) : f[i] = x
              /\ \A i \in 1..Len(t) : t[i] = s[f[i]]
<1> DEFINE n == Cardinality(I)
<1>1. Len(s) \in Nat /\ DOMAIN s = 1..Len(s)
  BY LenProperties
<1>2. n \in Nat /\ n <= Len(s)
  <2>1. IsFiniteSet(1..Len(s))
    BY <1>1, FS_Interval
  <2>2. Cardinality(1..Len(s)) = IF 1 > Len(s) THEN 0 ELSE Len(s) - 1 + 1
    BY <1>1, FS_Interval
  <2>3. IsFiniteSet(I) /\ Cardinality(I) <= Cardinality(1..Len(s))
    BY <1>1, <2>1, FS_Subset
  <2> QED BY <1>1, <2>2, <2>3, FS_CardinalityType
<1>3. PICK f \in Ascending(I) : t = [k \in 1..n |-> s[f[k]]]
  BY DEF Rests
<1>4. /\ f \in [1..n -> I] /\ Increasing(f, n)
      /\ \A x \in I : \E i \in 1..n : f[i] = x
  BY DEF Ascending, Increasing
<1> HIDE DEF n
<1>5. \A i \in 1..n : s[f[i]] \in T
  BY <1>1, <1>4, ElementOfSeq
<1>6. t \in Seq(T) /\ Len(t) = n
  BY <1>2, <1>3, <1>5
<1> QED BY <1>1, <1>2, <1>3, <1>4, <1>6

\* Taking a client out of the poll array moves the others up and takes nobody else out.
LEMMA DisconnectPlaces ==
  ASSUME PollInv, NEW s \in Sock, DisconnectClient(s)
  PROVE  /\ fds' \in Seq(Entry) /\ Len(fds') <= Len(fds)
         /\ life' \in [Sock -> {"new", "backlog", "open", "gone"}]
         /\ clients' = {t \in Sock : life'[t] = "open"}
         /\ Len(fds') >= 1 /\ fds'[1].sock = Listener
         /\ \A i, j \in DOMAIN fds' : fds'[i].sock = fds'[j].sock => i = j
         /\ Placed' = clients' \cup {Listener}
<1> DEFINE I == {i \in DOMAIN fds : fds[i].sock # s}
<1>1. fds' \in Rests(fds, I) /\ clients' = clients \ {s} /\ life' = [life EXCEPT ![s] = "gone"]
  BY DEF DisconnectClient, DeleteSocket
<1>2. /\ fds \in Seq(Entry) /\ I \in SUBSET DOMAIN fds /\ DOMAIN fds = 1..Len(fds)
      /\ Len(fds) \in Nat /\ 1 \in I
  BY FdsFacts, ListenerAssumption DEF PollInv
<1> HIDE DEF I
<1>0. fds' \in Rests(fds, I) /\ fds \in Seq(Entry) /\ I \in SUBSET DOMAIN fds
  BY <1>1, <1>2
<1>3. fds' \in Seq(Entry) /\ Len(fds') \in Nat /\ DOMAIN fds' = 1..Len(fds')
  <2>1. fds' \in Seq(Entry)
    BY <1>0, RestFacts
  <2> QED BY <2>1, LenProperties
<1>4. PICK g \in [1..Len(fds') -> I] :
        /\ Increasing(g, Len(fds'))
        /\ \A x \in I : \E i \in 1..Len(fds') : g[i] = x
        /\ \A i \in 1..Len(fds') : fds'[i] = fds[g[i]]
  BY <1>0, RestFacts
<1>5. Len(fds') >= 1 /\ g[1] = 1
  <2>1. PICK i \in 1..Len(fds') : g[i] = 1
    BY <1>2, <1>4
  <2>2. 1 \in 1..Len(fds') /\ g[1] \in Nat /\ g[1] >= 1
    BY <1>2, <1>3, <1>4, <2>1
  <2>3. ~(1 < i)
    BY <1>4, <2>1, <2>2 DEF Increasing
  <2> QED BY <1>3, <2>1, <2>2, <2>3
<1>6. Len(fds') <= Len(fds)
  BY <1>0, RestFacts
<1>7. \A i, j \in DOMAIN fds' : fds'[i].sock = fds'[j].sock => i = j
  <2>1. SUFFICES ASSUME NEW i \in 1..Len(fds'), NEW j \in 1..Len(fds'), fds'[i].sock = fds'[j].sock
                 PROVE  i = j
    BY <1>3
  <2>2. g[i] \in DOMAIN fds /\ g[j] \in DOMAIN fds /\ g[i] \in Nat
    <3>1. g[i] \in I /\ g[j] \in I
      OBVIOUS
    <3>2. g[i] \in DOMAIN fds /\ g[j] \in DOMAIN fds
      BY <1>2, <3>1
    <3> QED BY <1>2, <3>2
  <2>3. g[i] = g[j]
    BY <1>4, <2>1, <2>2 DEF PollInv
  <2>4. ~(i < j) /\ ~(j < i)
    BY <1>4, <2>2, <2>3 DEF Increasing
  <2> QED BY <1>3, <2>4
<1>8. Placed' = {fds[i].sock : i \in I}
  <2>1. Placed' = {fds'[i].sock : i \in 1..Len(fds')}
    BY <1>3 DEF Placed
  <2>2. \A i \in 1..Len(fds') : g[i] \in I /\ fds'[i] = fds[g[i]]
    BY <1>4
  <2> QED BY <1>4, <2>1, <2>2
<1>9. Placed' = clients' \cup {Listener}
  <2>1. {fds[i].sock : i \in I} = Placed \ {s}
    BY DEF Placed, I
  <2> QED BY <1>1, <1>8, <2>1, ListenerAssumption DEF PollInv
<1>10. /\ life' \in [Sock -> {"new", "backlog", "open", "gone"}]
       /\ clients' = {t \in Sock : life'[t] = "open"}
  BY <1>1 DEF PollInv
<1>11. fds'[1].sock = Listener
  BY <1>3, <1>4, <1>5 DEF PollInv
<1> QED BY <1>3, <1>5, <1>6, <1>7, <1>9, <1>10, <1>11

\* New results, or results of other places, leave every socket in its place.
LEMMA SamePlaces ==
  ASSUME PollInv, NEW rev, \A i \in DOMAIN fds : rev[i] \in SUBSET Flag,
         fds' = [i \in 1..Len(fds) |-> [fds[i] EXCEPT !.rev = rev[i]]],
         UNCHANGED <<clients, life>>, it' \in Nat,
         stage' \in Unlocked \cup {"read", "write", "drop"},
         polled' \in Seq(Sock \cup {Listener}), stage' # "polling"
  PROVE  PollInv'
<1>1. /\ Len(fds) \in Nat /\ DOMAIN fds = 1..Len(fds)
      /\ \A i \in DOMAIN fds : fds[i] \in Entry
  BY FdsFacts
<1>2. \A i \in 1..Len(fds) : /\ fds'[i] = [fds[i] EXCEPT !.rev = rev[i]]
                             /\ fds'[i] \in Entry /\ fds'[i].sock = fds[i].sock
  BY <1>1 DEF Entry
<1>3. fds' \in Seq(Entry) /\ Len(fds') = Len(fds) /\ DOMAIN fds' = DOMAIN fds
  BY <1>1, <1>2
<1>4. Placed' = Placed
  BY <1>1, <1>2, <1>3 DEF Placed
<1>5. fds'[1].sock = fds[1].sock
  BY <1>1, <1>2, FdsFacts
<1>6. \A i, j \in DOMAIN fds' : fds'[i].sock = fds'[j].sock => i = j
  BY <1>1, <1>2, <1>3 DEF PollInv
<1>7. life' \in [Sock -> {"new", "backlog", "open", "gone"}] /\ clients' = {s \in Sock : life'[s] = "open"}
  BY DEF PollInv
<1>8. Len(fds') >= 1 /\ fds'[1].sock = Listener /\ Placed' = clients' \cup {Listener}
  BY <1>3, <1>4, <1>5 DEF PollInv
<1> QED BY <1>3, <1>6, <1>7, <1>8 DEF PollInv

LEMMA PollUntouched ==
  ASSUME PollInv, UNCHANGED <<fds, clients, polled>>, it' \in Nat,
         stage' \in {"idle", "read", "write", "drop"} \/ stage' = stage,
         life' \in [Sock -> {"new", "backlog", "open", "gone"}],
         \A s \in Sock : life'[s] = "open" <=> life[s] = "open"
  PROVE  PollInv'
<1>1. Placed' = Placed
  BY DEF Placed
<1>2. stage' = "polling" => stage = "polling"
  OBVIOUS
<1>3. clients' = {s \in Sock : life'[s] = "open"}
  BY DEF PollInv
<1> QED BY <1>1, <1>2, <1>3 DEF PollInv, Unlocked

\* An accepted client gets the last place, or is disconnected before it gets one.
LEMMA AcceptPlaces ==
  ASSUME PollInv, NEW s \in Sock, life[s] = "backlog", Accept(s), it' \in Nat,
         UNCHANGED <<stage, polled>>, stage = "read"
  PROVE  PollInv'
<1>1. CASE DisconnectClient(s)
  BY <1>1, DisconnectPlaces DEF PollInv
<1>2. CASE /\ life' = [life EXCEPT ![s] = "open"]
           /\ clients' = clients \cup {s}
           /\ fds' = Append(fds, [sock |-> s, rev |-> {}])
  <2> DEFINE e == [sock |-> s, rev |-> {}]
             top == Len(fds) + 1
  <2>1. e \in Entry /\ e.sock = s
    BY DEF Entry
  <2> HIDE DEF e
  <2>2. /\ fds' \in Seq(Entry) /\ Len(fds') = top /\ fds'[top] = e
        /\ \A i \in 1..Len(fds) : fds'[i] = fds[i]
    BY <1>2, <2>1, AppendProperties DEF PollInv, e
  <2>3. Len(fds) \in Nat /\ DOMAIN fds = 1..Len(fds) /\ 1 \in DOMAIN fds
    BY FdsFacts
  <2>4. DOMAIN fds' = DOMAIN fds \cup {top} /\ top \notin DOMAIN fds
    <3>1. DOMAIN fds' = 1..Len(fds')
      BY <2>2, LenProperties
    <3> QED BY <2>2, <2>3, <3>1
  <2>5. s \notin Placed
    BY ListenerAssumption DEF PollInv
  <2>6. \A i \in DOMAIN fds : fds'[i].sock = fds[i].sock /\ fds'[i].sock # s
    BY <2>2, <2>3, <2>5 DEF Placed
  <2>7. Placed' = Placed \cup {s}
    BY <2>1, <2>2, <2>4, <2>6 DEF Placed
  <2>8. \A i, j \in DOMAIN fds' : fds'[i].sock = fds'[j].sock => i = j
    BY <2>1, <2>2, <2>4, <2>6 DEF PollInv
  <2>9. /\ life' \in [Sock -> {"new", "backlog", "open", "gone"}]
        /\ clients' = {t \in Sock : life'[t] = "open"}
    BY <1>2 DEF PollInv
  <2>10. Len(fds') >= 1 /\ fds'[1].sock = Listener
    BY <2>2, <2>3, <2>6 DEF PollInv
  <2>11. Placed' = clients' \cup {Listener}
    BY <1>2, <2>7 DEF PollInv
  <2> QED BY <2>2, <2>8, <2>9, <2>10, <2>11 DEF PollInv
<1> QED BY <1>1, <1>2 DEF Accept

LEMMA PollInit == Init => PollInv
<1> SUFFICES ASSUME Init PROVE PollInv
  OBVIOUS
<1>1. /\ fds \in Seq(Entry) /\ Len(fds) = 1 /\ DOMAIN fds = {1} /\ fds[1].sock = Listener
  BY DEF Init, Entry
<1>2. Placed = {Listener}
  BY <1>1 DEF Placed
<1>3. clients = {s \in Sock : life[s] = "open"} /\ clients = {}
  BY DEF Init
<1>4. stage = "idle" /\ it \in Nat /\ polled \in Seq(Sock \cup {Listener})
  BY DEF Init
<1>5. life \in [Sock -> {"new", "backlog", "open", "gone"}]
  BY DEF Init
<1> QED BY <1>1, <1>2, <1>3, <1>4, <1>5 DEF PollInv, Unlocked

LEMMA PollStep == ASSUME PollInv, [Next]_vars PROVE PollInv'
<1>1. ASSUME StartPoll PROVE PollInv'
  <2>1. polled' \in Seq(Sock \cup {Listener}) /\ Len(polled') = Len(fds)
    BY <1>1, FdsFacts DEF StartPoll
  <2>2. UNCHANGED <<fds, clients, it, life>> /\ Placed' = Placed /\ stage' = "polling"
    BY <1>1 DEF StartPoll, connection, Placed
  <2>3. Len(fds') <= Len(polled')
    BY <2>1, <2>2, FdsFacts
  <2> QED BY <2>1, <2>2, <2>3 DEF PollInv, Unlocked
<1>2. ASSUME PollReturns PROVE PollInv'
  <2>1. PICK rev \in [1..Len(polled) -> SUBSET Flag] :
          /\ fds' = [i \in 1..Len(fds) |-> [fds[i] EXCEPT !.rev = rev[i]]]
          /\ stage' = "idle" \/ stage' = "returned"
    BY <1>2 DEF PollReturns
  <2>2. \A i \in DOMAIN fds : rev[i] \in SUBSET Flag
    <3>1. Len(fds) <= Len(polled) /\ Len(polled) \in Nat
      BY <1>2, LenProperties DEF PollReturns, PollInv
    <3> QED BY <3>1, FdsFacts
  <2>3. UNCHANGED <<clients, life, it>> /\ polled' \in Seq(Sock \cup {Listener})
    BY <1>2 DEF PollReturns, connection
  <2> QED BY <2>1, <2>2, <2>3, SamePlaces DEF Unlocked, PollInv
<1>3. ASSUME EnterPass \/ EndPass PROVE PollInv'
  BY <1>3, PollUntouched DEF EnterPass, EndPass, connection, PollInv
<1>4. ASSUME VisitListener PROVE PollInv'
  <2>1. CASE "in" \in fds[1].rev
    <3>1. PICK s \in Sock : life[s] = "backlog" /\ Accept(s)
      BY <1>4, <2>1 DEF VisitListener
    <3>2. it' \in Nat /\ UNCHANGED <<stage, polled>> /\ stage = "read"
      BY <1>4 DEF VisitListener
    <3> QED BY <3>1, <3>2, AcceptPlaces
  <2>2. CASE "in" \notin fds[1].rev
    BY <1>4, <2>2, PollUntouched DEF VisitListener, connection, PollInv
  <2> QED BY <2>1, <2>2
<1>5. ASSUME NEW s \in Sock, VisitReadable(s) \/ VisitWritable(s) PROVE PollInv'
  <2>1. /\ UNCHANGED <<clients, life, it, polled>> /\ stage' \in {"write", "drop"}
        /\ it \in DOMAIN fds /\ it \in Nat
    BY <1>5, FdsFacts DEF VisitReadable, VisitWritable, Visiting, PollInv
  <2>2. CASE fds' = fds
    BY <2>1, <2>2, PollUntouched DEF PollInv
  <2>3. CASE fds' = [fds EXCEPT ![it].rev = @ \cup {"err"}]
    <3> DEFINE rev == [i \in DOMAIN fds |-> IF i = it THEN fds[i].rev \cup {"err"} ELSE fds[i].rev]
    <3>1. \A i \in DOMAIN fds : rev[i] \in SUBSET Flag
      BY FdsFacts DEF Flag
    <3>2. fds' = [i \in 1..Len(fds) |-> [fds[i] EXCEPT !.rev = rev[i]]]
      <4>1. \A i \in DOMAIN fds : fds[i] = [fds[i] EXCEPT !.rev = fds[i].rev]
        BY FdsFacts DEF Entry
      <4> QED BY <2>1, <2>3, <4>1, FdsFacts
    <3> HIDE DEF rev
    <3> QED BY <2>1, <3>1, <3>2, SamePlaces DEF PollInv
  <2> QED BY <1>5, <2>2, <2>3 DEF VisitReadable, VisitWritable, SendFirst
<1>6. ASSUME NEW s \in Sock, VisitBroken(s) PROVE PollInv'
  <2>1. stage' = "read" /\ polled' = polled /\ it \in Nat
    BY <1>6 DEF VisitBroken, PollInv
  <2>2. CASE "err" \in fds[it].rev
    <3>1. DisconnectClient(s) /\ it' = 2
      BY <1>6, <2>2 DEF VisitBroken
    <3> QED BY <2>1, <3>1, DisconnectPlaces DEF PollInv
  <2>3. CASE "err" \notin fds[it].rev
    <3>1. it' = it + 1 /\ UNCHANGED <<fds, clients, connection>>
      BY <1>6, <2>3 DEF VisitBroken
    <3> QED BY <2>1, <3>1, PollUntouched DEF connection, PollInv
  <2> QED BY <2>2, <2>3
<1>7. ASSUME NEW s \in Sock, HandlerDisconnects(s) PROVE PollInv'
  <2>1. DisconnectClient(s) /\ UNCHANGED <<stage, it, polled>>
    BY <1>7 DEF HandlerDisconnects, listen
  <2>2. stage' = "polling" => Len(fds') <= Len(polled')
    <3>1. Len(fds') <= Len(fds) /\ fds' \in Seq(Entry)
      BY <2>1, DisconnectPlaces
    <3>2. Len(fds') \in Nat /\ Len(fds) \in Nat /\ Len(polled) \in Nat
      BY <3>1, LenProperties DEF PollInv
    <3> QED BY <2>1, <3>1, <3>2 DEF PollInv
  <2> QED BY <2>1, <2>2, DisconnectPlaces DEF PollInv
<1>8. ASSUME NEW s \in Sock, Connect(s) \/ Arrive(s) \/ Hang(s) \/ HandlerSends(s) PROVE PollInv'
  <2>1. UNCHANGED <<fds, clients, stage, it, polled>>
    BY <1>8 DEF Connect, Arrive, Hang, HandlerSends, listen
  <2>2. /\ life' \in [Sock -> {"new", "backlog", "open", "gone"}]
        /\ \A t \in Sock : life'[t] = "open" <=> life[t] = "open"
    BY <1>8 DEF Connect, Arrive, Hang, HandlerSends, PollInv
  <2> QED BY <2>1, <2>2, PollUntouched DEF PollInv
<1>9. ASSUME UNCHANGED vars PROVE PollInv'
  BY <1>9, PollUntouched DEF vars, listen, connection, PollInv
<1> QED BY <1>1, <1>2, <1>3, <1>4, <1>5, <1>6, <1>7, <1>8, <1>9 DEF Next, Listen

\* The poll array is the listening socket, first, and the connected clients, each once,
\* whatever handlers disconnect during a poll and the pass disconnects during its walk.
THEOREM PollSetCorrect == Spec => []PollSetIsClients
<1>1. PollInv /\ [Next]_vars => PollInv'
  BY PollStep
<1>2. PollInv => PollSetIsClients
  <2>1. SUFFICES ASSUME PollInv PROVE PollSetIsClients
    OBVIOUS
  <2>2. Len(fds) \in Nat /\ DOMAIN fds = 1..Len(fds) /\ 1 \in DOMAIN fds
    BY <2>1, FdsFacts
  <2>3. IsInjective([i \in DOMAIN fds |-> fds[i].sock])
    BY <2>1 DEF PollInv, IsInjective
  <2>4. {fds[i].sock : i \in 2..Len(fds)} = clients
    <3>1. 2..Len(fds) = DOMAIN fds \ {1}
      BY <2>2
    <3>2. {fds[i].sock : i \in DOMAIN fds \ {1}} = Placed \ {Listener}
      BY <2>1, <2>2 DEF PollInv, Placed
    <3>3. Listener \notin clients
      BY <2>1, ListenerAssumption DEF PollInv
    <3> QED BY <2>1, <3>1, <3>2, <3>3 DEF PollInv
  <2> QED BY <2>1, <2>3, <2>4 DEF PollSetIsClients, PollInv
<1> QED BY <1>1, <1>2, PollInit, PTL DEF Spec

-----------------------------------------------------------------------------
(***************************************************************************)
(* Streams                                                                 *)
(***************************************************************************)

\* The accounts of the stream of client s: the packet that is being received counts as valid
\* from its header on.
Accounted(s) ==
  /\ sent[s] = inbox[s] + part[s] + handed[s] * Packet
  /\ ~Invalid(s, handed[s])
  /\ part[s] # 0 => ~Invalid(s, handed[s] + 1)

StreamInv ==
  /\ sent \in [Sock -> Nat] /\ inbox \in [Sock -> Nat]
  /\ part \in [Sock -> 0..(Packet - 1)] /\ handed \in [Sock -> Nat]
  /\ \A s \in Sock :
       /\ life[s] \in {"new", "backlog"} => sent[s] = inbox[s] /\ part[s] = 0 /\ handed[s] = 0
       /\ life[s] = "open" => Accounted(s)

LEMMA PacketLength == Packet \in Nat /\ Packet > 0 /\ Header \in Nat
BY LengthAssumption DEF Packet

LEMMA OneMore == ASSUME NEW n \in Nat PROVE (n + 1) * Packet = n * Packet + Packet /\ n * Packet \in Nat
BY PacketLength

\* No client has an invalid packet before its first.
LEMMA NothingInvalidYet == ASSUME NEW s \in Sock PROVE ~Invalid(s, 0)
BY ClientAssumption DEF Invalid

LEMMA StreamUntouched ==
  ASSUME StreamInv, UNCHANGED <<sent, inbox, part, handed>>,
         \A s \in Sock : life'[s] \in {"new", "backlog"} => life[s] \in {"new", "backlog"},
         \A s \in Sock : life'[s] = "open" => life[s] \in {"open", "backlog"}
  PROVE  StreamInv'
<1>1. ASSUME NEW s \in Sock, life'[s] = "open" PROVE Accounted(s)'
  <2>1. CASE life[s] = "open"
    BY <2>1 DEF StreamInv, Accounted
  <2>2. CASE life[s] = "backlog"
    <3>1. sent[s] = inbox[s] /\ part[s] = 0 /\ handed[s] = 0 /\ inbox[s] \in Nat
      BY <2>2 DEF StreamInv
    <3>2. inbox[s] + 0 + 0 * Packet = inbox[s]
      BY <3>1, PacketLength
    <3> QED BY <3>1, <3>2, NothingInvalidYet DEF Accounted
  <2> QED BY <1>1, <2>1, <2>2
<1> QED BY <1>1 DEF StreamInv

\* The stream of a socket that is deleted is forgotten, at both ends or at the server's only.
LEMMA DeleteStream ==
  ASSUME StreamInv, NEW s \in Sock, life \in [Sock -> {"new", "backlog", "open", "gone"}],
         DeleteSocket(s)
  PROVE  StreamInv'
<1>1. /\ part' = [part EXCEPT ![s] = 0] /\ handed' = [handed EXCEPT ![s] = 0]
      /\ life' = [life EXCEPT ![s] = "gone"]
      /\ \/ sent' = sent /\ inbox' = inbox
         \/ sent' = [sent EXCEPT ![s] = 0] /\ inbox' = [inbox EXCEPT ![s] = 0]
  BY DEF DeleteSocket, network
<1>2. /\ sent' \in [Sock -> Nat] /\ inbox' \in [Sock -> Nat]
      /\ part' \in [Sock -> 0..(Packet - 1)] /\ handed' \in [Sock -> Nat]
  <2>1. 0 \in 0..(Packet - 1)
    BY PacketLength
  <2> QED BY <1>1, <2>1 DEF StreamInv
<1>3. ASSUME NEW t \in Sock, t # s
      PROVE  /\ sent'[t] = sent[t] /\ inbox'[t] = inbox[t] /\ part'[t] = part[t]
             /\ handed'[t] = handed[t] /\ life'[t] = life[t]
  BY <1>1, <1>3 DEF StreamInv
<1>4. life'[s] = "gone"
  BY <1>1
<1>5. ASSUME NEW t \in Sock
      PROVE  /\ life'[t] \in {"new", "backlog"} =>
                  sent'[t] = inbox'[t] /\ part'[t] = 0 /\ handed'[t] = 0
             /\ life'[t] = "open" => Accounted(t)'
  <2>1. CASE t = s
    BY <1>4, <2>1
  <2>2. CASE t # s
    BY <1>3, <2>2 DEF StreamInv, Accounted
  <2> QED BY <2>1, <2>2
<1> QED BY <1>2, <1>5 DEF StreamInv

\* What is received moves from the network into the packet, and from there to its handler.
LEMMA ReceiveStream ==
  ASSUME StreamInv, NEW s \in Sock, life[s] = "open", ~ReadFails(s), Receive(s),
         UNCHANGED <<life, sent>>
  PROVE  StreamInv'
<1> DEFINE n == IF inbox[s] < Packet - part[s] THEN inbox[s] ELSE Packet - part[s]
<1>1. /\ sent[s] \in Nat /\ inbox[s] \in Nat /\ part[s] \in 0..(Packet - 1) /\ handed[s] \in Nat
      /\ Accounted(s)
  BY DEF StreamInv
<1>2. n \in Nat /\ n <= inbox[s] /\ part[s] + n <= Packet
  BY <1>1, PacketLength
<1>3. /\ inbox' = [inbox EXCEPT ![s] = @ - n]
      /\ part' = [part EXCEPT ![s] = IF part[s] + n = Packet THEN 0 ELSE @ + n]
      /\ handed' = [handed EXCEPT ![s] = IF part[s] + n = Packet THEN @ + 1 ELSE @]
  BY DEF Receive
<1>4. ~Invalid(s, handed[s] + 1)
  BY <1>1 DEF ReadFails, Accounted
<1> HIDE DEF n
<1>5. /\ inbox'[s] = inbox[s] - n
      /\ part'[s] = IF part[s] + n = Packet THEN 0 ELSE part[s] + n
      /\ handed'[s] = IF part[s] + n = Packet THEN handed[s] + 1 ELSE handed[s]
  BY <1>3 DEF StreamInv
<1>6. /\ inbox'[s] \in Nat /\ part'[s] \in 0..(Packet - 1) /\ handed'[s] \in Nat
  BY <1>1, <1>2, <1>5, PacketLength
<1>7. /\ sent' \in [Sock -> Nat] /\ inbox' \in [Sock -> Nat]
      /\ part' \in [Sock -> 0..(Packet - 1)] /\ handed' \in [Sock -> Nat]
  BY <1>3, <1>6 DEF StreamInv
<1>8. Accounted(s)'
  <2>1. sent[s] = inbox[s] + part[s] + handed[s] * Packet
    BY <1>1 DEF Accounted
  <2>2. CASE part[s] + n = Packet
    <3>1. inbox'[s] = inbox[s] - n /\ part'[s] = 0 /\ handed'[s] = handed[s] + 1
      BY <1>5, <2>2
    <3>2. (handed[s] + 1) * Packet = handed[s] * Packet + Packet /\ handed[s] * Packet \in Nat
      BY <1>1, OneMore
    <3>3. sent[s] = (inbox[s] - n) + 0 + (handed[s] + 1) * Packet
      BY <1>1, <1>2, <2>1, <2>2, <3>2, PacketLength
    <3> QED BY <1>4, <3>1, <3>3 DEF Accounted
  <2>3. CASE part[s] + n # Packet
    <3>1. inbox'[s] = inbox[s] - n /\ part'[s] = part[s] + n /\ handed'[s] = handed[s]
      BY <1>5, <2>3
    <3>2. handed[s] * Packet \in Nat
      BY <1>1, OneMore
    <3>3. sent[s] = (inbox[s] - n) + (part[s] + n) + handed[s] * Packet
      BY <1>1, <1>2, <2>1, <3>2
    <3>4. ~Invalid(s, handed[s])
      BY <1>1 DEF Accounted
    <3> QED BY <1>4, <3>1, <3>3, <3>4 DEF Accounted
  <2> QED BY <2>2, <2>3
<1>9. ASSUME NEW t \in Sock, t # s
      PROVE  inbox'[t] = inbox[t] /\ part'[t] = part[t] /\ handed'[t] = handed[t]
  BY <1>3, <1>9 DEF StreamInv
<1>10. ASSUME NEW t \in Sock
       PROVE  /\ life'[t] \in {"new", "backlog"} =>
                   sent'[t] = inbox'[t] /\ part'[t] = 0 /\ handed'[t] = 0
              /\ life'[t] = "open" => Accounted(t)'
  <2>1. CASE t = s
    BY <1>8, <2>1
  <2>2. CASE t # s
    BY <1>9, <2>2 DEF StreamInv, Accounted
  <2> QED BY <2>1, <2>2
<1> QED BY <1>7, <1>10 DEF StreamInv

LEMMA ArriveStream == ASSUME StreamInv, NEW s \in Sock, Arrive(s) PROVE StreamInv'
<1> DEFINE n == IF WholePackets THEN Packet ELSE 1
<1>1. /\ sent' = [sent EXCEPT ![s] = @ + n] /\ inbox' = [inbox EXCEPT ![s] = @ + n]
      /\ UNCHANGED <<life, part, handed>> /\ n \in Nat
  BY PacketLength DEF Arrive, socket
<1> HIDE DEF n
<1>2. /\ sent[s] \in Nat /\ inbox[s] \in Nat /\ part[s] \in 0..(Packet - 1) /\ handed[s] \in Nat
  BY DEF StreamInv
<1>3. sent' \in [Sock -> Nat] /\ inbox' \in [Sock -> Nat]
  BY <1>1, <1>2 DEF StreamInv
<1>4. sent'[s] = sent[s] + n /\ inbox'[s] = inbox[s] + n
  BY <1>1 DEF StreamInv
<1>5. ASSUME NEW t \in Sock, t # s PROVE sent'[t] = sent[t] /\ inbox'[t] = inbox[t]
  BY <1>1, <1>5 DEF StreamInv
<1>6. ASSUME NEW t \in Sock
      PROVE  /\ life'[t] \in {"new", "backlog"} =>
                  sent'[t] = inbox'[t] /\ part'[t] = 0 /\ handed'[t] = 0
             /\ life'[t] = "open" => Accounted(t)'
  <2>1. CASE t = s
    <3>1. ASSUME life[s] = "open" PROVE Accounted(s)'
      <4>1. handed[s] * Packet \in Nat
        BY <1>2, OneMore
      <4>2. Accounted(s)
        BY <3>1 DEF StreamInv
      <4>3. sent[s] + n = (inbox[s] + n) + part[s] + handed[s] * Packet
        BY <1>1, <1>2, <4>1, <4>2 DEF Accounted
      <4> QED BY <1>1, <1>4, <4>2, <4>3 DEF Accounted
    <3>2. life[s] \in {"new", "backlog"} => sent'[s] = inbox'[s] /\ part'[s] = 0 /\ handed'[s] = 0
      BY <1>1, <1>4 DEF StreamInv
    <3> QED BY <1>1, <2>1, <3>1, <3>2
  <2>2. CASE t # s
    BY <1>1, <1>5, <2>2 DEF StreamInv, Accounted
  <2> QED BY <2>1, <2>2
<1> QED BY <1>1, <1>3, <1>6 DEF StreamInv

LEMMA StreamInit == Init => StreamInv
<1> SUFFICES ASSUME Init PROVE StreamInv
  OBVIOUS
<1>1. 0 \in 0..(Packet - 1)
  BY PacketLength
<1>2. \A s \in Sock : life[s] = "new" /\ sent[s] = 0 /\ inbox[s] = 0 /\ part[s] = 0 /\ handed[s] = 0
  BY DEF Init
<1>3. /\ sent \in [Sock -> Nat] /\ inbox \in [Sock -> Nat]
      /\ part \in [Sock -> 0..(Packet - 1)] /\ handed \in [Sock -> Nat]
  BY <1>1 DEF Init
<1> QED BY <1>2, <1>3 DEF StreamInv

LEMMA StreamStep == ASSUME PollInv, StreamInv, [Next]_vars PROVE StreamInv'
<1>0. life \in [Sock -> {"new", "backlog", "open", "gone"}]
  BY DEF PollInv
<1>1. ASSUME StartPoll \/ PollReturns \/ EnterPass \/ EndPass PROVE StreamInv'
  BY <1>1, StreamUntouched DEF StartPoll, PollReturns, EnterPass, EndPass, connection, network, socket
<1>2. ASSUME VisitListener PROVE StreamInv'
  <2>1. CASE UNCHANGED connection
    BY <2>1, StreamUntouched DEF connection, network, socket
  <2>2. ASSUME NEW s \in Sock, life[s] = "backlog", Accept(s) PROVE StreamInv'
    <3>1. CASE DisconnectClient(s)
      BY <1>0, <3>1, DeleteStream DEF DisconnectClient
    <3>2. CASE life' = [life EXCEPT ![s] = "open"] /\ UNCHANGED <<network, socket>>
      BY <1>0, <2>2, <3>2, StreamUntouched DEF network, socket
    <3> QED BY <2>2, <3>1, <3>2 DEF Accept
  <2> QED BY <1>2, <2>1, <2>2 DEF VisitListener
<1>3. ASSUME NEW s \in Sock, VisitReadable(s) PROVE StreamInv'
  <2>1. UNCHANGED <<life, sent>>
    BY <1>3 DEF VisitReadable
  <2>2. life[s] = "open"
    <3>1. it \in DOMAIN fds /\ it # 1 /\ fds[it].sock = s
      BY <1>3, FdsFacts DEF VisitReadable, Visiting
    <3>2. s \in Placed /\ s # Listener
      BY <3>1, ListenerAssumption DEF Placed
    <3> QED BY <3>2 DEF PollInv
  <2>3. CASE ~ReadFails(s) /\ Receive(s)
    BY <2>1, <2>2, <2>3, ReceiveStream
  <2>4. CASE UNCHANGED <<inbox, part, handed>>
    BY <2>1, <2>4, StreamUntouched
  <2> QED BY <1>3, <2>3, <2>4 DEF VisitReadable
<1>4. ASSUME NEW s \in Sock, VisitWritable(s) PROVE StreamInv'
  BY <1>4, StreamUntouched DEF VisitWritable, network
<1>5. ASSUME NEW s \in Sock, VisitBroken(s) PROVE StreamInv'
  <2>1. CASE UNCHANGED connection
    BY <2>1, StreamUntouched DEF connection, network, socket
  <2>2. CASE DisconnectClient(s)
    BY <1>0, <2>2, DeleteStream DEF DisconnectClient
  <2> QED BY <1>5, <2>1, <2>2 DEF VisitBroken
<1>6. ASSUME NEW s \in Sock, HandlerDisconnects(s) PROVE StreamInv'
  BY <1>0, <1>6, DeleteStream DEF HandlerDisconnects, DisconnectClient
<1>7. ASSUME NEW s \in Sock, Connect(s) PROVE StreamInv'
  <2>1. /\ life[s] = "new" /\ life' = [life EXCEPT ![s] = "backlog"]
        /\ UNCHANGED <<sent, inbox, part, handed>>
    BY <1>7 DEF Connect, network, socket
  <2> QED BY <1>0, <2>1, StreamUntouched
<1>8. ASSUME NEW s \in Sock, Hang(s) \/ HandlerSends(s) PROVE StreamInv'
  BY <1>8, StreamUntouched DEF Hang, HandlerSends, network, socket
<1>9. ASSUME UNCHANGED vars PROVE StreamInv'
  BY <1>9, StreamUntouched DEF vars, connection, network, socket
<1> QED BY <1>1, <1>2, <1>3, <1>4, <1>5, <1>6, <1>7, <1>8, <1>9, ArriveStream DEF Next, Listen

\* However the network cuts a stream and whatever else a pass does, no unit of it is lost,
\* counted twice or taken for another packet's, and no invalid packet is handed over.
THEOREM StreamsAreExact == Spec => []StreamPosition
<1>1. PollInv /\ StreamInv /\ [Next]_vars => (PollInv /\ StreamInv)'
  BY PollStep, StreamStep
<1>2. PollInv /\ StreamInv => StreamPosition
  BY DEF PollInv, StreamInv, Accounted, StreamPosition
<1> QED BY <1>1, <1>2, PollInit, StreamInit, PTL DEF Spec
=============================================================================
