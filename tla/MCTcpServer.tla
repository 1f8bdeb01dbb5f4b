------------------------------ MODULE MCTcpServer ------------------------------
(* Instances of TcpServer for TLC. *)
EXTENDS TcpServer

CONSTANTS s1, s2

\* One client sends two packets, the other one none.
TwoPackets == [s \in Sock |-> IF s = s1 THEN 2 ELSE 0]

\* Each client sends one packet.
OnePacket == [s \in Sock |-> 1]
=============================================================================
