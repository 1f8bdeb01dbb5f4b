------------------------------ MODULE MCAccounts ------------------------------
(* Instances of Accounts for TLC. *)
EXTENDS Accounts

CONSTANTS s1, s2, s3, s4, local, other, third, ada, bob

OneAddress == [s \in Sock |-> "a"]
\* One account is banned at a time.
OneBan == Cardinality(banned) <= 1
Sockets == Permutations(Player)

=============================================================================
