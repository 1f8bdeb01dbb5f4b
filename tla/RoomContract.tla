---------------------------- MODULE RoomContract ----------------------------
(***************************************************************************)
(* What the lobby promises about rooms, with no channel, pool, settings or *)
(* ready status: a user is in at most one room, a room with users has one  *)
(* owner, who is inside and hands the role on only by leaving, and a match *)
(* runs in a room from its start until it ends or the room empties.        *)
(***************************************************************************)
EXTENDS FiniteSets

CONSTANTS User, Room, NoUser, NoRoom

VARIABLES
  where,    \* the room each user is in
  owner,    \* the owner of each room
  running   \* whether a match runs in the room

cvars == <<where, owner, running>>

Occupants(r) == {u \in User : where[u] = r}

Init ==
  /\ where = [u \in User |-> NoRoom]
  /\ owner = [r \in Room |-> NoUser]
  /\ running = [r \in Room |-> FALSE]

Create(u, r) ==
  /\ where[u] = NoRoom /\ Occupants(r) = {}
  /\ where' = [where EXCEPT ![u] = r]
  /\ owner' = [owner EXCEPT ![r] = u]
  /\ UNCHANGED running

Enter(u, r) ==
  /\ where[u] = NoRoom /\ Occupants(r) # {}
  /\ where' = [where EXCEPT ![u] = r]
  /\ UNCHANGED <<owner, running>>

\* A guest's leaving changes nothing else.
GuestLeaves(u) ==
  /\ where[u] # NoRoom /\ owner[where[u]] # u
  /\ where' = [where EXCEPT ![u] = NoRoom]
  /\ UNCHANGED <<owner, running>>

\* The owner's leaving passes the role to somebody inside; the match may end with it.
OwnerLeaves(u) ==
  LET r == where[u]
  IN  /\ r # NoRoom /\ owner[r] = u
      /\ where' = [where EXCEPT ![u] = NoRoom]
      /\ IF Occupants(r) = {u}
           THEN /\ owner' = [owner EXCEPT ![r] = NoUser]
                /\ running' = [running EXCEPT ![r] = FALSE]
           ELSE /\ \E o \in Occupants(r) \ {u} : owner' = [owner EXCEPT ![r] = o]
                /\ \E b \in {FALSE, running[r]} : running' = [running EXCEPT ![r] = b]

Start(r) ==
  /\ Occupants(r) # {} /\ ~running[r]
  /\ running' = [running EXCEPT ![r] = TRUE]
  /\ UNCHANGED <<where, owner>>

\* Matches end on their own, all at once, or with their server.
Stop(rs) ==
  /\ \A r \in rs : running[r]
  /\ running' = [r \in Room |-> running[r] /\ r \notin rs]
  /\ UNCHANGED <<where, owner>>

Next ==
  \/ \E u \in User : GuestLeaves(u) \/ OwnerLeaves(u)
  \/ \E u \in User, r \in Room : Create(u, r) \/ Enter(u, r)
  \/ \E r \in Room : Start(r)
  \/ \E rs \in SUBSET Room : Stop(rs)

Spec == Init /\ [][Next]_cvars
=============================================================================
