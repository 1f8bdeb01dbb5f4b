------------------------------ MODULE ClansProofs ------------------------------
(***************************************************************************)
(* Theorems about Clans, for any users, items, slots and marks and any     *)
(* bounds, with failing statements and restarts at every step: the number  *)
(* of members, the clan of a member's character and the number of copies   *)
(* of an item.                                                             *)
(*                                                                         *)
(* The first two hold between requests only.  Within one, what is still    *)
(* wrong is what the statements left will put right, so the invariant says *)
(* for each sequence of statements what they owe (Books).                  *)
(***************************************************************************)
EXTENDS Clans, FiniteSetTheorems, SequenceTheorems, TLAPS

(***************************************************************************)
(* What the books of a clan owe                                            *)
(***************************************************************************)

\* The count of clan due is wrong by owed; the others' are right.
CountsBut(due, owed) ==
  \A c \in Clan \ torn :
    clan[c].count + (IF c = due THEN owed ELSE 0) = Cardinality(Members(c))

\* The characters of members name their clans, but for those in W.
NamesBut(W) == \A u \in DOMAIN member : u \notin torn \cup W => names[u] = ClanOf(u)

Balanced == CountsBut(0, 0) /\ NamesBut({})

Idle == todo = <<>> /\ Balanced

Naming(u, c) ==
  /\ todo = <<Name(u, c)>>
  /\ IsMember(u) => ClanOf(u) = c
  /\ CountsBut(0, 0) /\ NamesBut({u})

Entering(u, c) ==
  /\ todo = <<Count(c, u), Name(u, c)>>
  /\ IsMember(u) /\ ClanOf(u) = c
  /\ CountsBut(c, 1) /\ NamesBut({u})

Leaving(u, c) ==
  /\ todo \in {<<Uncount(c, u), Name(u, 0)>>, <<Uncount(c, u)>>}
  /\ ~IsMember(u)
  /\ CountsBut(c, -1) /\ NamesBut({})

Approving(u, c) == todo = Approval(u, c) /\ Balanced

Delegating(u, c) ==
  /\ todo = <<[do |-> "demote", clan |-> c, user |-> u, by |-> 0]>>
  /\ IsMember(u)
  /\ Balanced

Handling(u, c) ==
  Naming(u, c) \/ Entering(u, c) \/ Leaving(u, c) \/ Approving(u, c) \/ Delegating(u, c)

Books ==
  \/ Idle
  \/ \E u \in User : Naming(u, 0)
  \/ \E u \in User : \E c \in Clan : Handling(u, c)

ClanRow == [count : Int, join : 0..3, mark : Mark \cup {NoMark}, marks : Nat]

Rows ==
  /\ next \in Nat \ {0} /\ \A c \in Clan : c \in 1..next - 1
  /\ \A c \in Clan : clan[c] \in ClanRow
  /\ DOMAIN member \subseteq User
  /\ \A u \in DOMAIN member : member[u] \in [clan : Clan, grade : 0..3]
  /\ DOMAIN request \subseteq User /\ \A u \in DOMAIN request : request[u] \in Clan
  /\ names \in [User -> Nat]
  /\ stored \in [Clan -> [Slot -> Item \cup {NoItem}]]
  /\ own \in [User -> SUBSET Item]

ClanInv == Rows /\ Books

(***************************************************************************)
(* Members                                                                 *)
(***************************************************************************)

LEMMA MembersFinite ==
  ASSUME Rows, NEW c
  PROVE  IsFiniteSet(Members(c)) /\ Cardinality(Members(c)) \in Nat
<1>1. Members(c) \subseteq User
  BY DEF Rows, Members
<1>2. IsFiniteSet(Members(c))
  BY <1>1, FS_Subset, FiniteAssumption
<1> QED BY <1>2, FS_CardinalityType

\* A new member counts one more in the clan and changes no other.
LEMMA MemberAdded ==
  ASSUME Rows, NEW u \in User, ~IsMember(u), NEW c, NEW grade,
         member' = Put(member, u, [clan |-> c, grade |-> grade])
  PROVE  /\ \A d : d # c => Members(d)' = Members(d)
         /\ Cardinality(Members(c)') = Cardinality(Members(c)) + 1
         /\ DOMAIN member' = DOMAIN member \cup {u}
         /\ \A v \in DOMAIN member : member'[v] = member[v]
         /\ member'[u] = [clan |-> c, grade |-> grade]
<1>1. DOMAIN member' = DOMAIN member \cup {u}
  BY DEF Put
<1>2. \A v \in DOMAIN member : member'[v] = member[v]
  BY DEF Put, IsMember
<1>3. member'[u] = [clan |-> c, grade |-> grade]
  BY DEF Put
<1>4. \A d : d # c => Members(d)' = Members(d)
  BY <1>1, <1>2, <1>3 DEF Members, IsMember
<1>5. Members(c)' = Members(c) \cup {u} /\ u \notin Members(c)
  BY <1>1, <1>2, <1>3 DEF Members, IsMember
<1>6. Cardinality(Members(c) \cup {u}) = Cardinality(Members(c)) + 1
  BY <1>5, MembersFinite, FS_AddElement
<1> QED BY <1>1, <1>2, <1>3, <1>4, <1>5, <1>6

\* A member who goes counts one less.
LEMMA MemberRemoved ==
  ASSUME Rows, NEW u \in DOMAIN member, NEW c, c = ClanOf(u), member' = Drop(member, {u})
  PROVE  /\ \A d : d # c => Members(d)' = Members(d)
         /\ Cardinality(Members(c)') = Cardinality(Members(c)) - 1
         /\ DOMAIN member' = DOMAIN member \ {u}
         /\ \A v \in DOMAIN member' : member'[v] = member[v]
<1>1. DOMAIN member' = DOMAIN member \ {u}
  BY DEF Drop
<1>2. \A v \in DOMAIN member' : member'[v] = member[v]
  BY DEF Drop
<1>3. \A d : d # c => Members(d)' = Members(d)
  BY <1>1, <1>2 DEF Members, ClanOf
<1>4. Members(c)' = Members(c) \ {u} /\ u \in Members(c)
  BY <1>1, <1>2 DEF Members, ClanOf
<1>5. Cardinality(Members(c) \ {u}) = Cardinality(Members(c)) - 1
  BY <1>4, MembersFinite, FS_RemoveElement
<1> QED BY <1>1, <1>2, <1>3, <1>4, <1>5

\* The clans of members and what their characters name, both unchanged.
LEMMA SameMembers ==
  ASSUME DOMAIN member' = DOMAIN member,
         \A u \in DOMAIN member : member'[u].clan = member[u].clan
  PROVE  /\ \A c : Members(c)' = Members(c)
         /\ \A u \in DOMAIN member : ClanOf(u)' = ClanOf(u)
BY DEF Members, ClanOf

\* A request that changes no member's clan, no count and no character keeps the books.
LEMMA BalanceKept ==
  ASSUME Balanced, Rows,
         DOMAIN member' = DOMAIN member,
         \A u \in DOMAIN member : member'[u].clan = member[u].clan,
         clan' = clan \/ (DOMAIN clan' \subseteq DOMAIN clan /\ \A c \in DOMAIN clan' : clan'[c].count = clan[c].count),
         names' = names, torn \subseteq torn'
  PROVE  Balanced'
<1>1. \A c \in Clan' : c \in Clan /\ clan'[c].count = clan[c].count
  BY DEF Clan
<1>2. CountsBut(0, 0)'
  BY <1>1, SameMembers DEF CountsBut, Balanced
<1>3. NamesBut({})'
  BY SameMembers DEF NamesBut, Balanced
<1> QED BY <1>2, <1>3 DEF Balanced

(***************************************************************************)
(* Rows                                                                    *)
(***************************************************************************)

LEMMA RowsInit == Init => Rows
<1> SUFFICES ASSUME Init PROVE Rows
  OBVIOUS
<1>1. DOMAIN clan = {} /\ DOMAIN member = {} /\ DOMAIN request = {} /\ DOMAIN stored = {}
  BY DEF Init
<1>2. stored \in [Clan -> [Slot -> Item \cup {NoItem}]]
  BY <1>1 DEF Init, Clan
<1> QED BY <1>1, <1>2 DEF Init, Rows, Clan

\* The next statement of a handler.
LEMMA FirstFacts ==
  ASSUME Books, ~Ready
  PROVE  /\ First.user \in User /\ First.clan \in Clan \cup {0} /\ First.by \in Int
         /\ First.do \in {"count", "insert"} => First.clan \in Clan
         /\ First.do = "demote" => First.user \in DOMAIN member
<1>1. CASE \E u \in User : Naming(u, 0)
  BY <1>1 DEF Naming, Name, First
<1>2. CASE \E u \in User : \E c \in Clan : Handling(u, c)
  <2>1. PICK u \in User, c \in Clan : Handling(u, c)
    BY <1>2
  <2>2. CASE Naming(u, c)
    BY <2>2 DEF Naming, Name, First
  <2>3. CASE Entering(u, c)
    BY <2>3 DEF Entering, Count, First
  <2>4. CASE Leaving(u, c)
    BY <2>4 DEF Leaving, Uncount, First
  <2>5. CASE Approving(u, c)
    BY <2>5 DEF Approving, Approval, Insert, First
  <2>6. CASE Delegating(u, c)
    BY <2>6 DEF Delegating, First, IsMember
  <2> QED BY <2>1, <2>2, <2>3, <2>4, <2>5, <2>6 DEF Handling
<1> QED BY <1>1, <1>2 DEF Books, Idle, Ready

LEMMA RowsStatement == Rows /\ Books /\ Statement => Rows'
<1> SUFFICES ASSUME Rows, Books, Statement PROVE Rows'
  OBVIOUS
<1>1. CASE UpdateCount
  <2>1. UNCHANGED <<next, access, members, names, points, items>>
    BY <1>1 DEF UpdateCount
  <2>2. DOMAIN clan' = DOMAIN clan /\ \A c \in Clan : clan'[c] \in ClanRow
    <3>1. CASE First.clan \in Clan
      <4>1. First.by \in Int
        BY <1>1, FirstFacts DEF UpdateCount
      <4>2. clan[First.clan] \in ClanRow
        BY <3>1 DEF Rows
      <4>3. clan' = [clan EXCEPT ![First.clan].count = @ + First.by]
        BY <1>1, <3>1 DEF UpdateCount
      <4>4. [clan[First.clan] EXCEPT !.count = @ + First.by] \in ClanRow
        BY <4>1, <4>2 DEF ClanRow
      <4>5. DOMAIN clan' = DOMAIN clan /\ \A c \in Clan : clan'[c] \in {clan[c], [clan[First.clan] EXCEPT !.count = @ + First.by]}
        BY <4>3 DEF Clan
      <4> QED BY <4>4, <4>5 DEF Rows
    <3>2. CASE First.clan \notin Clan
      BY <1>1, <3>2 DEF UpdateCount, Rows, Clan
    <3> QED BY <3>1, <3>2
  <2> QED BY <2>1, <2>2 DEF Rows, members, items, Clan
<1>2. CASE UpdateName
  <2>1. UNCHANGED <<clans, members, items>>
    BY <1>2 DEF UpdateName
  <2>2. First.clan \in Nat
    BY <1>2, FirstFacts DEF UpdateName, Rows
  <2>3. names' \in [User -> Nat]
    BY <1>2, <2>2 DEF UpdateName, Rows
  <2> QED BY <2>1, <2>3 DEF Rows, clans, members, items, Clan
<1>3. CASE InsertMember
  <2>1. UNCHANGED <<clans, request, names, items>>
    BY <1>3 DEF InsertMember
  <2>2. CASE member' = member
    BY <2>1, <2>2 DEF Rows, clans, items, Clan
  <2>3. CASE member' # member
    <3>1. First.user \in User /\ First.clan \in Clan
      BY <1>3, FirstFacts DEF InsertMember
    <3>2. member' = Put(member, First.user, [clan |-> First.clan, grade |-> 3])
      BY <1>3, <2>3 DEF InsertMember
    <3>3. DOMAIN member' \subseteq User /\ \A u \in DOMAIN member' : member'[u] \in [clan : Clan, grade : 0..3]
      BY <3>1, <3>2 DEF Put, Rows
    <3> QED BY <2>1, <3>3 DEF Rows, clans, items, Clan
  <2> QED BY <2>2, <2>3
<1>4. CASE DemoteMaster
  <2>1. UNCHANGED <<clans, request, names, items>>
    BY <1>4 DEF DemoteMaster
  <2>2. First.user \in DOMAIN member
    BY <1>4, FirstFacts DEF DemoteMaster
  <2>3. DOMAIN member' = DOMAIN member /\ \A u \in DOMAIN member : member'[u] \in [clan : Clan, grade : 0..3]
    BY <1>4, <2>2 DEF DemoteMaster, Rows
  <2> QED BY <2>1, <2>3 DEF Rows, clans, items, Clan
<1> QED BY <1>1, <1>2, <1>3, <1>4 DEF Statement


\* What a request does to the clan rows and the member rows, where it changes them.
LEMMA RowsRequest ==
  ASSUME Rows, NEW u \in User, Request(u) \/ StorageRequest(u)
  PROVE  Rows'
<1> USE DEF Clan
<1>1. CASE Login(u) \/ Logout(u)
  BY <1>1 DEF Login, Logout, Rows, clans, members, items
<1>2. CASE CreateClan(u)
  <2>1. next \in Nat /\ next \notin Clan
    BY DEF Rows
  <2>2. /\ next' = next + 1
        /\ clan' = Put(clan, next, [count |-> 1, join |-> 3, mark |-> NoMark, marks |-> 1])
        /\ member' = Put(member, u, [clan |-> next, grade |-> 0])
        /\ stored' = Put(stored, next, [s \in Slot |-> NoItem])
        /\ UNCHANGED <<request, names, own>>
    BY <1>2 DEF CreateClan, Found
  <2>3. DOMAIN clan' = Clan \cup {next} /\ \A c \in DOMAIN clan' : clan'[c] \in ClanRow
    BY <2>2 DEF Put, Rows, ClanRow
  <2>4. DOMAIN member' \subseteq User /\ \A v \in DOMAIN member' : member'[v] \in [clan : DOMAIN clan', grade : 0..3]
    BY <2>2, <2>3 DEF Put, Rows
  <2>5. stored' \in [DOMAIN clan' -> [Slot -> Item \cup {NoItem}]]
    BY <2>2, <2>3 DEF Put, Rows
  <2> QED BY <2>1, <2>2, <2>3, <2>4, <2>5 DEF Rows
<1>3. CASE DissolveClan(u)
  <2> DEFINE c == ClanOf(u)
  <2>1. /\ clan' = Drop(clan, {c}) /\ stored' = Drop(stored, {c})
        /\ member' = Drop(member, Members(c))
        /\ request' = Drop(request, {v \in DOMAIN request : request[v] = c})
        /\ UNCHANGED <<next, names, own>>
    BY <1>3 DEF DissolveClan, Dissolve
  <2>2. DOMAIN clan' = Clan \ {c} /\ \A d \in DOMAIN clan' : clan'[d] \in ClanRow
    BY <2>1 DEF Drop, Rows
  <2>3. DOMAIN member' \subseteq User /\ \A v \in DOMAIN member' : member'[v] \in [clan : DOMAIN clan', grade : 0..3]
    BY <2>1, <2>2 DEF Drop, Rows, Members
  <2>4. DOMAIN request' \subseteq User /\ \A v \in DOMAIN request' : request'[v] \in DOMAIN clan'
    BY <2>1, <2>2 DEF Drop, Rows
  <2>5. stored' \in [DOMAIN clan' -> [Slot -> Item \cup {NoItem}]]
    BY <2>1, <2>2 DEF Drop, Rows
  <2> QED BY <2>1, <2>2, <2>3, <2>4, <2>5 DEF Rows
<1>4. CASE CancelJoin(u) \/ (\E v \in User : ClanApprove(u, v) \/ ClanInvite(u, v))
           \/ (\E rejected \in SUBSET DOMAIN request : ClanReject(u, rejected))
  <2>1. UNCHANGED <<clans, member, names, items>>
    BY <1>4 DEF CancelJoin, ClanApprove, ClanInvite, ClanReject
  <2>2. DOMAIN request' \subseteq DOMAIN request /\ \A v \in DOMAIN request' : request'[v] = request[v]
    BY <1>4 DEF CancelJoin, ClanApprove, ClanInvite, ClanReject, Withdraw, Drop
  <2> QED BY <2>1, <2>2 DEF Rows, clans, items
<1>5. CASE \E c \in Clan : JoinClan(u, c) \/ RequestJoin(u, c) \/ RequestFails(u, c)
  <2>1. PICK c \in Clan : JoinClan(u, c) \/ RequestJoin(u, c) \/ RequestFails(u, c)
    BY <1>5
  <2>2. UNCHANGED <<clans, names, items>>
    BY <2>1 DEF JoinClan, RequestJoin, RequestFails
  <2>3. member' = member \/ member' = Put(member, u, [clan |-> c, grade |-> 3])
    BY <2>1 DEF JoinClan, RequestJoin, RequestFails
  <2>4. DOMAIN member' \subseteq User /\ \A v \in DOMAIN member' : member'[v] \in [clan : Clan, grade : 0..3]
    BY <2>3 DEF Put, Rows
  <2>5. request' = request \/ request' = Put(request, u, c)
    BY <2>1 DEF JoinClan, RequestJoin, RequestFails
  <2>6. DOMAIN request' \subseteq User /\ \A v \in DOMAIN request' : request'[v] \in Clan
    BY <2>5 DEF Put, Rows
  <2> QED BY <2>2, <2>4, <2>6 DEF Rows, clans, items
<1>6. CASE LeaveClan(u) \/ (\E v \in User : ClanKick(u, v))
  <2>1. UNCHANGED <<clans, request, names, items>>
    BY <1>6 DEF LeaveClan, ClanKick
  <2>2. DOMAIN member' \subseteq DOMAIN member /\ \A v \in DOMAIN member' : member'[v] = member[v]
    BY <1>6 DEF LeaveClan, ClanKick, Leave, Drop
  <2> QED BY <2>1, <2>2 DEF Rows, clans, items
<1>7. CASE \E v \in User : ClanMasterDelegate(u, v) \/ \E grade \in Grade : UpdateClanMemberGrade(u, v, grade)
  <2>1. UNCHANGED <<clans, request, names, items>>
    BY <1>7 DEF ClanMasterDelegate, UpdateClanMemberGrade
  <2>2. \E v \in DOMAIN member, grade \in 0..3 : member' = [member EXCEPT ![v].grade = grade]
    BY <1>7, GradeAssumption DEF ClanMasterDelegate, UpdateClanMemberGrade, MayGrade, IsMember
  <2>3. DOMAIN member' = DOMAIN member /\ \A v \in DOMAIN member : member'[v] \in [clan : Clan, grade : 0..3]
    BY <2>2 DEF Rows
  <2> QED BY <2>1, <2>3 DEF Rows, clans, items
<1>8. CASE \/ \E method \in Method : UpdateJoinMethod(u, method)
           \/ \E m \in Mark : UpdateMark(u, m)
  <2>1. UNCHANGED <<next, members, names, items>>
    BY <1>8 DEF UpdateJoinMethod, UpdateMark
  <2>2. ClanOf(u) \in Clan
    BY <1>8 DEF UpdateJoinMethod, UpdateMark, UpdateClan, Leads, IsMember, ClanOf, Rows
  <2>3. GetClan(u) \in ClanRow
    BY <2>2 DEF GetClan, Rows
  <2>4. PICK row \in ClanRow : clan' = [clan EXCEPT ![ClanOf(u)] = row]
    <3>1. ASSUME NEW method \in Method, UpdateJoinMethod(u, method)
          PROVE  \E row \in ClanRow : clan' = [clan EXCEPT ![ClanOf(u)] = row]
      <4>1. [GetClan(u) EXCEPT !.join = method] \in ClanRow
        BY <2>3, GradeAssumption DEF ClanRow
      <4>2. clan' = [clan EXCEPT ![ClanOf(u)] = [GetClan(u) EXCEPT !.join = method]]
        BY <3>1 DEF UpdateJoinMethod, UpdateClan
      <4> QED BY <4>1, <4>2
    <3>2. ASSUME NEW m \in Mark, UpdateMark(u, m)
          PROVE  \E row \in ClanRow : clan' = [clan EXCEPT ![ClanOf(u)] = row]
      <4>1. GetClan(u).marks > 0
        BY <3>2 DEF UpdateMark
      <4> DEFINE left == GetClan(u).marks - 1
      <4>4. left \in Nat
        BY <2>3, <4>1 DEF ClanRow
      <4> HIDE DEF left
      <4>5. [GetClan(u) EXCEPT !.mark = m, !.marks = left] \in ClanRow
        BY <2>3, <4>4 DEF ClanRow
      <4>2. [GetClan(u) EXCEPT !.mark = m, !.marks = @ - 1] \in ClanRow
        BY <4>5 DEF left
      <4>3. clan' = [clan EXCEPT ![ClanOf(u)] = [GetClan(u) EXCEPT !.mark = m, !.marks = @ - 1]]
        BY <3>2 DEF UpdateMark, UpdateClan
      <4> QED BY <4>2, <4>3
    <3> QED BY <1>8, <3>1, <3>2
  <2>5. DOMAIN clan' = Clan /\ \A c \in Clan : clan'[c] \in ClanRow
    BY <2>4 DEF Rows
  <2> QED BY <2>1, <2>5 DEF Rows, members, items
<1>9. CASE StorageRequest(u)
  <2>1. UNCHANGED <<clan, next, members, names>>
    BY <1>9 DEF StorageRequest, UpdateClanStorageAccessGrade, DeleteClanStorageItem,
      GetClanStorageItem, AddClanStorageItem, clans
  <2>2. stored' = stored \/ \E s \in Slot, i \in Item \cup {NoItem} : stored' = [stored EXCEPT ![ClanOf(u)][s] = i]
    BY <1>9 DEF StorageRequest, UpdateClanStorageAccessGrade, DeleteClanStorageItem, Clear,
      GetClanStorageItem, AddClanStorageItem, items
  <2>3. stored' \in [Clan -> [Slot -> Item \cup {NoItem}]]
    BY <2>2 DEF Rows
  <2>4. own' = own \/ \E i \in Item : own' = [own EXCEPT ![u] = @ \ {i}]
    BY <1>9 DEF StorageRequest, UpdateClanStorageAccessGrade, DeleteClanStorageItem,
      GetClanStorageItem, AddClanStorageItem, Given, items
  <2>5. own' \in [User -> SUBSET Item]
    BY <2>4 DEF Rows
  <2> QED BY <2>1, <2>3, <2>5 DEF Rows, members
<1> QED BY <1>1, <1>2, <1>3, <1>4, <1>5, <1>6, <1>7, <1>8, <1>9 DEF Request

LEMMA RowsNext ==
  ASSUME Rows, Books, [Next]_vars
  PROVE  Rows'
<1>1. CASE StatementFails \/ Restart \/ UNCHANGED vars
  BY <1>1 DEF StatementFails, Restart, vars, Rows, clans, members, items, Clan
<1>2. CASE \E late \in SUBSET User : OnMinuteTick(late)
  <2>1. UNCHANGED <<clans, members, names, own>>
    BY <1>2 DEF OnMinuteTick
  <2>2. \E due \in [Item -> BOOLEAN] :
          stored' = [c \in Clan |-> [s \in Slot |->
                       IF stored[c][s] # NoItem /\ due[stored[c][s]] THEN NoItem ELSE stored[c][s]]]
    BY <1>2 DEF OnMinuteTick
  <2>3. stored' \in [Clan -> [Slot -> Item \cup {NoItem}]]
    BY <2>2 DEF Rows
  <2> QED BY <2>1, <2>3 DEF Rows, clans, members, Clan
<1> QED BY <1>1, <1>2, RowsStatement, RowsRequest DEF Next


(***************************************************************************)
(* Books                                                                   *)
(***************************************************************************)

LEMMA BooksInit == Init => Books
<1> SUFFICES ASSUME Init PROVE Books
  OBVIOUS
<1>1. todo = <<>> /\ DOMAIN clan = {} /\ DOMAIN member = {}
  BY DEF Init
<1> QED BY <1>1 DEF Books, Idle, Balanced, CountsBut, NamesBut, Clan

\* Statements that are not done leave their clan and user in torn, and the rest is right.
LEMMA GivenUp ==
  ASSUME Books, UNCHANGED <<clans, members, names>>, CutShort
  PROVE  Idle'
<1>1. todo' = <<>> /\ torn' = torn \cup LeftTorn
  BY DEF CutShort
<1>2. \A c : Members(c)' = Members(c)
  BY DEF members, Members
<1>3. ASSUME CountsBut(0, 0), NamesBut({}) PROVE Balanced'
  BY <1>1, <1>2, <1>3 DEF Balanced, CountsBut, NamesBut, clans, members, Clan, ClanOf
<1>4. ASSUME NEW u, NEW k \in DOMAIN todo, First.do # "insert", ~Ready,
             todo[k].do = "name", todo[k].user = u, CountsBut(0, 0), NamesBut({u})
      PROVE  Balanced'
  <2>1. u \in torn'
    BY <1>1, <1>4 DEF LeftTorn, Left
  <2> QED BY <1>1, <1>2, <1>4, <2>1 DEF Balanced, CountsBut, NamesBut, clans, members, Clan, ClanOf
<1>5. ASSUME NEW c, NEW owed, NEW W, First.do = "count", First.clan = c, ~Ready,
             CountsBut(c, owed), NamesBut(W), W \subseteq torn'
      PROVE  Balanced'
  <2>1. 1 \in DOMAIN todo /\ todo[1] = First => c \in torn'
    BY <1>1, <1>5 DEF LeftTorn, Left
  <2>2. c \in torn'
    BY <1>5, <2>1 DEF Ready, First
  <2> QED BY <1>1, <1>2, <1>5, <2>2 DEF Balanced, CountsBut, NamesBut, clans, members, Clan, ClanOf
<1>6. CASE Idle \/ \E u \in User : \E c \in Clan : Approving(u, c) \/ Delegating(u, c)
  BY <1>1, <1>3, <1>6 DEF Idle, Approving, Delegating, Balanced
<1>7. ASSUME NEW u, NEW c, Naming(u, c)
      PROVE  Balanced'
  <2>1. ~Ready /\ First.do # "insert" /\ 1 \in DOMAIN todo /\ todo[1].do = "name" /\ todo[1].user = u
    BY <1>7 DEF Naming, Name, Ready, First
  <2> QED BY <1>4, <1>7, <2>1 DEF Naming
<1>8. ASSUME NEW u, NEW c, Entering(u, c)
      PROVE  Balanced'
  <2>1. ~Ready /\ First.do = "count" /\ First.clan = c
    BY <1>8 DEF Entering, Count, Ready, First
  <2>2. 2 \in DOMAIN todo /\ todo[2].do = "name" /\ todo[2].user = u
    BY <1>8 DEF Entering, Count, Name
  <2>3. u \in torn'
    BY <1>1, <2>1, <2>2 DEF LeftTorn, Left
  <2> QED BY <1>5, <1>8, <2>1, <2>3 DEF Entering
<1>9. ASSUME NEW u, NEW c, Leaving(u, c)
      PROVE  Balanced'
  <2>1. ~Ready /\ First.do = "count" /\ First.clan = c
    BY <1>9 DEF Leaving, Uncount, Ready, First
  <2> QED BY <1>5, <1>9, <2>1 DEF Leaving
<1> QED BY <1>1, <1>6, <1>7, <1>8, <1>9 DEF Books, Handling, Idle

\* The books after each statement.
LEMMA BooksStatement ==
  ASSUME Rows, Books, Statement
  PROVE  Books'
<1>1. CASE UpdateCount
  <2>1. UNCHANGED <<next, access, members, names, points, items, online, torn>> /\ ~Ready /\ First.do = "count"
    BY <1>1 DEF UpdateCount
  <2>2. First.clan \in Clan
    BY <2>1, FirstFacts
  <2>3. DOMAIN clan' = Clan /\ \A c \in Clan : clan'[c].count = IF c = First.clan THEN clan[c].count + First.by ELSE clan[c].count
    BY <1>1, <2>2, FirstFacts DEF UpdateCount, Rows, ClanRow, Clan
  <2>4. todo' = Tail(todo)
    BY <1>1, <2>2 DEF UpdateCount, Rest
  <2>5. \A c : Members(c)' = Members(c)
    BY <2>1 DEF members, Members
  <2>6. \A c \in Clan : clan[c].count \in Int /\ Cardinality(Members(c)) \in Nat
    BY MembersFinite DEF Rows, ClanRow
  <2>7. ASSUME NEW c \in Clan, First.clan = c, NEW owed \in {1, -1}, CountsBut(c, owed), First.by = owed
        PROVE  CountsBut(0, 0)'
    <3>1. SUFFICES ASSUME NEW d \in Clan, d \notin torn
                   PROVE  clan'[d].count = Cardinality(Members(d))
      BY <2>1, <2>3, <2>5, <2>6 DEF CountsBut, Clan
    <3> QED BY <2>3, <2>6, <2>7, <3>1 DEF CountsBut
  <2>8. \A W : NamesBut(W) => NamesBut(W)'
    BY <2>1 DEF NamesBut, members, ClanOf
  <2>9. \A u : IsMember(u)' = IsMember(u) /\ ClanOf(u)' = ClanOf(u)
    BY <2>1 DEF members, IsMember, ClanOf
  <2>10. ASSUME NEW u \in User, NEW c \in Clan, Entering(u, c)
         PROVE  Books'
    <3>1. First.clan = c /\ First.by = 1 /\ todo' = <<Name(u, c)>>
      BY <2>4, <2>10 DEF Entering, First, Count, Name
    <3> QED BY <2>3, <2>7, <2>8, <2>9, <2>10, <3>1 DEF Entering, Books, Handling, Naming, Clan
  <2>11. ASSUME NEW u \in User, NEW c \in Clan, Leaving(u, c)
         PROVE  Books'
    <3>1. First.clan = c /\ First.by = -1 /\ todo' \in {<<>>, <<Name(u, 0)>>}
      <4>1. CASE todo = <<Uncount(c, u)>>
        BY <2>4, <4>1 DEF First, Uncount
      <4>2. CASE todo = <<Uncount(c, u), Name(u, 0)>>
        BY <2>4, <4>2 DEF First, Uncount
      <4> QED BY <2>11, <4>1, <4>2 DEF Leaving
    <3>2. CountsBut(0, 0)' /\ NamesBut({})'
      BY <2>7, <2>8, <2>11, <3>1 DEF Leaving
    <3>3. NamesBut({u})'
      BY <3>2 DEF NamesBut
    <3>4. ~IsMember(u)'
      BY <2>9, <2>11 DEF Leaving
    <3> QED BY <3>1, <3>2, <3>3, <3>4 DEF Books, Naming, Idle, Balanced
  <2>12. ASSUME NEW u \in User, NEW c, Naming(u, c) \/ Approving(u, c) \/ Delegating(u, c)
         PROVE  FALSE
    <3>1. First.do # "count"
      BY <2>12 DEF Naming, Approving, Approval, Delegating, First, Name, Insert
    <3> QED BY <2>1, <3>1
  <2> QED BY <2>1, <2>10, <2>11, <2>12 DEF Books, Handling, Idle, Ready
<1>2. CASE UpdateName
  <2>1. /\ UNCHANGED <<clans, members, points, items, online>> /\ ~Ready /\ First.do = "name"
        /\ names' = [names EXCEPT ![First.user] = First.clan]
        /\ todo' = Tail(todo) /\ torn' = torn \ {First.user}
    BY <1>2 DEF UpdateName, Rest
  <2>2. ASSUME NEW u \in User, NEW c, Naming(u, c)
        PROVE  Books'
    <3>1. First.user = u /\ First.clan = c /\ todo' = <<>>
      BY <2>1, <2>2 DEF Naming, First, Name
    <3>2. \A d \in Clan : d \notin torn' => d \notin torn
      BY <2>1, <3>1, NameAssumption DEF Rows
    <3>3. CountsBut(0, 0)'
      BY <2>1, <2>2, <3>2 DEF Naming, CountsBut, clans, members, Clan, Members
    <3>4. names'[u] = c /\ \A v \in User \ {u} : names'[v] = names[v]
      BY <2>1, <3>1 DEF Rows
    <3>5. NamesBut({})'
      BY <2>1, <2>2, <3>1, <3>4 DEF Naming, NamesBut, members, ClanOf, IsMember, Rows
    <3> QED BY <3>1, <3>3, <3>5 DEF Books, Idle, Balanced
  <2>3. ASSUME NEW u \in User, NEW c, Entering(u, c) \/ Leaving(u, c) \/ Approving(u, c) \/ Delegating(u, c)
         PROVE  FALSE
    <3>1. First.do # "name"
      BY <2>3 DEF Entering, Leaving, Approving, Approval, Delegating, First, Count, Uncount, Insert
    <3> QED BY <2>1, <3>1
  <2> QED BY <2>1, <2>2, <2>3 DEF Books, Handling, Idle, Ready
<1>3. CASE InsertMember
  <2>1. UNCHANGED <<clans, request, invite, names, points, items, online, torn>> /\ ~Ready /\ First.do = "insert"
    BY <1>3 DEF InsertMember
  <2>2. ASSUME NEW u \in User, NEW c \in Clan, Approving(u, c)
        PROVE  Books'
    <3>1. First.user = u /\ First.clan = c /\ Tail(todo) = <<Count(c, u), Name(u, c)>>
      BY <2>2 DEF Approving, Approval, First, Insert
    <3>2. CASE IsMember(u)
      <4>1. member' = member /\ todo' = <<>>
        BY <1>3, <3>1, <3>2 DEF InsertMember
      <4> QED BY <2>1, <2>2, <4>1, BalanceKept DEF Approving, Books, Idle, clans
    <3>3. CASE ~IsMember(u)
      <4>1. member' = Put(member, u, [clan |-> c, grade |-> 3]) /\ todo' = Tail(todo)
        BY <1>3, <3>1, <3>3 DEF InsertMember, Rest
      <4>2. /\ \A d : d # c => Members(d)' = Members(d)
            /\ Cardinality(Members(c)') = Cardinality(Members(c)) + 1
            /\ DOMAIN member' = DOMAIN member \cup {u}
            /\ \A v \in DOMAIN member : member'[v] = member[v]
            /\ member'[u] = [clan |-> c, grade |-> 3]
        <5> DEFINE row == [clan |-> c, grade |-> 3]
        <5>1. member' = Put(member, u, row)
          BY <4>1
        <5> QED BY <3>3, <5>1, MemberAdded
      <4>3. CountsBut(c, 1)'
        BY <2>1, <2>2, <4>2 DEF Approving, Balanced, CountsBut, clans, Clan, Rows, ClanRow
      <4>4. NamesBut({u})'
        BY <2>1, <2>2, <4>2 DEF Approving, Balanced, NamesBut, ClanOf
      <4>5. IsMember(u)' /\ ClanOf(u)' = c
        BY <4>2 DEF IsMember, ClanOf
      <4>6. c \in Clan'
        BY <2>1 DEF clans, Clan
      <4>7. todo' = <<Count(c, u), Name(u, c)>>
        BY <3>1, <4>1
      <4> QED BY <4>3, <4>4, <4>5, <4>6, <4>7 DEF Books, Handling, Entering
    <3> QED BY <3>2, <3>3
  <2>3. ASSUME NEW u \in User, NEW c, Naming(u, c) \/ Entering(u, c) \/ Leaving(u, c) \/ Delegating(u, c)
         PROVE  FALSE
    <3>1. First.do # "insert"
      BY <2>3 DEF Naming, Entering, Leaving, Delegating, First, Count, Uncount, Name
    <3> QED BY <2>1, <3>1
  <2> QED BY <2>1, <2>2, <2>3 DEF Books, Handling, Idle, Ready
<1>4. CASE DemoteMaster
  <2>1. /\ UNCHANGED <<clans, request, invite, names, points, items, online, torn>> /\ ~Ready /\ First.do = "demote"
        /\ member' = [member EXCEPT ![First.user].grade = 1]
        /\ todo' = Tail(todo)
    BY <1>4 DEF DemoteMaster, Rest
  <2>2. ASSUME NEW u \in User, NEW c \in Clan, Delegating(u, c)
        PROVE  Books'
    <3>1. First.user = u /\ u \in DOMAIN member /\ todo' = <<>>
      BY <2>1, <2>2 DEF Delegating, First, IsMember
    <3>2. DOMAIN member' = DOMAIN member /\ \A v \in DOMAIN member : member'[v].clan = member[v].clan
      BY <2>1, <3>1 DEF Rows
    <3> QED BY <2>1, <2>2, <3>1, <3>2, BalanceKept DEF Delegating, Books, Idle, clans
  <2>3. ASSUME NEW u \in User, NEW c, Naming(u, c) \/ Entering(u, c) \/ Leaving(u, c) \/ Approving(u, c)
         PROVE  FALSE
    <3>1. First.do # "demote"
      BY <2>3 DEF Naming, Entering, Leaving, Approving, Approval, First, Count, Uncount, Name, Insert
    <3> QED BY <2>1, <3>1
  <2> QED BY <2>1, <2>2, <2>3 DEF Books, Handling, Idle, Ready
<1> QED BY <1>1, <1>2, <1>3, <1>4 DEF Statement


LEMMA ReadyBalanced ==
  ASSUME Books, Ready
  PROVE  Balanced
<1>1. \A u, c : ~(Naming(u, c) \/ Entering(u, c) \/ Leaving(u, c) \/ Approving(u, c) \/ Delegating(u, c))
  BY DEF Naming, Entering, Leaving, Approving, Approval, Delegating, Ready
<1> QED BY <1>1 DEF Books, Handling, Idle

\* The requests that begin with an insertion or deletion of member rows.
LEMMA BooksMembership ==
  ASSUME Rows, Books, NEW u \in User,
         \/ CreateClan(u) \/ DissolveClan(u) \/ LeaveClan(u)
         \/ \E c \in Clan : JoinClan(u, c)
         \/ \E v \in User : ClanKick(u, v)
  PROVE  Books'
<1>1. Ready /\ Balanced /\ UNCHANGED <<names, torn>>
  BY ReadyBalanced DEF CreateClan, DissolveClan, LeaveClan, JoinClan, ClanKick
<1>2. \A c \in Clan : clan[c].count \in Int /\ Cardinality(Members(c)) \in Nat
  BY MembersFinite DEF Rows, ClanRow
<1>3. CASE CreateClan(u)
  <2>1. /\ next \in Nat \ {0} /\ next \notin Clan
        /\ \A v \in DOMAIN member : member[v].clan # next
    BY DEF Rows
  <2>2. /\ ~IsMember(u)
        /\ clan' = Put(clan, next, [count |-> 1, join |-> 3, mark |-> NoMark, marks |-> 1])
        /\ member' = Put(member, u, [clan |-> next, grade |-> 0])
        /\ todo' = <<Name(u, next)>>
    BY <1>3 DEF CreateClan, Found
  <2> DEFINE c == next
             row == [clan |-> c, grade |-> 0]
  <2>3. member' = Put(member, u, row)
    BY <2>2
  <2>4. PICK n : n = next
    OBVIOUS
  <2>5. /\ DOMAIN member' = DOMAIN member \cup {u}
        /\ \A v \in DOMAIN member : member'[v] = member[v]
        /\ member'[u].clan = n
    BY <2>2, <2>4 DEF Put, IsMember
  <2>6. Members(n) = {} /\ Members(n)' = {u}
    BY <2>1, <2>4, <2>5 DEF Members
  <2>7. \A d \in Clan : Members(d)' = Members(d)
    BY <2>1, <2>2, <2>4, <2>5 DEF Members, IsMember
  <2>8. DOMAIN clan' = Clan \cup {n} /\ clan'[n].count = 1 /\ \A d \in Clan : clan'[d] = clan[d]
    BY <2>1, <2>2, <2>4 DEF Put, Clan
  <2>9. Cardinality({u}) = 1
    BY FS_Singleton
  <2>10. CountsBut(0, 0)'
    <3>1. SUFFICES ASSUME NEW d \in DOMAIN clan', d \notin torn'
                   PROVE  clan'[d].count + (IF d = 0 THEN 0 ELSE 0) = Cardinality(Members(d)')
      BY DEF CountsBut, Clan
    <3>2. CASE d = n
      BY <2>6, <2>8, <2>9, <3>2
    <3>3. CASE d \in Clan
      BY <1>1, <1>2, <2>7, <2>8, <3>1, <3>3 DEF Balanced, CountsBut
    <3> QED BY <2>8, <3>2, <3>3
  <2>11. NamesBut({u})'
    BY <1>1, <2>5 DEF Balanced, NamesBut, ClanOf
  <2>12. ClanOf(u)' = n /\ n \in Clan' /\ todo' = <<Name(u, n)>>
    BY <2>2, <2>4, <2>5, <2>8 DEF ClanOf, Clan
  <2> QED BY <2>10, <2>11, <2>12 DEF Books, Handling, Naming
<1>4. CASE DissolveClan(u)
  <2>1. PICK c : c = ClanOf(u)
    OBVIOUS
  <2>2. /\ u \in DOMAIN member
        /\ clan' = Drop(clan, {c})
        /\ member' = Drop(member, Members(c))
        /\ todo' = <<Name(u, 0)>>
    BY <1>4, <2>1 DEF DissolveClan, Dissolve, Leads, IsMember
  <2>3. DOMAIN clan' = Clan \ {c} /\ \A d \in DOMAIN clan' : clan'[d] = clan[d]
    BY <2>2 DEF Drop, Clan
  <2>4. DOMAIN member' = DOMAIN member \ Members(c) /\ \A v \in DOMAIN member' : member'[v] = member[v]
    BY <2>2 DEF Drop
  <2>5. \A d : d # c => Members(d)' = Members(d)
    BY <2>4 DEF Members
  <2>6. CountsBut(0, 0)'
    BY <1>1, <2>3, <2>5 DEF Balanced, CountsBut, Clan
  <2>7. NamesBut({u})'
    BY <1>1, <2>4 DEF Balanced, NamesBut, ClanOf
  <2>8. ~IsMember(u)'
    BY <2>1, <2>2, <2>4 DEF IsMember, Members, ClanOf
  <2> QED BY <2>2, <2>6, <2>7, <2>8 DEF Books, Naming
<1>5. ASSUME NEW c \in Clan, JoinClan(u, c)
      PROVE  Books'
  <2> DEFINE row == [clan |-> c, grade |-> 3]
  <2>1. /\ ~IsMember(u) /\ clan' = clan
        /\ member' = Put(member, u, row)
        /\ todo' = <<Count(c, u), Name(u, c)>>
    BY <1>5 DEF JoinClan, clans
  <2>2. /\ \A d : d # c => Members(d)' = Members(d)
        /\ Cardinality(Members(c)') = Cardinality(Members(c)) + 1
        /\ DOMAIN member' = DOMAIN member \cup {u}
        /\ \A v \in DOMAIN member : member'[v] = member[v]
        /\ member'[u] = row
    BY <2>1, MemberAdded
  <2>3. CountsBut(c, 1)'
    BY <1>1, <1>2, <2>1, <2>2 DEF Balanced, CountsBut, Clan
  <2>4. NamesBut({u})'
    BY <1>1, <2>2 DEF Balanced, NamesBut, ClanOf
  <2>5. IsMember(u)' /\ ClanOf(u)' = c /\ c \in Clan'
    BY <2>1, <2>2 DEF IsMember, ClanOf, Clan
  <2> QED BY <2>1, <2>3, <2>4, <2>5 DEF Books, Handling, Entering
<1>6. ASSUME NEW v \in DOMAIN member, NEW c, c = ClanOf(v), clan' = clan, member' = Drop(member, {v}),
             todo' \in {<<Uncount(c, v), Name(v, 0)>>, <<Uncount(c, v)>>}
      PROVE  Books'
  <2>1. /\ \A d : d # c => Members(d)' = Members(d)
        /\ Cardinality(Members(c)') = Cardinality(Members(c)) - 1
        /\ DOMAIN member' = DOMAIN member \ {v}
        /\ \A w \in DOMAIN member' : member'[w] = member[w]
    BY <1>6, MemberRemoved
  <2>2. CountsBut(c, -1)'
    BY <1>1, <1>2, <1>6, <2>1 DEF Balanced, CountsBut, Clan
  <2>3. NamesBut({})'
    BY <1>1, <2>1 DEF Balanced, NamesBut, ClanOf
  <2>4. ~IsMember(v)'
    BY <2>1 DEF IsMember
  <2>5. c \in Clan' /\ v \in User
    BY <1>6 DEF Rows, ClanOf, Clan
  <2> QED BY <1>6, <2>2, <2>3, <2>4, <2>5 DEF Books, Handling, Leaving
<1>7. CASE LeaveClan(u)
  <2>1. PICK c : c = ClanOf(u)
    OBVIOUS
  <2> QED BY <1>6, <1>7, <2>1 DEF LeaveClan, Leave, IsMember, clans
<1>8. ASSUME NEW v \in User, ClanKick(u, v)
      PROVE  Books'
  <2>1. PICK c : c = ClanOf(v)
    OBVIOUS
  <2>2. v \in DOMAIN member /\ ClanOf(u) = c /\ member' = Drop(member, {v}) /\ clan' = clan
    BY <1>8, <2>1 DEF ClanKick, MayKick, IsMember, clans
  <2>3. todo' \in {<<Uncount(c, v), Name(v, 0)>>, <<Uncount(c, v)>>}
    <3> DEFINE one == Uncount(c, v)
               two == Name(v, 0)
    <3>1. todo' = <<one>> \o (IF v \in online THEN <<two>> ELSE <<>>)
      BY <1>8, <2>2 DEF ClanKick
    <3> HIDE DEF one, two
    <3>2. CASE v \in online
      <4>1. todo' = <<one>> \o <<two>>
        BY <3>1, <3>2
      <4>2. <<one>> \o <<two>> = <<one, two>>
        <5>1. <<one>> \o <<two>> \in Seq({one, two}) /\ <<one, two>> \in Seq({one, two})
          OBVIOUS
        <5>2. /\ Len(<<one>> \o <<two>>) = 2 /\ Len(<<one, two>>) = 2
              /\ \A i \in 1..2 : (<<one>> \o <<two>>)[i] = <<one, two>>[i]
          OBVIOUS
        <5> QED BY <5>1, <5>2, SeqEqual
      <4> QED BY <4>1, <4>2 DEF one, two
    <3>3. CASE v \notin online
      <4>1. todo' = <<one>> \o <<>>
        BY <3>1, <3>3
      <4>2. <<one>> \o <<>> = <<one>>
        OBVIOUS
      <4> QED BY <4>1, <4>2 DEF one
    <3> QED BY <3>2, <3>3
  <2> QED BY <1>6, <2>1, <2>2, <2>3
<1> QED BY <1>3, <1>4, <1>5, <1>7, <1>8

LEMMA BooksRequest ==
  ASSUME Rows, Books, NEW u \in User, Request(u) \/ StorageRequest(u)
  PROVE  Books'
<1>1. CASE \/ CreateClan(u) \/ DissolveClan(u) \/ LeaveClan(u)
           \/ \E c \in Clan : JoinClan(u, c)
           \/ \E v \in User : ClanKick(u, v)
  BY <1>1, BooksMembership
<1>2. CASE \E v \in User : ClanApprove(u, v)
  <2>1. PICK v \in User : ClanApprove(u, v)
    BY <1>2
  <2>2. Ready /\ UNCHANGED <<clans, member, names, torn>> /\ v \in DOMAIN request /\ request[v] = ClanOf(u)
    BY <2>1 DEF ClanApprove
  <2>3. PICK c \in Clan : c = ClanOf(u)
    BY <2>2 DEF Rows
  <2>4. todo' = Approval(v, c) /\ c \in Clan'
    BY <2>1, <2>2, <2>3 DEF ClanApprove, Clan, clans
  <2>5. Balanced'
    BY <2>2, ReadyBalanced, BalanceKept DEF clans
  <2> QED BY <2>4, <2>5 DEF Books, Handling, Approving
<1>3. CASE \E v \in User : ClanMasterDelegate(u, v)
  <2>1. PICK v \in User : ClanMasterDelegate(u, v)
    BY <1>3
  <2>2. /\ Ready /\ UNCHANGED <<clans, names, torn>> /\ u \in DOMAIN member
        /\ member' = [member EXCEPT ![v].grade = 0]
        /\ v \in DOMAIN member
    BY <2>1 DEF ClanMasterDelegate, IsMaster, IsMember
  <2>3. DOMAIN member' = DOMAIN member /\ \A w \in DOMAIN member : member'[w].clan = member[w].clan
    BY <2>2 DEF Rows
  <2>4. PICK c \in Clan : c = ClanOf(u)
    BY <2>2 DEF Rows, ClanOf
  <2>5. todo' = <<[do |-> "demote", clan |-> c, user |-> u, by |-> 0]>> /\ c \in Clan'
    BY <2>1, <2>2, <2>4 DEF ClanMasterDelegate, Demote, clans, Clan
  <2>6. Balanced'
    BY <2>2, <2>3, ReadyBalanced, BalanceKept DEF clans
  <2>7. IsMember(u)'
    BY <2>2, <2>3 DEF IsMember
  <2> QED BY <2>5, <2>6, <2>7 DEF Books, Handling, Delegating
<1>4. CASE \E v \in User : \E grade \in Grade : UpdateClanMemberGrade(u, v, grade)
  <2>1. PICK v \in User, grade \in Grade : UpdateClanMemberGrade(u, v, grade)
    BY <1>4
  <2>2. /\ Ready /\ UNCHANGED <<clans, names, torn, todo>>
        /\ member' = [member EXCEPT ![v].grade = grade]
        /\ v \in DOMAIN member
    BY <2>1 DEF UpdateClanMemberGrade, MayGrade, IsMember
  <2>3. DOMAIN member' = DOMAIN member /\ \A w \in DOMAIN member : member'[w].clan = member[w].clan
    BY <2>2 DEF Rows
  <2> QED BY <2>2, <2>3, ReadyBalanced, BalanceKept DEF clans, Books, Idle, Ready
<1>5. CASE (\E method \in Method : UpdateJoinMethod(u, method)) \/ (\E m \in Mark : UpdateMark(u, m))
  <2>1. Ready /\ UNCHANGED <<members, names, torn, todo>>
    BY <1>5 DEF UpdateJoinMethod, UpdateMark
  <2>2. ClanOf(u) \in Clan
    BY <1>5 DEF UpdateJoinMethod, UpdateMark, UpdateClan, Leads, IsMember, ClanOf, Rows
  <2>3. GetClan(u) \in ClanRow
    BY <2>2 DEF GetClan, Rows
  <2>4. PICK row : row.count = GetClan(u).count /\ clan' = [clan EXCEPT ![ClanOf(u)] = row]
    <3>1. ASSUME NEW method \in Method, UpdateJoinMethod(u, method)
          PROVE  \E row : row.count = GetClan(u).count /\ clan' = [clan EXCEPT ![ClanOf(u)] = row]
      <4>1. [GetClan(u) EXCEPT !.join = method].count = GetClan(u).count
        BY <2>3 DEF ClanRow
      <4>2. clan' = [clan EXCEPT ![ClanOf(u)] = [GetClan(u) EXCEPT !.join = method]]
        BY <3>1 DEF UpdateJoinMethod, UpdateClan
      <4> QED BY <4>1, <4>2
    <3>2. ASSUME NEW m \in Mark, UpdateMark(u, m)
          PROVE  \E row : row.count = GetClan(u).count /\ clan' = [clan EXCEPT ![ClanOf(u)] = row]
      <4>1. [GetClan(u) EXCEPT !.mark = m, !.marks = @ - 1].count = GetClan(u).count
        BY <2>3 DEF ClanRow
      <4>2. clan' = [clan EXCEPT ![ClanOf(u)] = [GetClan(u) EXCEPT !.mark = m, !.marks = @ - 1]]
        BY <3>2 DEF UpdateMark, UpdateClan
      <4> QED BY <4>1, <4>2
    <3> QED BY <1>5, <3>1, <3>2
  <2>5. DOMAIN clan' = DOMAIN clan /\ \A c \in DOMAIN clan' : clan'[c].count = clan[c].count
    BY <2>2, <2>4 DEF GetClan, Clan
  <2> QED BY <2>1, <2>5, ReadyBalanced, BalanceKept DEF members, Books, Idle, Ready
<1>6. CASE \/ Login(u) \/ Logout(u) \/ CancelJoin(u) \/ StorageRequest(u)
           \/ \E c \in Clan : RequestJoin(u, c) \/ RequestFails(u, c)
           \/ \E v \in User : ClanInvite(u, v)
           \/ \E rejected \in SUBSET DOMAIN request : ClanReject(u, rejected)
  <2>1. Ready /\ UNCHANGED <<clan, member, names, torn, todo>>
    BY <1>6 DEF Login, Logout, CancelJoin, StorageRequest, RequestJoin, RequestFails, ClanInvite, ClanReject,
      UpdateClanStorageAccessGrade, DeleteClanStorageItem, GetClanStorageItem, AddClanStorageItem, clans, members
  <2> QED BY <2>1, ReadyBalanced, BalanceKept DEF Books, Idle, Ready
<1> QED BY <1>1, <1>2, <1>3, <1>4, <1>5, <1>6 DEF Request

LEMMA BooksNext ==
  ASSUME Rows, Books, [Next]_vars
  PROVE  Books'
<1>1. CASE StatementFails \/ Restart
  <2>1. CutShort /\ UNCHANGED <<clans, members, names>>
    BY <1>1 DEF StatementFails, Restart
  <2> QED BY <2>1, GivenUp DEF Books
<1>2. CASE \E late \in SUBSET User : OnMinuteTick(late)
  <2>1. Ready /\ UNCHANGED <<clan, member, names, torn, todo>>
    BY <1>2 DEF OnMinuteTick, clans, members
  <2> QED BY <2>1, ReadyBalanced, BalanceKept DEF Books, Idle, Ready
<1>3. CASE UNCHANGED vars
  <2>1. UNCHANGED <<clan, member, names, torn, todo>>
    BY <1>3 DEF vars, clans, members
  <2> QED BY <2>1 DEF Books, Idle, Handling, Naming, Entering, Leaving, Approving, Delegating, Balanced,
    CountsBut, NamesBut, Clan, Members, ClanOf, IsMember
<1> QED BY <1>1, <1>2, <1>3, BooksStatement, BooksRequest DEF Next

\* The invariant of the member rows.
THEOREM ClansInvariant == Spec => []ClanInv
<1>1. Init => ClanInv
  BY RowsInit, BooksInit DEF ClanInv
<1>2. ClanInv /\ [Next]_vars => ClanInv'
  BY RowsNext, BooksNext DEF ClanInv
<1> QED BY <1>1, <1>2, PTL DEF Spec

\* Between two requests the number of members a clan keeps is the number of its member rows,
\* unless a handler was cut short: for any users and clans, wherever statements fail.
THEOREM CountsDoAgree == Spec => []CountAgrees
<1>1. ClanInv => CountAgrees
  <2> SUFFICES ASSUME ClanInv, Ready, NEW c \in Clan \ torn
               PROVE  clan[c].count = Cardinality(Members(c))
    BY DEF CountAgrees
  <2>1. CountsBut(0, 0) /\ clan[c].count \in Int
    BY ReadyBalanced DEF ClanInv, Balanced, Rows, ClanRow
  <2> QED BY <2>1 DEF CountsBut
<1> QED BY <1>1, ClansInvariant, PTL

\* Between two requests a member's character names the member's clan, so that what it says
\* reaches that clan and nobody else.
THEOREM MembersDoKnow == Spec => []MembersKnow
<1>1. ClanInv => MembersKnow
  BY ReadyBalanced DEF ClanInv, MembersKnow, Balanced, NamesBut, ClanUsers
<1> QED BY <1>1, ClansInvariant, PTL


(***************************************************************************)
(* Items                                                                   *)
(***************************************************************************)

Owners(i) == {u \in User : i \in own[u]}
Places(i) == {p \in Clan \X Slot : stored[p[1]][p[2]] = i}

LEMMA CopiesFinite ==
  ASSUME Rows, NEW i
  PROVE  /\ IsFiniteSet(Owners(i)) /\ IsFiniteSet(Places(i))
         /\ Cardinality(Owners(i)) \in Nat /\ Cardinality(Places(i)) \in Nat
<1>1. IsFiniteSet(Owners(i))
  BY FS_Subset, FiniteAssumption DEF Owners
<1>2. IsFiniteSet(1..next - 1)
  BY FS_Interval DEF Rows
<1>3. IsFiniteSet(Clan)
  BY <1>2, FS_Subset DEF Rows
<1>4. IsFiniteSet(Clan \X Slot)
  BY <1>3, FS_Product, FiniteAssumption
<1>5. IsFiniteSet(Places(i))
  BY <1>4, FS_Subset DEF Places
<1> QED BY <1>1, <1>5, FS_CardinalityType

LEMMA ItemsInit == Init => ItemsNotDuplicated
<1> SUFFICES ASSUME Init, NEW i \in Item
             PROVE  Cardinality(Owners(i)) + Cardinality(Places(i)) <= Cardinality(User)
  BY DEF ItemsNotDuplicated, Owners, Places
<1>1. Owners(i) = User
  BY DEF Init, Owners
<1>2. Clan = {}
  BY DEF Init, Clan
<1>3. Places(i) = {}
  BY <1>2 DEF Places
<1>4. Cardinality(User) \in Nat /\ Cardinality({}) = 0
  BY FS_CardinalityType, FS_EmptySet, FiniteAssumption
<1> QED BY <1>1, <1>3, <1>4

\* No step adds a copy: what is stored was owned, what is founded is empty.
LEMMA ItemsNext ==
  ASSUME Rows, ItemsNotDuplicated, [Next]_vars
  PROVE  ItemsNotDuplicated'
<1> SUFFICES ASSUME NEW i \in Item
             PROVE  Cardinality(Owners(i)') + Cardinality(Places(i)') <= Cardinality(User)
  BY DEF ItemsNotDuplicated, Owners, Places
<1>1. Cardinality(Owners(i)) + Cardinality(Places(i)) <= Cardinality(User)
  BY DEF ItemsNotDuplicated, Owners, Places
<1>2. /\ IsFiniteSet(Owners(i)) /\ IsFiniteSet(Places(i))
      /\ Cardinality(Owners(i)) \in Nat /\ Cardinality(Places(i)) \in Nat /\ Cardinality(User) \in Nat
  BY CopiesFinite, FS_CardinalityType, FiniteAssumption
<1>3. ASSUME Owners(i)' = Owners(i), Places(i)' \subseteq Places(i)
      PROVE  Cardinality(Owners(i)') + Cardinality(Places(i)') <= Cardinality(User)
  <2>1. Cardinality(Places(i)') <= Cardinality(Places(i)) /\ Cardinality(Places(i)') \in Nat
    BY <1>2, <1>3, FS_Subset, FS_CardinalityType
  <2> QED BY <1>1, <1>2, <1>3, <2>1
<1>4. i # NoItem
  BY NameAssumption DEF NoItem
<1>5. ASSUME own' = own, DOMAIN clan' = DOMAIN clan, stored' = stored
      PROVE  Owners(i)' = Owners(i) /\ Places(i)' \subseteq Places(i)
  BY <1>5 DEF Owners, Places, Clan
<1>6. CASE Statement
  <2>1. own' = own /\ stored' = stored
    BY <1>6 DEF Statement, UpdateCount, UpdateName, InsertMember, DemoteMaster, items
  <2>2. DOMAIN clan' = DOMAIN clan
    BY <1>6 DEF Statement, UpdateCount, UpdateName, InsertMember, DemoteMaster, clans
  <2> QED BY <1>3, <1>5, <2>1, <2>2
<1>7. CASE StatementFails \/ Restart \/ UNCHANGED vars
  BY <1>3, <1>5, <1>7 DEF StatementFails, Restart, vars, items, clans
<1>8. CASE \E late \in SUBSET User : OnMinuteTick(late)
  <2>1. PICK due \in [Item -> BOOLEAN] :
          stored' = [c \in Clan |-> [s \in Slot |->
                       IF stored[c][s] # NoItem /\ due[stored[c][s]] THEN NoItem ELSE stored[c][s]]]
    BY <1>8 DEF OnMinuteTick
  <2>2. clan' = clan /\ own' = own
    BY <1>8 DEF OnMinuteTick, clans
  <2>3. Places(i)' \subseteq Places(i)
    BY <1>4, <2>1, <2>2 DEF Places, Clan
  <2> QED BY <1>3, <2>2, <2>3 DEF Owners
<1>9. ASSUME NEW u \in User, Request(u)
      PROVE  Cardinality(Owners(i)') + Cardinality(Places(i)') <= Cardinality(User)
  <2>1. CASE CreateClan(u)
    <3>1. /\ clan' = Put(clan, next, [count |-> 1, join |-> 3, mark |-> NoMark, marks |-> 1])
          /\ stored' = Put(stored, next, [s \in Slot |-> NoItem]) /\ own' = own
          /\ next \notin Clan
      BY <2>1 DEF CreateClan, Found, Rows
    <3>2. DOMAIN clan' = Clan \cup {next} /\ \A c \in Clan : stored'[c] = stored[c]
      BY <3>1 DEF Put, Clan, Rows
    <3>3. \A s \in Slot : stored'[next][s] = NoItem
      BY <3>1 DEF Put
    <3>4. Places(i)' \subseteq Places(i)
      BY <1>4, <3>2, <3>3 DEF Places, Clan
    <3> QED BY <1>3, <3>1, <3>4 DEF Owners
  <2>2. CASE DissolveClan(u)
    <3>1. clan' = Drop(clan, {ClanOf(u)}) /\ stored' = Drop(stored, {ClanOf(u)}) /\ own' = own
      BY <2>2 DEF DissolveClan, Dissolve
    <3>2. DOMAIN clan' \subseteq Clan /\ \A c \in DOMAIN clan' : stored'[c] = stored[c]
      BY <3>1 DEF Drop, Clan, Rows
    <3>3. Places(i)' \subseteq Places(i)
      BY <3>2 DEF Places, Clan
    <3> QED BY <1>3, <3>1, <3>3 DEF Owners
  <2>3. CASE ~CreateClan(u) /\ ~DissolveClan(u)
    <3>1. own' = own /\ stored' = stored
      BY <1>9, <2>3 DEF Request, Login, Logout, CancelJoin, LeaveClan, JoinClan, RequestJoin, RequestFails,
        ClanApprove, ClanInvite, ClanKick, ClanMasterDelegate, UpdateClanMemberGrade, ClanReject,
        UpdateJoinMethod, UpdateMark, items
    <3>2. DOMAIN clan' = DOMAIN clan
      BY <1>9, <2>3 DEF Request, Login, Logout, CancelJoin, LeaveClan, JoinClan, RequestJoin, RequestFails,
        ClanApprove, ClanInvite, ClanKick, ClanMasterDelegate, UpdateClanMemberGrade, ClanReject,
        UpdateJoinMethod, UpdateMark, UpdateClan, clans
    <3> QED BY <1>3, <1>5, <3>1, <3>2
  <2> QED BY <2>1, <2>2, <2>3
<1>10. ASSUME NEW u \in User, StorageRequest(u)
       PROVE  Cardinality(Owners(i)') + Cardinality(Places(i)') <= Cardinality(User)
  <2>1. clan' = clan
    BY <1>10 DEF StorageRequest, UpdateClanStorageAccessGrade, DeleteClanStorageItem, GetClanStorageItem,
      AddClanStorageItem, clans
  <2>2. CASE \/ \E grade \in PageGrade : UpdateClanStorageAccessGrade(u, grade)
             \/ \E s \in Slot : GetClanStorageItem(u, s)
    <3>1. own' = own /\ stored' = stored
      BY <2>2 DEF UpdateClanStorageAccessGrade, GetClanStorageItem, items
    <3> QED BY <1>3, <1>5, <2>1, <3>1
  <2>3. ASSUME NEW s \in Slot, DeleteClanStorageItem(u, s)
        PROVE  Cardinality(Owners(i)') + Cardinality(Places(i)') <= Cardinality(User)
    <3>1. stored' = [stored EXCEPT ![ClanOf(u)][s] = NoItem] /\ own' = own
      BY <2>3 DEF DeleteClanStorageItem, Clear
    <3>2. \A c \in Clan : \A t \in Slot : stored'[c][t] \in {stored[c][t], NoItem}
      BY <3>1 DEF Rows
    <3>3. Places(i)' \subseteq Places(i)
      BY <1>4, <2>1, <3>2 DEF Places, Clan
    <3> QED BY <1>3, <3>1, <3>3 DEF Owners
  <2>4. ASSUME NEW s \in Slot, NEW j \in Item, AddClanStorageItem(u, j, s)
        PROVE  Cardinality(Owners(i)') + Cardinality(Places(i)') <= Cardinality(User)
    <3>1. /\ stored[ClanOf(u)][s] = NoItem /\ j \in own[u]
          /\ stored' = [stored EXCEPT ![ClanOf(u)][s] = j]
          /\ own' = [own EXCEPT ![u] = @ \ {j}]
          /\ u \in DOMAIN member
      BY <2>4 DEF AddClanStorageItem, Given, MayUseStorage, IsMember
    <3>2. PICK c \in Clan : c = ClanOf(u)
      BY <3>1 DEF Rows, ClanOf
    <3>3. \A d \in Clan : \A t \in Slot : stored'[d][t] = IF d = c /\ t = s THEN j ELSE stored[d][t]
      BY <3>1, <3>2 DEF Rows
    <3>4. \A v \in User : own'[v] = IF v = u THEN own[v] \ {j} ELSE own[v]
      BY <3>1 DEF Rows
    <3>5. CASE i # j
      <4>1. Owners(i)' = Owners(i)
        BY <3>4, <3>5 DEF Owners
      <4>2. Places(i)' \subseteq Places(i)
        BY <2>1, <3>3, <3>5 DEF Places, Clan
      <4> QED BY <1>3, <4>1, <4>2
    <3>6. CASE i = j
      <4>1. Owners(i)' = Owners(i) \ {u} /\ u \in Owners(i)
        BY <3>1, <3>4, <3>6 DEF Owners
      <4>2. Places(i)' \subseteq Places(i) \cup {<<c, s>>}
        BY <2>1, <3>3 DEF Places, Clan
      <4>3. Cardinality(Owners(i) \ {u}) = Cardinality(Owners(i)) - 1
        BY <1>2, <4>1, FS_RemoveElement
      <4>4. /\ IsFiniteSet(Places(i) \cup {<<c, s>>})
            /\ Cardinality(Places(i) \cup {<<c, s>>}) <= Cardinality(Places(i)) + 1
            /\ Cardinality(Places(i) \cup {<<c, s>>}) \in Nat
        <5>1. /\ IsFiniteSet(Places(i) \cup {<<c, s>>})
              /\ Cardinality(Places(i) \cup {<<c, s>>}) \in {Cardinality(Places(i)), Cardinality(Places(i)) + 1}
          BY <1>2, FS_AddElement
        <5> QED BY <1>2, <5>1
      <4>5. Cardinality(Places(i)') <= Cardinality(Places(i) \cup {<<c, s>>}) /\ Cardinality(Places(i)') \in Nat
        BY <4>2, <4>4, FS_Subset, FS_CardinalityType
      <4> QED BY <1>1, <1>2, <4>1, <4>3, <4>4, <4>5
    <3> QED BY <3>5, <3>6
  <2> QED BY <1>10, <2>2, <2>3, <2>4 DEF StorageRequest
<1> QED BY <1>6, <1>7, <1>8, <1>9, <1>10 DEF Next

\* Lending multiplies no item: a kind has never more copies, owned or stored, than there are
\* users, whatever is given, lent, taken out or dissolved, for any clans, items and slots.
THEOREM ItemsAreNotDuplicated == Spec => []ItemsNotDuplicated
<1>1. ClanInv /\ ItemsNotDuplicated /\ [Next]_vars => ItemsNotDuplicated'
  BY ItemsNext DEF ClanInv
<1> QED BY <1>1, ItemsInit, ClansInvariant, PTL DEF Spec

=============================================================================
