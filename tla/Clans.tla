--------------------------------- MODULE Clans ---------------------------------
(***************************************************************************)
(* Clans: who is a member of which clan and with which grade, requests and *)
(* invitations, the number of members a clan keeps beside them, the clan   *)
(* every user's character names, and the storage that members share.  A    *)
(* request is answered by a sequence of statements of which only the ones  *)
(* of CreateClan and AddClanStorageItem form a transaction: "todo" is the  *)
(* rest of the running sequence, given up when a statement fails or the    *)
(* process ends.                                                           *)
(***************************************************************************)
EXTENDS Integers, Sequences, FiniteSets

CONSTANTS
  User,
  Item,         \* item IDs
  Lasting,      \* those of them that have no expiry date
  Slot,         \* slots of a storage page; the pages of a clan are alike
  Mark,         \* clan marks
  MaxClan,      \* bound: clans created
  MaxMembers,   \* maxMemberCount
  MaxItems,     \* inventorySlotMax
  Wealth,       \* how many clans a user's points pay for
  Method,       \* bound: join methods asked for, among 0..3
  Grade,        \* bound: grades given to members, among 0..3
  PageGrade,    \* bound: grades given to pages, among 0..3
  DbErrors      \* may a statement fail

ASSUME LastingAssumption == Lasting \subseteq Item
ASSUME SizeAssumption == {MaxClan, MaxMembers, MaxItems, Wealth} \subseteq Nat
ASSUME FiniteAssumption == IsFiniteSet(User) /\ IsFiniteSet(Slot)
\* Clans, users and "none" are told apart.
ASSUME NameAssumption == User \cap Int = {} /\ "none" \notin Item \cup Mark
ASSUME GradeAssumption == Method \subseteq 0..3 /\ Grade \cup PageGrade \subseteq 0..3

VARIABLES
  clan,      \* Clan: clanID -> memberCount, joinMethod, markID, markChangeCount
  next,      \* UserDist.clanIDNext
  member,    \* ClanMember: userID -> clan and grade; 0 is the master's grade
  request,   \* ClanMemberRequest: userID -> clan
  invite,    \* ClanInvite: clan and user
  names,     \* UserCharacter.clanID: user -> clan, 0 for none
  points,    \* UserCharacter.points: user -> clans they still pay for
  access,    \* ClanStoragePage: clan -> highest grade that may use the page
  stored,    \* ClanStorageItem: clan -> slot -> item, NoItem for a free slot
  own,       \* UserInventory: user -> items of the user's own
  lent,      \* UserInventory: user -> copies of clan items, which last a day
  online,    \* users logged in
  todo,      \* statements left of the running handler
  torn       \* history: clans and users left with a statement not done

clans == <<clan, next, access>>
members == <<member, request, invite>>
items == <<stored, own, lent>>
vars == <<clans, members, names, points, items, online, todo, torn>>

NoItem == "none"
NoMark == "none"
Clan == DOMAIN clan
Ready == todo = <<>>
First == Head(todo)
Members(c) == {u \in DOMAIN member : member[u].clan = c}
IsMember(u) == u \in DOMAIN member
ClanOf(u) == member[u].clan
GetClan(u) == clan[ClanOf(u)]
\* GetClanUserList by a user: the members of the clan that the user's character names.
ClanUsers(u) == Members(names[u])
\* memberGrade <= 1: the clan master and the family masters.
Leads(u) == IsMember(u) /\ member[u].grade <= 1
IsMaster(u) == IsMember(u) /\ member[u].grade = 0
Put(f, x, value) == [y \in DOMAIN f \cup {x} |-> IF y = x THEN value ELSE f[y]]
Drop(f, gone) == [y \in DOMAIN f \ gone |-> f[y]]

\* The statements a handler still has to do, each with the clan and the user it is for.
Count(c, by) == [do |-> "count", clan |-> c, user |-> by, by |-> 1]
Uncount(c, u) == [do |-> "count", clan |-> c, user |-> u, by |-> -1]
Name(u, c) == [do |-> "name", clan |-> c, user |-> u, by |-> 0]
Insert(u, c) == [do |-> "insert", clan |-> c, user |-> u, by |-> 0]
Demote(u) == [do |-> "demote", clan |-> ClanOf(u), user |-> u, by |-> 0]

-----------------------------------------------------------------------------
(* The rest of a handler *)

Rest == Tail(todo)

\* memberCount = memberCount + 1 or - 1
UpdateCount ==
  /\ ~Ready /\ First.do = "count"
  /\ IF First.clan \in Clan
     THEN clan' = [clan EXCEPT ![First.clan].count = @ + First.by] /\ todo' = Rest
     ELSE todo' = <<>> /\ UNCHANGED clan
  /\ UNCHANGED <<next, access, members, names, points, items, online, torn>>

\* UpdateClan of a user, or ClanApprove's last statement.
UpdateName ==
  /\ ~Ready /\ First.do = "name"
  /\ names' = [names EXCEPT ![First.user] = First.clan]
  /\ todo' = Rest
  /\ torn' = torn \ {First.user}
  /\ UNCHANGED <<clans, members, points, items, online>>

\* ClanApprove inserts the member; one who is in a clan already is refused by the key.
InsertMember ==
  /\ ~Ready /\ First.do = "insert"
  /\ IF IsMember(First.user) THEN todo' = <<>> /\ UNCHANGED member
     ELSE /\ member' = Put(member, First.user, [clan |-> First.clan, grade |-> 3])
          /\ todo' = Rest
  /\ UNCHANGED <<clans, request, invite, names, points, items, online, torn>>

\* The second statement of ClanMasterDelegate.
DemoteMaster ==
  /\ ~Ready /\ First.do = "demote"
  /\ member' = [member EXCEPT ![First.user].grade = 1]
  /\ todo' = Rest
  /\ UNCHANGED <<clans, request, invite, names, points, items, online, torn>>

\* What the statements given up would have changed.
Left == {todo[k].clan : k \in {j \in DOMAIN todo : todo[j].do = "count"}}
          \cup {todo[k].user : k \in {j \in DOMAIN todo : todo[j].do = "name"}}
\* Before its member is inserted, an approval has changed nothing that others depend on.
LeftTorn == IF ~Ready /\ First.do = "insert" THEN {} ELSE Left

\* Bound: one handler leaves a clan or user behind.
CutShort == (LeftTorn = {} \/ torn = {}) /\ todo' = <<>> /\ torn' = torn \cup LeftTorn

\* A statement fails: the handler ends with a database error.  UpdateCharacter's result is
\* not looked at, but nothing follows it.
StatementFails ==
  /\ DbErrors /\ ~Ready
  /\ CutShort
  /\ UNCHANGED <<clans, members, names, points, items, online>>

Restart ==
  /\ online' = {} /\ CutShort
  /\ UNCHANGED <<clans, members, names, points, items>>

-----------------------------------------------------------------------------
(* Founding and ending a clan *)

\* Tests, then one transaction that takes the points and writes every table.
Found(u) ==
  /\ ~IsMember(u) /\ u \notin DOMAIN request /\ points[u] > 0
  /\ points' = [points EXCEPT ![u] = @ - 1]
  /\ clan' = Put(clan, next, [count |-> 1, join |-> 3, mark |-> NoMark, marks |-> 1])
  /\ next' = next + 1
  /\ member' = Put(member, u, [clan |-> next, grade |-> 0])
  /\ access' = Put(access, next, 3)
  /\ stored' = Put(stored, next, [s \in Slot |-> NoItem])

\* GetUserById finds the founder, who sent the request.
CreateClan(u) ==
  /\ Ready /\ u \in online /\ next <= MaxClan
  /\ Found(u)
  /\ todo' = <<Name(u, next)>>
  /\ UNCHANGED <<request, invite, names, own, lent, online, torn>>

\* The rows of a clan in every table go with it.
Dissolve(c) ==
  /\ clan' = Drop(clan, {c}) /\ access' = Drop(access, {c}) /\ stored' = Drop(stored, {c})
  /\ member' = Drop(member, Members(c))
  /\ request' = Drop(request, {v \in DOMAIN request : request[v] = c})
  /\ invite' = {i \in invite : i.clan # c}

\* The character of nobody but the user who asked for it is updated.
DissolveClan(u) ==
  /\ Ready /\ u \in online /\ Leads(u)
  /\ Dissolve(ClanOf(u))
  /\ todo' = <<Name(u, 0)>>
  /\ UNCHANGED <<next, names, points, own, lent, online, torn>>

-----------------------------------------------------------------------------
(* Joining and leaving *)

\* Not in the clan already, and the clan is not full.
MayJoin(u, c) == ~(IsMember(u) /\ ClanOf(u) = c) /\ clan[c].count < MaxMembers

\* JoinClan of a clan that takes everyone.
JoinClan(u, c) ==
  /\ Ready /\ u \in online /\ MayJoin(u, c)
  /\ clan[c].join = 3
  /\ ~IsMember(u)
  /\ member' = Put(member, u, [clan |-> c, grade |-> 3])
  /\ todo' = <<Count(c, u), Name(u, c)>>
  /\ UNCHANGED <<clans, request, invite, names, points, items, online, torn>>

\* JoinClan of a clan that approves of its members: an invitation is used up by a request.
RequestJoin(u, c) ==
  /\ Ready /\ u \in online /\ MayJoin(u, c)
  /\ clan[c].join = 2
  /\ u \notin DOMAIN request
  /\ invite' = invite \ {[clan |-> c, user |-> u]}
  /\ request' = Put(request, u, c)
  /\ UNCHANGED <<clans, member, names, points, items, online, todo, torn>>

\* Between the deletion of the invitation and the request.
RequestFails(u, c) ==
  /\ DbErrors
  /\ Ready /\ u \in online /\ MayJoin(u, c)
  /\ clan[c].join = 2
  /\ u \notin DOMAIN request
  /\ invite' = invite \ {[clan |-> c, user |-> u]}
  /\ UNCHANGED <<clans, member, request, names, points, items, online, todo, torn>>

\* DELETE FROM ClanMemberRequest
Withdraw(gone) == request' = Drop(request, gone)

CancelJoin(u) ==
  /\ Ready /\ u \in online /\ u \in DOMAIN request
  /\ Withdraw({u})
  /\ UNCHANGED <<clans, member, invite, names, points, items, online, todo, torn>>

\* Mutants: the number of members, the character is forgotten.
ApprovalM(v, c) == <<Insert(v, c), Name(v, c)>>
ApprovalNameless(v, c) == <<Insert(v, c), Count(c, v)>>
\* The statements of ClanApprove after the request is deleted.
Approval(v, c) == <<Insert(v, c), Count(c, v), Name(v, c)>>

\* ClanApprove; the number of members is not looked at again.
ClanApprove(u, v) ==
  /\ Ready /\ u \in online /\ Leads(u)
  /\ v \in DOMAIN request /\ request[v] = ClanOf(u)
  /\ Withdraw({v})
  /\ todo' = Approval(v, ClanOf(u))
  /\ UNCHANGED <<clans, member, invite, names, points, items, online, torn>>

Applicants(c) == {v \in DOMAIN request : request[v] = c}

\* One by any leader, all by the master.
ClanReject(u, rejected) ==
  /\ Ready /\ u \in online /\ Leads(u)
  /\ rejected # {} /\ rejected \subseteq Applicants(ClanOf(u))
  /\ \/ Cardinality(rejected) = 1
     \/ IsMaster(u) /\ rejected = Applicants(ClanOf(u))
  /\ Withdraw(rejected)
  /\ UNCHANGED <<clans, member, invite, names, points, items, online, todo, torn>>

\* A user who is online and is not a master nor in the clan already.
MayInvite(u, v) ==
  /\ v \in online /\ Leads(u)
  /\ ~IsMaster(v) /\ ~(IsMember(v) /\ ClanOf(v) = ClanOf(u))

ClanInvite(u, v) ==
  /\ Ready /\ u \in online /\ MayInvite(u, v)
  /\ invite' = invite \cup {[clan |-> ClanOf(u), user |-> v]}
  /\ UNCHANGED <<clans, member, request, names, points, items, online, todo, torn>>

\* Anyone but a master.
Leave(u) ==
  /\ IsMember(u) /\ ~IsMaster(u)
  /\ member' = Drop(member, {u})

LeaveClan(u) ==
  /\ Ready /\ u \in online
  /\ Leave(u)
  /\ todo' = <<Uncount(ClanOf(u), u), Name(u, 0)>>
  /\ UNCHANGED <<clans, request, invite, names, points, items, online, torn>>

\* A member of a lower rank.  A member of another clan is found as well, but is not deleted.
MayKick(u, v) ==
  /\ Leads(u)
  /\ IsMember(v) /\ member[v].grade > member[u].grade
  /\ ClanOf(v) = ClanOf(u)

\* Only the character of a user who is online is updated.
ClanKick(u, v) ==
  /\ Ready /\ u \in online /\ MayKick(u, v)
  /\ member' = Drop(member, {v})
  /\ todo' = <<Uncount(ClanOf(u), v)>> \o (IF v \in online THEN <<Name(v, 0)>> ELSE <<>>)
  /\ UNCHANGED <<clans, request, invite, names, points, items, online, torn>>

\* The master may grade anyone in the clan, the master included.
MayGrade(u, v) == IsMaster(u) /\ IsMember(v) /\ ClanOf(v) = ClanOf(u)

UpdateClanMemberGrade(u, v, grade) ==
  /\ Ready /\ u \in online /\ MayGrade(u, v)
  /\ member' = [member EXCEPT ![v].grade = grade]
  /\ UNCHANGED <<clans, request, invite, names, points, items, online, todo, torn>>

\* ClanMasterDelegate to a family master, of whichever clan; Clan.masterUserID stays.
ClanMasterDelegate(u, v) ==
  /\ Ready /\ u \in online /\ IsMaster(u)
  /\ IsMember(v) /\ member[v].grade = 1
  /\ member' = [member EXCEPT ![v].grade = 0]
  /\ todo' = <<Demote(u)>>
  /\ UNCHANGED <<clans, request, invite, names, points, items, online, torn>>

-----------------------------------------------------------------------------
(* Configuration and mark *)

\* UPDATE Clan ... WHERE clanID = the clan the user leads.
UpdateClan(u, row) ==
  /\ Leads(u)
  /\ clan' = [clan EXCEPT ![ClanOf(u)] = row]

\* OnClanUpdateConfigRequest
UpdateJoinMethod(u, method) ==
  /\ Ready /\ u \in online
  /\ UpdateClan(u, [GetClan(u) EXCEPT !.join = method])
  /\ UNCHANGED <<next, access, members, names, points, items, online, todo, torn>>

MarkFree(m) == \A c \in Clan : clan[c].mark # m

\* OnClanUpdateMarkRequest
UpdateMark(u, m) ==
  /\ Ready /\ u \in online /\ Leads(u)
  /\ GetClan(u).marks > 0
  /\ MarkFree(m)
  /\ UpdateClan(u, [GetClan(u) EXCEPT !.mark = m, !.marks = @ - 1])
  /\ UNCHANGED <<next, access, members, names, points, items, online, todo, torn>>

-----------------------------------------------------------------------------
(* The storage *)

MayUseStorage(u) == IsMember(u) /\ member[u].grade <= access[ClanOf(u)]

SetAccess(u, grade) ==
  /\ Leads(u)
  /\ access' = [access EXCEPT ![ClanOf(u)] = grade]

UpdateClanStorageAccessGrade(u, grade) ==
  /\ Ready /\ u \in online
  /\ SetAccess(u, grade)
  /\ UNCHANGED <<clan, next, members, names, points, items, online, todo, torn>>

\* Mutant: the row of a given item stays in the inventory.
GivenM(u, i) == own
\* The inventory row goes with the item.
Given(u, i) == [own EXCEPT ![u] = @ \ {i}]

\* AddClanStorageItem, one transaction; m_nIsClanItem must not be set.
AddClanStorageItem(u, i, s) ==
  /\ Ready /\ u \in online /\ MayUseStorage(u)
  /\ stored[ClanOf(u)][s] = NoItem
  /\ i \in own[u]
  /\ stored' = [stored EXCEPT ![ClanOf(u)][s] = i]
  /\ own' = Given(u, i)
  /\ UNCHANGED <<clans, members, names, points, lent, online, todo, torn>>

Clear(u, s) ==
  /\ MayUseStorage(u)
  /\ stored' = [stored EXCEPT ![ClanOf(u)][s] = NoItem]

DeleteClanStorageItem(u, s) ==
  /\ Ready /\ u \in online
  /\ Clear(u, s)
  /\ UNCHANGED <<clans, members, names, points, own, lent, online, todo, torn>>

\* IsInventoryFull, and the tests AddInventoryItem makes for a clan item.
MayBorrow(u, i) ==
  /\ Cardinality(own[u]) + Len(lent[u]) < MaxItems
  /\ ~(i \in Lasting /\ i \in own[u])
  /\ \A k \in DOMAIN lent[u] : lent[u][k] # i

\* GetClanStorageItem: a copy for a day; the storage keeps the item.
GetClanStorageItem(u, s) ==
  /\ Ready /\ u \in online /\ MayUseStorage(u)
  /\ LET i == stored[ClanOf(u)][s] IN
     /\ i # NoItem /\ MayBorrow(u, i)
     /\ lent' = [lent EXCEPT ![u] = Append(@, i)]
  /\ UNCHANGED <<clans, members, names, points, stored, own, online, todo, torn>>

\* A stored item's date is its date in the inventory * 1440 + now.  An item that lasts has
\* date 0 and is due at once; for any other the product overflows and may be any date.
Due(i) == IF i \in Lasting THEN {TRUE} ELSE BOOLEAN

\* OnMinuteTick: stored items that are due, and the copies whose day is over.
OnMinuteTick(late) ==
  /\ Ready
  /\ \E due \in [Item -> BOOLEAN] :
       /\ \A i \in Item : due[i] \in Due(i)
       /\ stored' = [c \in Clan |-> [s \in Slot |->
                       IF stored[c][s] # NoItem /\ due[stored[c][s]] THEN NoItem ELSE stored[c][s]]]
  /\ lent' = [u \in User |-> IF u \in late THEN <<>> ELSE lent[u]]
  /\ UNCHANGED <<clans, members, names, points, own, online, todo, torn>>

-----------------------------------------------------------------------------

Login(u) ==
  /\ Ready /\ u \notin online
  /\ online' = online \cup {u}
  /\ UNCHANGED <<clans, members, names, points, items, todo, torn>>

Logout(u) ==
  /\ Ready /\ u \in online
  /\ online' = online \ {u}
  /\ UNCHANGED <<clans, members, names, points, items, todo, torn>>

Init ==
  /\ clan = <<>> /\ next = 1 /\ access = <<>>
  /\ member = <<>> /\ request = <<>> /\ invite = {}
  /\ names = [u \in User |-> 0] /\ points = [u \in User |-> Wealth]
  /\ stored = <<>> /\ own = [u \in User |-> Item] /\ lent = [u \in User |-> <<>>]
  /\ online = {} /\ todo = <<>> /\ torn = {}

Statement == UpdateCount \/ UpdateName \/ InsertMember \/ DemoteMaster

Request(u) ==
  \/ Login(u) \/ Logout(u)
  \/ CreateClan(u) \/ DissolveClan(u) \/ CancelJoin(u) \/ LeaveClan(u)
  \/ \E c \in Clan : JoinClan(u, c) \/ RequestJoin(u, c) \/ RequestFails(u, c)
  \/ \E v \in User : \/ ClanApprove(u, v) \/ ClanInvite(u, v) \/ ClanKick(u, v)
                     \/ ClanMasterDelegate(u, v)
                     \/ \E grade \in Grade : UpdateClanMemberGrade(u, v, grade)
  \/ \E rejected \in SUBSET DOMAIN request : ClanReject(u, rejected)
  \/ \E method \in Method : UpdateJoinMethod(u, method)
  \/ \E m \in Mark : UpdateMark(u, m)

StorageRequest(u) ==
  \/ \E grade \in PageGrade : UpdateClanStorageAccessGrade(u, grade)
  \/ \E s \in Slot : \/ DeleteClanStorageItem(u, s) \/ GetClanStorageItem(u, s)
                     \/ \E i \in Item : AddClanStorageItem(u, i, s)

Next ==
  \/ Statement \/ StatementFails \/ Restart
  \/ \E u \in User : Request(u) \/ StorageRequest(u)
  \/ \E late \in SUBSET User : OnMinuteTick(late)

Spec == Init /\ [][Next]_vars

-----------------------------------------------------------------------------
(* Properties *)

\* Every clan row and member row is well formed, and members, requests, invitations and
\* storage rows are those of existing clans, which the keys of main.sql see to.
TypeOK ==
  /\ Clan \subseteq 1..MaxClan /\ next \in 1..MaxClan + 1 /\ \A c \in Clan : c < next
  /\ \A c \in Clan : /\ clan[c].count \in Int /\ clan[c].join \in 0..3
                     /\ clan[c].mark \in Mark \cup {NoMark} /\ clan[c].marks \in 0..1
  /\ \A u \in DOMAIN member : u \in User /\ ClanOf(u) \in Clan /\ member[u].grade \in 0..3
  /\ \A u \in DOMAIN request : u \in User /\ request[u] \in Clan
  /\ \A i \in invite : i.clan \in Clan /\ i.user \in User
  /\ names \in [User -> 0..MaxClan] /\ points \in [User -> 0..Wealth]
  /\ access \in [Clan -> 0..3] /\ stored \in [Clan -> [Slot -> Item \cup {NoItem}]]
  /\ own \in [User -> SUBSET Item]
  /\ \A u \in User : lent[u] \in Seq(Item) /\ Cardinality(own[u]) + Len(lent[u]) <= MaxItems
  /\ online \subseteq User

\* Between two requests the number of members a clan keeps is the number of its member rows,
\* unless a handler has been cut short between the two statements that change them: seven
\* handlers insert or delete member rows and change the number on their own
\* (userdatabase_sqlite.cpp, JoinClan to ClanKick).
CountAgrees ==
  Ready => \A c \in Clan \ torn : clan[c].count = Cardinality(Members(c))

\* Between two requests what a member says to the clan reaches the members of that clan and
\* nobody else, unless a handler has been cut short: GetClanUserList finds them by the
\* user's character, which the managers write (user.cpp, UpdateClan) and the statements
\* that insert the member do not.
MembersKnow ==
  Ready => \A u \in DOMAIN member : u \notin torn => ClanUsers(u) = Members(ClanOf(u))

\* No two clans have the same mark, whatever clans are founded, marked and dissolved.
MarksDiffer ==
  \A c, d \in Clan : c # d /\ clan[c].mark # NoMark => clan[c].mark # clan[d].mark

\* Lending multiplies no item: the users' own and the stored items of a kind are never more
\* than the users had at first, whatever is given, lent, given again, taken out and deleted.
\* The inventory row of a lent copy differs from one of the user's own in a flag only.
ItemsNotDuplicated ==
  \A i \in Item :
    Cardinality({u \in User : i \in own[u]})
      + Cardinality({p \in Clan \X Slot : stored[p[1]][p[2]] = i}) <= Cardinality(User)

\* The minute tick deletes "storage items with expired date" (userdatabase_sqlite.cpp:5862):
\* an item without a date is not among them.
LastingStayStored ==
  [][\E late \in SUBSET User : OnMinuteTick(late) =>
       \A c \in Clan : \A s \in Slot : stored[c][s] \in Lasting => stored'[c][s] = stored[c][s]]_vars
=============================================================================
