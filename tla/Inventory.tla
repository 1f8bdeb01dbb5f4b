------------------------------ MODULE Inventory ------------------------------
(***************************************************************************)
(* The inventory of one user: the UserInventory table, the costume and     *)
(* effect fields that name items of it, the points, and the handlers of    *)
(* the item, shop and lucky item managers that change them.  A handler is  *)
(* a chain of database calls; each call is a step, the handler's locals    *)
(* are in the variable call, and no other handler starts before it ends    *)
(* (the server's critical section).  Only a crash comes in between: the    *)
(* tables stay, an open transaction is rolled back.                        *)
(***************************************************************************)
EXTENDS Integers, Sequences, FiniteSets

CONSTANTS
  Item,          \* item IDs
  None,          \* item ID 0
  Kind,          \* Item -> what AddItem and UseItem tell apart
  Drops,         \* goods that a box may contain
  RewardOf,      \* Item -> reward of the item when used, or None
  Product,       \* products of the shop: [goods, price, bonus]
  Reward,        \* rewards: [goods, lots, points, select]
  Fixed,         \* pseudo-default items, never removed
  InventoryMax,  \* inventorySlotMax
  Day,           \* minutes of a day
  MaxDays,       \* 999: longer becomes permanent
  DbErrors,      \* may a database call fail
  GameMaster     \* may the user give the commands of a game master

CONSTANTS        \* bounds of the model
  NextMax, Horizon, MaxDate, MaxPoints, MaxNotices, MaxUse

ASSUME NoneAssumption == None \notin Item
ASSUME SizeAssumption == InventoryMax \in Nat

VARIABLES
  rows,      \* UserInventory in rowid order
  next,      \* nextInventorySlot
  due,       \* 1: the statement that advances nextInventorySlot is still to come
  worn,      \* costume of the loadout's slot
  effect,    \* nameplate of the character (an item of class LobbyBG)
  points,
  pending,   \* UserRewardNotice: notices in the order stored
  now,       \* minutes, later than any number of days
  online,
  call,      \* the running handler
  stored,    \* history: rewards of the notices stored so far
  redeemed,  \* history: notices whose reward GiveReward has gone through
  torn       \* history: a new row was written and the advance of nextInventorySlot was not

vars == <<rows, next, due, worn, effect, points, pending, now, online, call, stored, redeemed,
          torn>>
table == <<rows, next, due>>
dress == <<worn, effect>>
history == <<stored, redeemed, torn>>

FirstOf(S) == CHOOSE i \in S : \A j \in S : i <= j
Cap(d) == IF d > MaxDate THEN MaxDate ELSE d

Row(s, id, count, status, inUse, obtain, expiry) ==
  [slot |-> s, id |-> id, count |-> count, status |-> status, inUse |-> inUse,
   obtain |-> obtain, expiry |-> expiry]
FreeRow(s) == Row(s, None, 0, 0, 0, 0, 0)
NullRow == FreeRow(0)

Owned == {i \in DOMAIN rows : rows[i].id # None}
Free == DOMAIN rows \ Owned
Of(id) == {i \in DOMAIN rows : rows[i].id = id}
\* Mutant: the query forgets that a permanent item has no date to extend.
ExtendableM(id) == Of(id)
Extendable(id) == {i \in Of(id) : rows[i].expiry # 0}
Active(id) == {i \in Of(id) : rows[i].status = 1 /\ rows[i].inUse = 1}
IsInventoryFull == Cardinality(Owned) >= InventoryMax
Countable(id) == Kind[id] \in {"countable", "box", "extender"}

\* UPDATE ... WHERE slot = ?
Write(t, r) == [i \in DOMAIN t |-> IF t[i].slot = r.slot THEN r ELSE t[i]]

\* The handler's locals: what it still has to do, and the tables at the last BEGIN.
Idle == [op |-> "idle", goods |-> <<>>, insert |-> <<>>, update |-> <<>>, price |-> 0,
         gain |-> 0, notices |-> <<>>, item |-> NullRow, count |-> 0,
         saved |-> [rows |-> <<>>, next |-> 0, worn |-> None, effect |-> None]]
\* Bounds: room for what a handler may add.
Roomy == /\ next + MaxUse + MaxNotices <= NextMax
         /\ \A i \in DOMAIN rows : rows[i].count <= MaxUse
Ready == online /\ call = Idle /\ due = 0 /\ Roomy
At(op) == call.op = op /\ due = 0

-----------------------------------------------------------------------------
(* The calls of the user database *)

\* A free row is taken before the table grows; a second statement advances the next slot.
AddInventoryItem(r) ==
  /\ rows' = IF Free # {} THEN Write(rows, [r EXCEPT !.slot = rows[FirstOf(Free)].slot])
                          ELSE Append(rows, [r EXCEPT !.slot = next])
  /\ due' = 1
  /\ UNCHANGED next

AdvanceSlot ==
  /\ due = 1
  /\ due' = 0
  /\ \/ next' = next + 1 /\ torn' = torn
     \/ /\ DbErrors
        /\ next' = next
        /\ torn' = (torn \/ \E i \in DOMAIN rows : rows[i].slot >= next)
  /\ UNCHANGED <<rows, dress, points, pending, now, online, call, stored, redeemed>>

\* Mutant: a new row does not advance the next slot.
PlaceInsertM(r) ==
  /\ rows' = Append(rows, [r EXCEPT !.slot = next])
  /\ next' = next

\* A row of a batch that no free row takes.
PlaceInsert(r) ==
  /\ rows' = Append(rows, [r EXCEPT !.slot = next])
  /\ next' = next + 1

UpdateInventoryItem(r) == rows' = Write(rows, r) /\ UNCHANGED <<next, due>>

GetCostumeLoadout == worn
UpdateCostumeLoadout(id) == worn' = id
GetCharacter == [nameplateID |-> effect, points |-> points]
UpdateNameplate(id) == effect' = id

-----------------------------------------------------------------------------
(* Adding, extending and removing an item *)

ConvertDuration(d) == IF d > 0 THEN Cap(now + d * Day) ELSE 0

\* The new date of a timed row; 0 makes it permanent.
ExtendedDate(r, d) ==
  IF r.inUse = 0 THEN Cap(r.expiry + d)
  ELSE IF d = 0 \/ d + ((r.expiry - r.obtain) \div Day) >= MaxDays THEN 0
  ELSE Cap(r.expiry + d * Day)

ExtendItem(r, d) == UpdateInventoryItem([r EXCEPT !.expiry = ExtendedDate(r, d)])

\* Status and use of a new row, which depend on its class and on what is worn.
NewRow(g, batch) ==
  LET first == Of(g.id) = {}
      flag == IF first THEN 1 ELSE 0
      fits == IF GetCostumeLoadout = None THEN 1 ELSE 0
      expiry == IF first THEN ConvertDuration(g.days) ELSE g.days
      Made(status, inUse) == Row(0, g.id, g.count, status, inUse, now, expiry)
  IN CASE Countable(g.id) -> Made(0, 1)
       [] Kind[g.id] = "costume" -> Made(IF batch THEN flag ELSE fits, fits)
       [] Kind[g.id] = "effect" -> Made(flag, IF GetCharacter.nameplateID = None THEN flag ELSE 0)
       [] OTHER -> Made(flag, flag)

\* The loadout and the nameplate are updated before the row is written.
DressUp(g) ==
  /\ IF Kind[g.id] = "costume" /\ GetCostumeLoadout = None
       THEN UpdateCostumeLoadout(g.id) ELSE UNCHANGED worn
  /\ IF Kind[g.id] = "effect" /\ GetCharacter.nameplateID = None
       THEN UpdateNameplate(g.id) ELSE UNCHANGED effect

Extends(g) == g.days > 0 /\ Extendable(g.id) # {}
Stacks(g) == ~Extends(g) /\ Countable(g.id) /\ Of(g.id) # {}
IsNew(g) == ~Extends(g) /\ ~Stacks(g)
FirstRow(id) == rows[FirstOf(Of(id))]

AddItem(g) ==
  \/ /\ Extends(g)
     /\ ExtendItem(rows[FirstOf(Extendable(g.id))], g.days)
     /\ UNCHANGED dress
  \/ /\ Stacks(g)
     /\ UpdateInventoryItem([FirstRow(g.id) EXCEPT !.count = @ + g.count])
     /\ UNCHANGED dress
  \/ /\ IsNew(g)
     /\ DressUp(g)
     /\ AddInventoryItem(NewRow(g, FALSE))

\* A failing call: nothing has changed yet, or the loadout has and the row is missing.
AddItemFails(g) ==
  /\ DbErrors
  /\ UNCHANGED table
  /\ \/ UNCHANGED dress
     \/ IsNew(g) /\ DressUp(g)

\* AddItem as its callers see it: a full inventory takes nothing.
AddOne(g) ==
  \/ IsInventoryFull /\ UNCHANGED <<table, dress>>
  \/ ~IsInventoryFull /\ (AddItem(g) \/ AddItemFails(g))

\* A removed active row hands its status to another row in use of the same item; the
\* nameplate is cleared, the costume loadout is not.
Remove(r) ==
  LET heirs == {i \in Of(r.id) : rows[i].slot # r.slot /\ rows[i].inUse = 1}
      promoted == IF r.status = 1 /\ r.inUse = 1 /\ heirs # {}
                    THEN Write(rows, [rows[FirstOf(heirs)] EXCEPT !.status = 1])
                    ELSE rows
  IN [rows |-> Write(promoted, FreeRow(r.slot)),
      effect |-> IF effect = r.id THEN None ELSE effect]

RemoveItem(r) ==
  /\ UNCHANGED <<next, due, worn>>
  /\ IF r.id \in Fixed THEN UNCHANGED <<rows, effect>>
     ELSE rows' = Remove(r).rows /\ effect' = Remove(r).effect

SetCount(s, n) ==
  /\ rows' = [i \in DOMAIN rows |-> IF rows[i].slot = s THEN [rows[i] EXCEPT !.count = n]
                                                       ELSE rows[i]]
  /\ UNCHANGED <<next, due>>

\* The end of OnItemUse: the stock of the copy read earlier is written back.
Consume(r, n) ==
  IF r.count = n THEN RemoveItem(r)
  ELSE SetCount(r.slot, r.count - n) /\ UNCHANGED dress

-----------------------------------------------------------------------------
(* The shop *)

BuyProduct(p) ==
  /\ Ready
  /\ GetCharacter.points >= p.price
  /\ call' = [Idle EXCEPT !.op = "buy", !.goods = p.goods, !.price = p.price, !.gain = p.bonus]
  /\ UNCHANGED <<table, dress, points, pending, now, online, history>>

\* An item that finds no room ends the purchase unpaid; the items added before it stay.
DeliverGood ==
  /\ At("buy") /\ call.goods # <<>>
  /\ LET g == Head(call.goods) IN
       \/ /\ IsInventoryFull
          /\ call' = Idle
          /\ UNCHANGED <<table, dress>>
       \/ /\ ~IsInventoryFull
          /\ AddItem(g) \/ AddItemFails(g)
          /\ call' = [call EXCEPT !.goods = Tail(@)]
  /\ UNCHANGED <<points, pending, now, online, history>>

UpdatePoints(n) == points' = IF GetCharacter.points + n > MaxPoints THEN MaxPoints
                             ELSE GetCharacter.points + n

Charge ==
  /\ At("buy") /\ call.goods = <<>>
  /\ UpdatePoints(call.gain - call.price)
  /\ call' = Idle
  /\ UNCHANGED <<table, dress, pending, now, online, history>>

-----------------------------------------------------------------------------
(* Rewards: a drawn item, then a batch of items in one transaction, then points *)

\* What a transaction goes back to.
Saved == [rows |-> rows, next |-> next, worn |-> worn, effect |-> effect]

Begin(r, c) == [c EXCEPT !.op = IF r.lots = {} THEN "batch" ELSE "lot",
                         !.goods = r.goods, !.insert = <<>>, !.update = <<>>, !.gain = r.points,
                         !.saved = Saved]

\* A reward for a user who is not connected is stored as a notice.
GiveReward(r) ==
  /\ call = Idle /\ due = 0
  /\ IF online
       THEN /\ Ready /\ ~r.select
            /\ call' = Begin(r, Idle)
            /\ UNCHANGED <<pending, stored>>
       ELSE /\ Len(stored) < MaxNotices
            /\ stored' = Append(stored, r)
            /\ pending' = Append(pending, Len(stored) + 1)
            /\ UNCHANGED call
  /\ UNCHANGED <<table, dress, points, now, online, redeemed, torn>>

\* The client asks for one item of a reward that offers a choice.
OnRewardSelect(r, k) ==
  /\ Ready /\ r.select /\ k \in DOMAIN r.goods
  /\ AddOne(r.goods[k])
  /\ UpdatePoints(r.points)
  /\ UNCHANGED <<pending, now, online, call, history>>

\* An item drawn from a lot is added outside the transaction; a failure is ignored.
DrawLot ==
  /\ At("lot")
  /\ \E r \in Reward : \E g \in r.lots :
       /\ r.goods = call.goods /\ r.points = call.gain
       /\ AddOne(g)
  /\ call' = [call EXCEPT !.op = "begin"]
  /\ UNCHANGED <<points, pending, now, online, history>>

BeginBatch ==
  /\ At("begin")
  /\ call' = [call EXCEPT !.op = "batch", !.saved = Saved]
  /\ UNCHANGED <<table, dress, points, pending, now, online, history>>

\* Mutant: the rows still to be inserted are not counted.
BatchFullM == Cardinality(Owned) >= InventoryMax
BatchFull == Cardinality(Owned) + Len(call.insert) >= InventoryMax

\* An item of a batch: extended at once, or stacked or inserted when all have been seen.
ExtendGood(g, rest) ==
  /\ Extends(g)
  /\ ExtendItem(rows[FirstOf(Extendable(g.id))], g.days)
  /\ call' = rest
  /\ UNCHANGED dress

StackGood(g, rest) ==
  /\ Stacks(g)
  /\ call' = [rest EXCEPT !.update = Append(@, [slot |-> FirstRow(g.id).slot,
                                               count |-> FirstRow(g.id).count + g.count])]
  /\ UNCHANGED <<table, dress>>

InsertGood(g, rest) ==
  /\ IsNew(g)
  /\ DressUp(g)
  /\ call' = [rest EXCEPT !.insert = Append(@, NewRow(g, TRUE))]
  /\ UNCHANGED table

Collect ==
  /\ At("batch") /\ call.goods # <<>>
  /\ LET g == Head(call.goods)
         rest == [call EXCEPT !.goods = Tail(@)]
     IN \/ /\ BatchFull
           /\ call' = [call EXCEPT !.goods = <<>>]
           /\ UNCHANGED <<table, dress>>
        \/ ~BatchFull /\ (ExtendGood(g, rest) \/ StackGood(g, rest) \/ InsertGood(g, rest))
        \/ /\ ~BatchFull
           /\ AddItemFails(g)
           /\ call' = [call EXCEPT !.goods = <<>>, !.insert = <<>>, !.update = <<>>]
  /\ UNCHANGED <<points, pending, now, online, history>>

\* AddInventoryItems: the first rows of the list are for the free rows, the others are
\* written first, as new rows; then nextInventorySlot advances by their number, then the
\* free rows are written.  A statement writes many rows: here each row is one of its own.
Placing == At("batch") /\ call.goods = <<>> /\ call.insert # <<>>
ForNew == Cardinality(Free) + 1
Without(s, k) == [i \in 1 .. (Len(s) - 1) |-> IF i < k THEN s[i] ELSE s[i + 1]]
Given == [call EXCEPT !.insert = <<>>, !.update = <<>>]

PlaceNew ==
  /\ Placing /\ ForNew <= Len(call.insert)
  /\ PlaceInsert(call.insert[ForNew])
  /\ call' = [call EXCEPT !.insert = Without(@, ForNew)]
  /\ UNCHANGED <<due, dress, points, pending, now, online, history>>

\* The new row is written; a later one, or the advance, fails, and AddItems commits.
PlaceTears ==
  /\ DbErrors
  /\ Placing /\ ForNew <= Len(call.insert)
  /\ rows' = Append(rows, [call.insert[ForNew] EXCEPT !.slot = next])
  /\ next' = call.saved.next /\ torn' = TRUE
  /\ call' = Given
  /\ UNCHANGED <<due, dress, points, pending, now, online, stored, redeemed>>

PlaceFree ==
  /\ Placing /\ Len(call.insert) < ForNew
  /\ rows' = Write(rows, [Head(call.insert) EXCEPT !.slot = rows[FirstOf(Free)].slot])
  /\ call' = [call EXCEPT !.insert = Tail(@)]
  /\ UNCHANGED <<next, due, dress, points, pending, now, online, history>>

\* A statement that fails before anything was inserted, or after all was: the rest of the
\* batch is dropped, and what was written is committed.
PlaceFails ==
  /\ DbErrors
  /\ Placing /\ (next = call.saved.next \/ Len(call.insert) < ForNew)
  /\ call' = Given
  /\ UNCHANGED <<table, dress, points, pending, now, online, history>>

\* One statement writes the counts of stacked items: of two for a slot the first is taken.
Updates(s) == {k \in DOMAIN call.update : call.update[k].slot = s}
NewCount(r) == IF Updates(r.slot) = {} THEN r.count
               ELSE call.update[FirstOf(Updates(r.slot))].count

StackAll ==
  /\ At("batch") /\ call.goods = <<>> /\ call.insert = <<>> /\ call.update # <<>>
  /\ rows' = [i \in DOMAIN rows |-> [rows[i] EXCEPT !.count = NewCount(rows[i])]]
  /\ call' = [call EXCEPT !.update = <<>>]
  /\ UNCHANGED <<next, due, dress, points, pending, now, online, history>>

StackFails ==
  /\ DbErrors
  /\ At("batch") /\ call.goods = <<>> /\ call.insert = <<>> /\ call.update # <<>>
  /\ call' = Given
  /\ UNCHANGED <<table, dress, points, pending, now, online, history>>

\* The handler that gave the reward goes on.
Resumed ==
  LET back == [call EXCEPT !.gain = 0, !.saved = Idle.saved] IN
    IF call.item # NullRow THEN [back EXCEPT !.op = "use"]
    ELSE IF call.notices # <<>> THEN [back EXCEPT !.op = "login", !.notices = Tail(@)]
    ELSE Idle

\* ROLLBACK, by a commit that fails or by a crash.
Restore == /\ rows' = call.saved.rows /\ next' = call.saved.next
           /\ worn' = call.saved.worn /\ effect' = call.saved.effect

\* Commit, points, and back to the handler that gave the reward, whatever became of it.
Commit ==
  /\ At("batch") /\ call.goods = <<>> /\ call.insert = <<>> /\ call.update = <<>>
  /\ UpdatePoints(call.gain)
  /\ call' = Resumed
  /\ redeemed' = IF call.notices # <<>> THEN redeemed \cup {Head(call.notices)} ELSE redeemed
  /\ \/ UNCHANGED <<rows, next, dress>>
     \/ DbErrors /\ Restore
  /\ UNCHANGED <<due, pending, now, online, stored, torn>>

\* Mutant: the notices are deleted when they are read.
LoginM ==
  /\ ~online /\ call = Idle /\ due = 0 /\ Roomy
  /\ online' = TRUE /\ pending' = <<>>
  /\ call' = [Idle EXCEPT !.op = "login", !.notices = pending]
  /\ UNCHANGED <<table, dress, points, now, history>>

\* CItemManager::OnUserLogin: the notices are read, given one by one, then deleted.
Login ==
  /\ ~online /\ call = Idle /\ due = 0 /\ Roomy
  /\ online' = TRUE
  /\ call' = [Idle EXCEPT !.op = "login", !.notices = pending]
  /\ UNCHANGED <<table, dress, points, pending, now, history>>

\* A reward that offers a choice is only announced to the client.
GiveNotice ==
  /\ At("login") /\ call.notices # <<>>
  /\ LET r == stored[Head(call.notices)] IN
       call' = IF r.select THEN [call EXCEPT !.notices = Tail(@)] ELSE Begin(r, call)
  /\ UNCHANGED <<table, dress, points, pending, now, online, history>>

ClearNotices ==
  /\ At("login") /\ call.notices = <<>>
  /\ pending' = <<>>
  /\ call' = Idle
  /\ UNCHANGED <<table, dress, points, now, online, history>>

-----------------------------------------------------------------------------
(* Using items *)

CanUseItem(r) == r.id # None /\ r.count # 0 /\ r.status = 0

\* Countable items: OnItemUse with the count the client asked for.
UseCountable(i, n) ==
  /\ Ready /\ CanUseItem(rows[i]) /\ Kind[rows[i].id] = "countable"
  /\ n <= rows[i].count
  /\ IF RewardOf[rows[i].id] = None
       THEN Consume(rows[i], n) /\ UNCHANGED call
       ELSE /\ call' = [Idle EXCEPT !.op = "use", !.item = [rows[i] EXCEPT !.count = @ - n],
                                    !.count = n]
            /\ UNCHANGED <<table, dress>>
  /\ UNCHANGED <<points, pending, now, online, history>>

UseReward ==
  /\ At("use") /\ call.count > 0
  /\ call' = Begin(RewardOf[call.item.id], [call EXCEPT !.count = @ - 1])
  /\ UNCHANGED <<table, dress, points, pending, now, online, history>>

FinishUse ==
  /\ At("use") /\ call.count = 0
  /\ Consume(call.item, 0)
  /\ call' = Idle
  /\ UNCHANGED <<points, pending, now, online, history>>

\* A box: up to n items drawn, then as many boxes taken from the stock read before.
OpenItemBox(i, n) ==
  /\ Ready /\ CanUseItem(rows[i]) /\ Kind[rows[i].id] = "box"
  /\ call' = [Idle EXCEPT !.op = "open", !.item = rows[i], !.count = n]
  /\ UNCHANGED <<table, dress, points, pending, now, online, history>>

DrawItem ==
  /\ At("open") /\ call.gain < call.count /\ ~IsInventoryFull
  /\ \E g \in Drops :
       \/ AddItem(g) /\ call' = [call EXCEPT !.gain = @ + 1]
       \/ AddItemFails(g) /\ call' = [call EXCEPT !.count = call.gain]
  /\ UNCHANGED <<points, pending, now, online, history>>

\* OnItemUse refuses to take more boxes than the stock it read, which is less when more
\* items were drawn than there are boxes: those are kept.
CloseBox ==
  /\ At("open") /\ (call.gain = call.count \/ IsInventoryFull)
  /\ IF 0 < call.gain /\ call.gain <= call.item.count
       THEN Consume(call.item, call.gain)
       ELSE UNCHANGED <<table, dress>>
  /\ call' = Idle
  /\ UNCHANGED <<points, pending, now, online, history>>

\* The rates were normalised in floating point: their sum may stay below the number
\* drawn, and the call returns 0 whatever it opened before.
NoRateFound ==
  /\ At("open") /\ call.gain < call.count /\ ~IsInventoryFull
  /\ call' = Idle
  /\ UNCHANGED <<table, dress, points, pending, now, online, history>>

\* The item extender: days are taken from its stock, if it has as many.
UseExtender(i, j, days) ==
  LET t == Write(rows, [rows[j] EXCEPT !.expiry = ExtendedDate(rows[j], days)])
      left == rows[i].count - days
      used == IF left = 0 THEN FreeRow(rows[i].slot) ELSE [t[i] EXCEPT !.count = left]
  IN /\ Ready /\ CanUseItem(rows[i]) /\ Kind[rows[i].id] = "extender"
     /\ rows[j].id # None /\ rows[j].expiry # 0
     /\ rows' = IF left < 0 THEN t ELSE Write(t, used)
     /\ UNCHANGED <<next, due, dress, points, pending, now, online, call, history>>

\* An item with a term joins the row of the same item that is running, or starts.
UseTimed(i) ==
  LET r == rows[i]
      date == ConvertDuration(r.expiry)
      running == {j \in Extendable(r.id) : rows[j].status = 1}
      j == FirstOf(running)
  IN /\ Ready /\ CanUseItem(r) /\ Kind[r.id] = "plain"
     /\ rows' = IF r.expiry # 0 /\ running # {}
                  THEN Write(Write(rows, [rows[j] EXCEPT !.expiry = Cap(@ + date - now)]),
                             FreeRow(r.slot))
                  ELSE Write(rows, [r EXCEPT !.status = 1, !.expiry = date])
     /\ UNCHANGED <<next, due, dress, points, pending, now, online, call, history>>

\* One row of an item is switched on and the others off; an effect is toggled.  All is
\* one statement with a list of rows in which the first entry of a slot counts, and the
\* row itself is first in the list as one to switch off when its status is on.
SwitchStatus(i) ==
  LET r == rows[i]
      toggles == Kind[r.id] = "effect"
      off == [k \in DOMAIN rows |->
                IF k \in Of(r.id) THEN [rows[k] EXCEPT !.status = 0] ELSE rows[k]]
      unset == toggles /\ effect # None /\ effect # r.id /\ Active(effect) # {}
      taken == IF unset THEN [off EXCEPT ![FirstOf(Active(effect))].inUse = 0] ELSE off
  IN /\ Ready /\ r.id # None
     /\ rows' = IF r.status = 1 THEN taken
                ELSE [taken EXCEPT ![i].status = 1,
                        ![i].inUse = IF ~toggles THEN @ ELSE IF effect = r.id THEN 0 ELSE 1]
     /\ IF toggles THEN UpdateNameplate(IF effect = r.id THEN None ELSE r.id)
                   ELSE UNCHANGED effect
     /\ UNCHANGED <<next, due, worn, points, pending, now, online, call, history>>

\* A costume is put on or taken off; the one it replaces is taken off.
OnCostumeEquip(i) ==
  LET r == rows[i]
      off == IF worn # None /\ Active(worn) # {}
               THEN [rows EXCEPT ![FirstOf(Active(worn))].inUse = 0] ELSE rows
  IN /\ Ready /\ r.id # None /\ Kind[r.id] = "costume"
     /\ IF r.inUse = 1
          THEN /\ rows' = [rows EXCEPT ![i].inUse = 0]
               /\ UpdateCostumeLoadout(IF worn = r.id THEN None ELSE worn)
          ELSE /\ rows' = [off EXCEPT ![i].inUse = 1, ![i].status = 1]
               /\ UpdateCostumeLoadout(r.id)
     /\ UNCHANGED <<next, due, effect, points, pending, now, online, call, history>>

\* A spare row comes into use: its term starts to run.
OnSwitchInUse(i) ==
  LET r == rows[i] IN
  /\ Ready /\ r.id # None
  /\ UpdateInventoryItem([r EXCEPT !.inUse = 1, !.expiry = ConvertDuration(r.expiry),
       !.status = IF \E k \in Of(r.id) : rows[k].status = 1 THEN 0 ELSE 1])
  /\ UNCHANGED <<dress, points, pending, now, online, call, history>>

OnDisassemble(i) ==
  /\ Ready /\ rows[i].slot # 0 /\ rows[i].id # None
  /\ RemoveItem(rows[i])
  /\ UNCHANGED <<points, pending, now, online, call, history>>

-----------------------------------------------------------------------------
(* Commands of a game master, to itself or to any user *)

Commanded == GameMaster /\ call = Idle /\ due = 0 /\ Roomy

AddItemCommand(g) ==
  /\ Commanded /\ online
  /\ AddOne(g)
  /\ UNCHANGED <<points, pending, now, online, call, history>>

\* The owner need not be connected; a new effect of an absent owner is then read through a
\* null pointer and ends the process.
GiveItemCommand(g) ==
  /\ Commanded
  /\ online \/ ~IsNew(g) \/ Kind[g.id] # "effect" \/ IsInventoryFull
  /\ AddOne(g)
  /\ UNCHANGED <<points, pending, now, online, call, history>>

\* All items of the table, as one batch.
AddAllItems(goods) ==
  /\ Commanded /\ online
  /\ call' = Begin([goods |-> goods, lots |-> {}, points |-> 0], Idle)
  /\ UNCHANGED <<table, dress, points, pending, now, online, history>>

\* One of the rows of an item.
RemoveItemCommand(i) ==
  /\ Commanded /\ online /\ rows[i].id # None
  /\ RemoveItem(rows[i])
  /\ UNCHANGED <<points, pending, now, online, call, history>>

GivePoints(n) ==
  /\ Commanded
  /\ UpdatePoints(n)
  /\ UNCHANGED <<table, dress, pending, now, online, call, history>>

\* The status and the use of a row are set as they are, whatever other rows say.
SetItemStatus(i, status) ==
  /\ Commanded /\ online /\ rows[i].id # None
  /\ UpdateInventoryItem([rows[i] EXCEPT !.status = status])
  /\ UNCHANGED <<dress, points, pending, now, online, call, history>>

SetItemInUse(i, inUse) ==
  /\ Commanded /\ online /\ rows[i].id # None
  /\ UpdateInventoryItem([rows[i] EXCEPT !.inUse = inUse])
  /\ UNCHANGED <<dress, points, pending, now, online, call, history>>

-----------------------------------------------------------------------------
(* Time, the connection, and the process *)

\* The minute tick removes the rows in use whose date has passed.
Tick ==
  /\ call = Idle /\ due = 0
  /\ now' = IF now < Horizon THEN now + 1 ELSE now
  /\ call' = [Idle EXCEPT !.op = "tick"]
  /\ UNCHANGED <<table, dress, points, pending, online, history>>

Expired == {i \in Owned : rows[i].expiry # 0 /\ rows[i].inUse = 1 /\ rows[i].expiry < now
                          /\ rows[i].id \notin Fixed}

\* An effect that expires when its owner is not connected is looked up through a null
\* pointer: the step is missing, and only Crash is left.
RemoveExpired ==
  /\ At("tick") /\ Expired # {}
  /\ LET r == rows[FirstOf(Expired)] IN
       /\ online \/ Kind[r.id] # "effect"
       /\ RemoveItem(r)
  /\ UNCHANGED <<points, pending, now, online, call, history>>

EndTick ==
  /\ At("tick") /\ Expired = {}
  /\ call' = Idle
  /\ UNCHANGED <<table, dress, points, pending, now, online, history>>

Logout ==
  /\ online /\ call = Idle /\ due = 0
  /\ online' = FALSE
  /\ UNCHANGED <<table, dress, points, pending, now, call, history>>

\* The process dies at any step: what was executed outside a transaction stays.
Crash ==
  /\ call # Idle \/ due = 1
  /\ online' = FALSE /\ call' = Idle /\ due' = 0
  /\ IF call.op = "batch"
       THEN Restore
       ELSE UNCHANGED <<rows, next, dress>>
  /\ torn' = (torn \/ (due = 1 /\ \E i \in DOMAIN rows : rows[i].slot >= next))
  /\ UNCHANGED <<points, pending, now, stored, redeemed>>

-----------------------------------------------------------------------------
Init ==
  /\ rows = <<>> /\ next = 1 /\ due = 0
  /\ worn = None /\ effect = None
  /\ points \in 0 .. MaxPoints
  /\ pending = <<>> /\ stored = <<>> /\ redeemed = {}
  /\ now = MaxDays /\ online = FALSE /\ call = Idle /\ torn = FALSE

Next ==
  \/ AdvanceSlot
  \/ \E p \in Product : BuyProduct(p)
  \/ DeliverGood \/ Charge
  \/ \E r \in Reward : GiveReward(r)
  \/ \E r \in Reward : \E k \in DOMAIN r.goods : OnRewardSelect(r, k)
  \/ DrawLot \/ BeginBatch \/ Collect
  \/ PlaceNew \/ PlaceTears \/ PlaceFree \/ PlaceFails \/ StackAll \/ StackFails \/ Commit
  \/ Login \/ GiveNotice \/ ClearNotices
  \/ \E i \in DOMAIN rows : \E n \in 1 .. MaxUse : UseCountable(i, n) \/ OpenItemBox(i, n)
  \/ UseReward \/ FinishUse
  \/ DrawItem \/ CloseBox \/ NoRateFound
  \/ \E i, j \in DOMAIN rows : \E n \in 1 .. MaxUse : UseExtender(i, j, n)
  \/ \E i \in DOMAIN rows : \/ UseTimed(i) \/ SwitchStatus(i) \/ OnCostumeEquip(i)
                            \/ OnSwitchInUse(i) \/ OnDisassemble(i)
  \/ \E p \in Product : \/ \E k \in DOMAIN p.goods :
                             AddItemCommand(p.goods[k]) \/ GiveItemCommand(p.goods[k])
                       \/ AddAllItems(p.goods)
  \/ \E n \in 0 .. MaxPoints : GivePoints(n)
  \/ \E i \in DOMAIN rows : \/ RemoveItemCommand(i)
                            \/ \E b \in {0, 1} : SetItemStatus(i, b) \/ SetItemInUse(i, b)
  \/ Tick \/ RemoveExpired \/ EndTick
  \/ Logout \/ Crash

Spec == Init /\ [][Next]_vars

-----------------------------------------------------------------------------
(* Properties *)

Good == [id : Item, count : Nat, days : Nat]

RowOK(r) ==
  /\ r.slot \in 0 .. NextMax /\ r.id \in Item \cup {None} /\ r.count \in Nat
  /\ r.status \in {0, 1} /\ r.inUse \in {0, 1}
  /\ r.obtain \in 0 .. Horizon /\ r.expiry \in 0 .. MaxDate

TypeOK ==
  /\ \A i \in DOMAIN rows : RowOK(rows[i])
  /\ next \in 1 .. NextMax /\ due \in {0, 1}
  /\ worn \in Item \cup {None} /\ effect \in Item \cup {None}
  /\ points \in 0 .. MaxPoints
  /\ \A k \in DOMAIN pending : pending[k] \in DOMAIN stored
  /\ redeemed \subseteq DOMAIN stored
  /\ now \in MaxDays .. Horizon /\ online \in BOOLEAN /\ torn \in BOOLEAN
  /\ call.op \in {"idle", "buy", "lot", "begin", "batch", "use", "open", "login", "tick"}

\* Rows are addressed by slot, and nothing in the schema makes slots unique: the handlers
\* must never let two rows of a user share one, whatever mix of purchases, batches rolled
\* back, and re-used rows.  The ways out are a crash or an error between the two statements
\* of AddInventoryItem and an error after the INSERT of AddInventoryItems, whose rows
\* AddItems commits; the history variable torn records them.
SlotsUnique ==
  ~torn => /\ \A i, j \in DOMAIN rows : rows[i].slot = rows[j].slot => i = j
           /\ \A i \in DOMAIN rows : rows[i].slot < next + due

\* Items are added one by one, in batches counted once, and from boxes: no path exceeds
\* inventorySlotMax.
NotOverfull == ~torn => Cardinality(Owned) <= InventoryMax

\* A reward stored for an absent user is not lost before GiveReward has gone through it,
\* also when the process dies while the notices are being processed.  (What then finds no
\* room, or fails, is gone: itemmanager.cpp:1910 says "add to storage".)
RewardsKept ==
  \A k \in DOMAIN stored : stored[k].select \/ k \in redeemed
                           \/ \E n \in DOMAIN pending : pending[n] = k

Durable == IF call.op = "batch" THEN call.saved.rows ELSE rows
Permanent(r) == r.id # None /\ ~Countable(r.id) /\ r.expiry = 0

\* No purchase, reward, tick, use of an item or crash destroys or limits an item owned for
\* good: only its owner's disassembly or a game master's command does.
PermanentKept ==
  [][~torn => \A i \in DOMAIN Durable : Permanent(Durable[i]) =>
       \/ i \in DOMAIN Durable' /\ Permanent(Durable[i])' /\ Durable'[i].id = Durable[i].id
       \/ OnDisassemble(i) \/ RemoveItemCommand(i)]_vars

\* "items must have inuse = 1 and status = 1" (itemmanager.cpp:738): a new row whose term is
\* a date, not a number of days, runs from the start.
NewDatesRun ==
  [][\A i \in DOMAIN rows' :
       ((i \notin DOMAIN rows \/ rows[i].id = None) /\ rows'[i].expiry > MaxDays)
         => rows'[i].inUse = 1 /\ rows'[i].status = 1]_vars

=============================================================================
