----------------------------- MODULE Enhancement -----------------------------
(***************************************************************************)
(* What a user makes of the items in the inventory: weapons are enhanced   *)
(* with materials and cleaned again, painted, fitted with parts, locked.   *)
(* A handler reads rows of the UserInventory table, then consumes and      *)
(* writes them one statement at a time; the running handler is in call, no *)
(* other starts before it ends, and only the end of the process comes in   *)
(* between.  Status, terms and the arrival of other items are the business *)
(* of Inventory.                                                           *)
(***************************************************************************)
EXTENDS Integers, Sequences, FiniteSets

CONSTANTS
  Slot,          \* rows of the user's inventory
  Item, None,    \* item IDs; None is 0, a free row
  Reinforceable, \* items with a row in ReinforceMaxLv
  Cap,           \* Reinforceable -> its seven columns, the cap of each attribute
  TotalMax,      \* Reinforceable -> column TotalMaxLv
  ExpMax,        \* level -> experience for a certain success (a column of ReinforceMaxEXP)
  Worth,         \* Item -> experience of its grade as a material
  ENH_ANTI, ENH_ANIT1GRADE, \* materials that clear all attributes, or one at random
  Clears,        \* the other cleaning materials -> the attribute they clear
  Paints,        \* Item -> paints it may wear
  Remover,       \* the paint that takes paint off
  Armed, Parts,  \* categories of weapons and of weapon parts
  Lockable,      \* bound: rows whose lock is toggled
  Finished,      \* 9: level of a finished item
  Stock,         \* inventories to start from
  DbErrors,      \* may a statement fail
  MaxMaterials   \* bound: materials of one request

ASSUME SlotAssumption == IsFiniteSet(Slot) /\ MaxMaterials \in Nat
ASSUME NoneAssumption == None \notin Item
ASSUME PaintAssumption == Parts \subseteq Item /\ \A i \in Item : Paints[i] \subseteq Item
ASSUME ReinforceableAssumption == Reinforceable \subseteq Item
\* No item of the table can run out of attributes to raise before its total maximum, and
\* only items that can be finished have the attribute above the ninth level.
ASSUME TableAssumption ==
  /\ Finished \in Nat
  /\ \A w \in Reinforceable : LET c == Cap[w] IN
       /\ TotalMax[w] \in Nat /\ c[6] \in Nat /\ \A i \in 0 .. 5 : c[i] \in 0 .. 15
       /\ c[0] + c[1] + c[2] + c[3] + c[4] + c[5] + (IF c[6] > 0 THEN 1 ELSE 0) >= TotalMax[w]
       /\ c[6] > 0 => TotalMax[w] >= Finished
       /\ \E i \in 0 .. 5 : c[i] > 0

VARIABLES
  bag,     \* Slot -> row
  call,    \* the running handler
  faulty   \* history: a statement failed

Plain == [i \in 0 .. 6 |-> 0]
New(id, n) == [id |-> id, count |-> n, level |-> 0, exp |-> 0, attr |-> Plain,
               paint |-> None, paints |-> {}, part |-> <<None, None>>, lock |-> FALSE]
FreeRow == New(None, 0)

\* The process starts with items that nothing was done to.
ASSUME StockAssumption ==
  \A b \in Stock : /\ DOMAIN b = Slot
                   /\ \A s \in Slot : /\ b[s] = New(b[s].id, b[s].count)
                                      /\ b[s].id # None => b[s].count \in Nat \ {0}

Idle == [op |-> "idle"]
Owned == {s \in Slot : bag[s].id # None}
Copy(s) == [slot |-> s, row |-> bag[s]]

\* Things by their keys, one pair for each.
Pairs(f) == UNION {{k} \X f[k] : k \in DOMAIN f}

-----------------------------------------------------------------------------
(* The database *)

Write(s, r) == [bag EXCEPT ![s] = r]

\* A statement whose result the handler ignores.
Store(t) ==
  \/ bag' = t /\ UNCHANGED faulty
  \/ DbErrors /\ ~faulty /\ UNCHANGED bag /\ faulty' = TRUE

\* OnItemUse and RemoveItem: the count of the copy read earlier, less one, is written back.
OnItemUse(c) ==
  IF c.row.count <= 0 THEN bag
  ELSE IF c.row.count = 1 THEN Write(c.slot, FreeRow)
  ELSE [bag EXCEPT ![c.slot].count = c.row.count - 1]

-----------------------------------------------------------------------------
(* Attributes and levels *)

\* The attribute above the ninth level counts once, however high it is.
GetEnhanceLevel(a) ==
  a[0] + a[1] + a[2] + a[3] + a[4] + a[5] + (IF a[6] > 0 THEN 1 ELSE 0)

\* Damage and accuracy are in one order in the table and in the other in the item.
Swap(i) == CASE i = 0 -> 1 [] i = 1 -> 0 [] OTHER -> i
\* Mutant: the caps are read in the order of the item.
HasRoomM(w, a, i) == Cap[w][Swap(i)] > 0 /\ a[Swap(i)] < Cap[w][Swap(i)]
HasRoom(w, a, i) == Cap[w][i] > 0 /\ a[Swap(i)] < Cap[w][i]

\* Mutant: the last attribute is never drawn.
DrawnM(w, a) ==
  IF GetEnhanceLevel(a) = Finished - 1 /\ HasRoom(w, a, 6) THEN {6}
  ELSE {i \in 0 .. 4 : HasRoom(w, a, i)}

\* The attributes the loop of random draws can end with, by their place in the table.
Drawn(w, a) ==
  IF GetEnhanceLevel(a) = Finished - 1 /\ HasRoom(w, a, 6) THEN {6}
  ELSE {i \in 0 .. 5 : HasRoom(w, a, i)}

\* Seven attributes of four bits each are packed into one number.
Raise(a, i) == [a EXCEPT ![Swap(i)] = (@ + 1) % 16]

\* The experience of a material; the sum so far is doubled when it is the same item.
InsertExp(total, w, m) ==
  (total + (IF m.level = 0 THEN Worth[m.id] ELSE (7 * Worth[m.id] * m.level) \div 5))
    * (IF m.id = w THEN 2 ELSE 1)

-----------------------------------------------------------------------------
(* Enhancing: materials are used up one by one, their experience is stored, and the *)
(* result is drawn. *)

\* A request names rows the user owns; nothing says that they differ.  The lookup of a
\* level outside the table ends the process, which is Crash.
Enhance(s, q) ==
  LET r == bag[s] IN
  /\ call = Idle
  /\ r.id \in Reinforceable
  /\ r.level < Finished /\ r.level \in DOMAIN ExpMax
  /\ GetEnhanceLevel(r.attr) < Finished
  /\ GetEnhanceLevel(r.attr) < TotalMax[r.id]
  /\ call' = IF q = <<>> THEN [op |-> "roll", target |-> Copy(s)]
             ELSE [op |-> "insert", target |-> Copy(s),
                   use |-> [k \in DOMAIN q |-> Copy(q[k])], total |-> 0]
  /\ UNCHANGED <<bag, faulty>>

UseMaterial ==
  /\ call.op = "insert" /\ call.use # <<>>
  /\ LET m == Head(call.use) IN
       /\ Store(OnItemUse(m))
       /\ call' = [call EXCEPT !.use = Tail(@),
                               !.total = InsertExp(@, call.target.row.id, m.row)]

StoreExp ==
  /\ call.op = "insert" /\ call.use = <<>>
  /\ LET r == call.target.row
         max == ExpMax[r.level]
         exp == r.exp + (IF call.total > max THEN max ELSE call.total)
     IN /\ IF exp > 0
             THEN Store([bag EXCEPT ![call.target.slot].exp = exp])
             ELSE UNCHANGED <<bag, faulty>>
        /\ call' = [op |-> "roll",
                    target |-> [call.target EXCEPT !.row.exp = exp]]

\* The new level, experience and attributes, written by one statement.
StoreResult(r) ==
  LET s == call.target.slot IN
  Store([bag EXCEPT ![s].level = r.level, ![s].exp = r.exp, ![s].attr = r.attr])

\* The chance is the share of the experience needed.
Roll ==
  /\ call.op = "roll"
  /\ LET r == call.target.row IN
       \/ /\ r.exp > 0
          /\ \E i \in Drawn(r.id, r.attr) :
               StoreResult([r EXCEPT !.level = @ + 1, !.exp = 0, !.attr = Raise(@, i)])
       \/ /\ r.exp < ExpMax[r.level]
          /\ StoreResult([r EXCEPT !.exp = 0])
  /\ call' = Idle

-----------------------------------------------------------------------------
(* Cleaning: a material clears one attribute, one at random, or all of them *)

\* The level falls by the attribute, but not for the attribute at random, which is read
\* after it was cleared; and "all" resets the level, while the attributes are written
\* back as they were read.
Cleaned(r, m) ==
  CASE m = ENH_ANTI -> {[r EXCEPT !.level = 0]}
    [] m = ENH_ANIT1GRADE -> {[r EXCEPT !.attr[i] = 0] : i \in {j \in 0 .. 6 : r.attr[j] > 0}}
    [] OTHER -> LET i == Clears[m] IN
                  IF r.attr[i] = 0 THEN {}
                  ELSE {[r EXCEPT !.level = @ - r.attr[i], !.attr[i] = 0]}

Decrease(s, m) ==
  LET r == bag[s] IN
  /\ call = Idle
  /\ r.id \in Reinforceable /\ GetEnhanceLevel(r.attr) > 0
  /\ bag[m].id \in {ENH_ANTI, ENH_ANIT1GRADE} \cup DOMAIN Clears
  /\ \E c \in Cleaned(r, bag[m].id) :
       call' = [op |-> "decrease", target |-> [slot |-> s, row |-> c]]
  /\ Store(OnItemUse(Copy(m)))

StoreDecrease ==
  /\ call.op = "decrease"
  /\ StoreResult(call.target.row)
  /\ call' = Idle

-----------------------------------------------------------------------------
(* Paints and parts: the weapon is written first, then the item applied is used up *)

OnWeaponPaint(s, p) ==
  LET id == bag[p].id IN
  /\ call = Idle
  /\ bag[s].id # None /\ id \in Paints[bag[s].id] \ bag[s].paints
  /\ Store([bag EXCEPT ![s].paint = id, ![s].paints = @ \cup {id}])
  /\ call' = [op |-> "applied", use |-> Copy(p)]

UseApplied ==
  /\ call.op = "applied"
  /\ Store(OnItemUse(call.use))
  /\ call' = Idle

OnWeaponPaintSwitch(s, id) ==
  /\ call = Idle
  /\ bag[s].id # None /\ id \in Paints[bag[s].id]
  /\ id = Remover \/ id \in bag[s].paints
  /\ Store([bag EXCEPT ![s].paint = IF id = Remover THEN None ELSE id])
  /\ UNCHANGED call

\* Mutant: a part that is fitted is not taken.
OnPartEquipM(s, p, k) ==
  /\ call = Idle
  /\ bag[s].id \in Armed /\ bag[p].id \in Parts
  /\ Store([bag EXCEPT ![s].part[k] = bag[p].id])
  /\ UNCHANGED call

\* A part that is replaced or taken off is gone.
OnPartEquip(s, p, k) ==
  /\ call = Idle
  /\ bag[s].id \in Armed /\ bag[p].id \in Parts
  /\ Store([bag EXCEPT ![s].part[k] = bag[p].id])
  /\ call' = [op |-> "applied", use |-> Copy(p)]

OnPartRemove(s, k) ==
  /\ call = Idle
  /\ bag[s].id # None
  /\ Store([bag EXCEPT ![s].part[k] = None])
  /\ UNCHANGED call

\* The lock is shown by the client; no handler of the server looks at it.
OnLockItem(s) ==
  /\ call = Idle
  /\ s \in Lockable /\ bag[s].id # None
  /\ Store([bag EXCEPT ![s].lock = ~@])
  /\ UNCHANGED call

-----------------------------------------------------------------------------
(* An item arrives *)

\* CItemManager::AddItem as the mini games use it: without a free row nothing is added.
AddItem(id) ==
  IF Owned = Slot THEN UNCHANGED <<bag, faulty>>
  ELSE Store(Write(CHOOSE s \in Slot \ Owned : TRUE, New(id, 1)))

-----------------------------------------------------------------------------
Init ==
  /\ bag \in Stock
  /\ call = Idle
  /\ faulty = FALSE

Request ==
  \/ \E s \in Owned : \E n \in 0 .. MaxMaterials : \E q \in [1 .. n -> Owned] : Enhance(s, q)
  \/ \E s, m \in Owned : Decrease(s, m)
  \/ \E s, p \in Owned : OnWeaponPaint(s, p)
  \/ \E s \in Owned : \E id \in Item : OnWeaponPaintSwitch(s, id)
  \/ \E s, p \in Owned : \E k \in 1 .. 2 : OnPartEquip(s, p, k)
  \/ \E s \in Owned : \E k \in 1 .. 2 : OnPartRemove(s, k)
  \/ \E s \in Owned : OnLockItem(s)

Step == UseMaterial \/ StoreExp \/ Roll \/ StoreDecrease \/ UseApplied

-----------------------------------------------------------------------------
(* Properties *)

\* Experience, draws at random, the swapped columns and cleaned attributes: whatever was
\* done to an item, no attribute is above its cap, and the total is within TotalMaxLv.
WithinTable ==
  \A s \in Slot : bag[s].id \in Reinforceable =>
    LET r == bag[s] IN
      /\ \A i \in 0 .. 5 : r.attr[Swap(i)] <= Cap[r.id][i]
      /\ GetEnhanceLevel(r.attr) <= TotalMax[r.id]

\* while (!gotEnh): in every state in which the server draws, there is an attribute that
\* ends the loop, which would otherwise keep the critical section for good.
DrawEnds ==
  call.op = "roll" => Drawn(call.target.row.id, call.target.row.attr) # {}

\* "get current item enhance level" (itemmanager.cpp:2140): the level kept in the row and the
\* one counted from the attributes agree between two handlers.
LevelsAgree ==
  \A s \in Slot : (call = Idle /\ bag[s].id \in Reinforceable)
                    => bag[s].level = GetEnhanceLevel(bag[s].attr)

\* The status ENHANCE_FULLLEVELDOWN: an item whose level is reset has no attributes left.
FullReset ==
  [][\A s \in Slot : (bag'[s].id = bag[s].id /\ bag[s].level > 0 /\ bag'[s].level = 0)
                       => bag'[s].attr = Plain]_bag

\* A locked item is not used up.
LockedKept ==
  [][\A s \in Slot : bag[s].lock => bag'[s].id = bag[s].id]_bag

=============================================================================
