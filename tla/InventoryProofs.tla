---------------------------- MODULE InventoryProofs ----------------------------
(***************************************************************************)
(* Theorems about Inventory, for any items, products, rewards and bounds,  *)
(* with a crash or an error at every database call: slots, the limit of    *)
(* the inventory, the rewards that wait for their owner, and the items     *)
(* owned for good.                                                         *)
(*                                                                         *)
(* Rows are found by slot, so a write may grow the inventory if two rows   *)
(* share one: the limit rests on the slots.  A crash in a batch, or a      *)
(* commit that fails, brings back what BEGIN saved, which must be as good  *)
(* as the table.                                                           *)
(***************************************************************************)
EXTENDS Inventory, SequenceTheorems, FiniteSetTheorems, WellFoundedInduction, TLAPS

(***************************************************************************)
(* Tables                                                                  *)
(***************************************************************************)

Columns == {"slot", "id", "count", "status", "inUse", "obtain", "expiry"}
IsRow(r) == DOMAIN r = Columns /\ r.slot \in Nat
IsSequence(s) == Len(s) \in Nat /\ DOMAIN s = 1..Len(s)
IsTable(t) == IsSequence(t) /\ \A i \in DOMAIN t : IsRow(t[i])
Distinct(t) == \A i, j \in DOMAIN t : t[i].slot = t[j].slot => i = j
Below(t, n) == \A i \in DOMAIN t : t[i].slot < n
OwnedIn(t) == {i \in DOMAIN t : t[i].id # None}

\* Rows are rewritten where they are, and none becomes an item.
Shrunk(t, u) ==
  /\ IsTable(u) /\ DOMAIN u = DOMAIN t
  /\ \A i \in DOMAIN t : u[i].slot = t[i].slot
  /\ Distinct(t) => OwnedIn(u) \subseteq OwnedIn(t)

\* A nonempty set of natural numbers has a least element.
LEMMA LeastElement ==
  ASSUME NEW T \in SUBSET Nat, T # {}
  PROVE  \E i \in T : \A j \in T : i <= j
<1>1. \E i \in T : \A j \in T : ~(<<j, i>> \in OpToRel(<, Nat))
  BY WFMin, NatLessThanWellFounded, Zenon
<1>2. PICK i \in T : \A j \in T : ~(<<j, i>> \in OpToRel(<, Nat))
  BY <1>1
<1>3. \A j \in T : ~(j < i)
  BY <1>2 DEF OpToRel
<1> QED BY <1>3

LEMMA FirstOfMember ==
  ASSUME NEW S \in SUBSET Nat, S # {}
  PROVE  FirstOf(S) \in S
BY LeastElement DEF FirstOf

LEMMA IndexesAreNat ==
  ASSUME NEW t, IsTable(t)
  PROVE  DOMAIN t \subseteq Nat
BY DEF IsTable, IsSequence

LEMMA OwnedFinite ==
  ASSUME NEW t, IsTable(t)
  PROVE  IsFiniteSet(OwnedIn(t)) /\ Cardinality(OwnedIn(t)) \in Nat
<1>1. IsFiniteSet(1..Len(t))
  BY FS_Interval DEF IsTable, IsSequence
<1>2. IsFiniteSet(OwnedIn(t))
  BY <1>1, FS_Subset DEF OwnedIn, IsTable, IsSequence
<1> QED BY <1>2, FS_CardinalityType

\* Any sequence of the same length is as much a sequence.
LEMMA SameDomain ==
  ASSUME NEW s, IsSequence(s), NEW t, DOMAIN t = DOMAIN s
  PROVE  IsSequence(t) /\ Len(t) = Len(s)
BY DEF IsSequence

LEMMA ShrunkItself ==
  ASSUME NEW t, IsTable(t)
  PROVE  Shrunk(t, t)
BY DEF Shrunk

LEMMA ShrunkTwice ==
  ASSUME NEW t, NEW u, NEW v, Shrunk(t, u), Shrunk(u, v)
  PROVE  Shrunk(t, v)
<1>1. Distinct(t) => Distinct(u)
  BY DEF Shrunk, Distinct
<1> QED BY <1>1 DEF Shrunk

\* A row is written back to where it was read.
LEMMA WriteShrinks ==
  ASSUME NEW t, IsTable(t), NEW i \in DOMAIN t, NEW r, IsRow(r),
         r.slot = t[i].slot, r.id # None => t[i].id # None
  PROVE  Shrunk(t, Write(t, r))
<1> DEFINE u == Write(t, r)
<1>1. DOMAIN u = DOMAIN t /\ \A k \in DOMAIN t : u[k] = IF t[k].slot = r.slot THEN r ELSE t[k]
  BY DEF Write
<1> HIDE DEF u
<1>2. IsSequence(u)
  BY <1>1, SameDomain DEF IsTable
<1>3. IsTable(u)
  BY <1>1, <1>2 DEF IsTable
<1>4. \A k \in DOMAIN t : u[k].slot = t[k].slot
  BY <1>1
<1>5. Distinct(t) => OwnedIn(u) \subseteq OwnedIn(t)
  BY <1>1 DEF Distinct, OwnedIn
<1>6. Shrunk(t, u)
  BY <1>1, <1>3, <1>4, <1>5 DEF Shrunk
<1> QED BY <1>6 DEF u

LEMMA FreeRowFacts ==
  ASSUME NEW s \in Nat
  PROVE  IsRow(FreeRow(s)) /\ FreeRow(s).slot = s /\ FreeRow(s).id = None
BY DEF IsRow, FreeRow, Row, Columns

LEMMA FreeShrinks ==
  ASSUME NEW t, IsTable(t), NEW s \in Nat
  PROVE  Shrunk(t, Write(t, FreeRow(s)))
<1> DEFINE u == Write(t, FreeRow(s))
<1>1. DOMAIN u = DOMAIN t /\ \A k \in DOMAIN t : u[k] = IF t[k].slot = s THEN FreeRow(s) ELSE t[k]
  BY FreeRowFacts DEF Write
<1> HIDE DEF u
<1>2. IsTable(u)
  BY <1>1, SameDomain, FreeRowFacts DEF IsTable
<1>3. \A k \in DOMAIN t : u[k].slot = t[k].slot
  BY <1>1, FreeRowFacts
<1>4. OwnedIn(u) \subseteq OwnedIn(t)
  BY <1>1, FreeRowFacts DEF OwnedIn
<1>5. Shrunk(t, u)
  BY <1>1, <1>2, <1>3, <1>4 DEF Shrunk
<1> QED BY <1>5 DEF u

\* Rows that keep their slots and their items.
LEMMA SameItemsShrink ==
  ASSUME NEW t, IsTable(t), NEW u, DOMAIN u = DOMAIN t,
         \A i \in DOMAIN t : DOMAIN u[i] = Columns /\ u[i].slot = t[i].slot /\ u[i].id = t[i].id
  PROVE  Shrunk(t, u)
<1>1. IsTable(u)
  BY SameDomain DEF IsTable, IsRow
<1> QED BY <1>1 DEF Shrunk, OwnedIn

\* Removing an item frees its row; another row of the same item may become active.
LEMMA RemoveShrinks ==
  ASSUME IsTable(rows), NEW r, IsRow(r), RemoveItem(r)
  PROVE  Shrunk(rows, rows')
<1>1. CASE r.id \in Fixed
  BY <1>1, ShrunkItself DEF RemoveItem
<1>2. CASE r.id \notin Fixed
  <2> DEFINE heirs == {i \in Of(r.id) : rows[i].slot # r.slot /\ rows[i].inUse = 1}
             heir == [rows[FirstOf(heirs)] EXCEPT !.status = 1]
             promoted == IF r.status = 1 /\ r.inUse = 1 /\ heirs # {} THEN Write(rows, heir) ELSE rows
  <2>1. rows' = Write(promoted, FreeRow(r.slot))
    BY <1>2 DEF RemoveItem, Remove
  <2>2. ASSUME heirs # {} PROVE Shrunk(rows, Write(rows, heir))
    <3>1. heirs \subseteq DOMAIN rows
      BY DEF Of
    <3>2. FirstOf(heirs) \in DOMAIN rows
      BY <2>2, <3>1, IndexesAreNat, FirstOfMember
    <3>3. IsRow(heir) /\ heir.slot = rows[FirstOf(heirs)].slot /\ heir.id = rows[FirstOf(heirs)].id
      BY <3>2 DEF IsTable, IsRow, Columns
    <3> HIDE DEF heir
    <3> QED BY <3>2, <3>3, WriteShrinks
  <2>3. Shrunk(rows, promoted)
    BY <2>2, ShrunkItself
  <2> HIDE DEF promoted
  <2>4. Shrunk(promoted, Write(promoted, FreeRow(r.slot)))
    BY <2>3, FreeShrinks DEF Shrunk, IsRow
  <2> QED BY <2>1, <2>3, <2>4, ShrunkTwice
<1> QED BY <1>1, <1>2

LEMMA ConsumeShrinks ==
  ASSUME IsTable(rows), NEW r, IsRow(r), NEW n, Consume(r, n)
  PROVE  Shrunk(rows, rows') /\ UNCHANGED <<next, due>>
<1>1. CASE r.count = n
  <2>1. RemoveItem(r)
    BY <1>1 DEF Consume
  <2> QED BY <2>1, RemoveShrinks DEF RemoveItem
<1>2. CASE r.count # n
  <2>1. rows' = [i \in DOMAIN rows |-> IF rows[i].slot = r.slot THEN [rows[i] EXCEPT !.count = r.count - n]
                                                                ELSE rows[i]]
        /\ UNCHANGED <<next, due>>
    BY <1>2 DEF Consume, SetCount
  <2>2. \A i \in DOMAIN rows : DOMAIN rows'[i] = Columns /\ rows'[i].slot = rows[i].slot /\ rows'[i].id = rows[i].id
    BY <2>1 DEF IsTable, IsRow, Columns
  <2>3. DOMAIN rows' = DOMAIN rows
    BY <2>1
  <2>4. Shrunk(rows, rows')
    BY <2>2, <2>3, SameItemsShrink
  <2> QED BY <2>1, <2>4
<1> QED BY <1>1, <1>2

(***************************************************************************)
(* The invariant of the tables                                             *)
(***************************************************************************)

Fits(t, n) == Cardinality(OwnedIn(t)) + n <= InventoryMax

\* The locals of a handler; a row it has read is kept as it was.
IsCall(c) ==
  /\ DOMAIN c = DOMAIN Idle /\ IsRow(c.item)
  /\ c.op \in {"lot", "begin"} => c.insert = <<>>

\* What a crash in a batch brings back, and what the batch will insert.
BatchOK ==
  /\ due = 0
  /\ IsSequence(call.insert) /\ \A k \in DOMAIN call.insert : DOMAIN call.insert[k] = Columns
  /\ IsTable(call.saved.rows) /\ call.saved.next \in Nat
  /\ ~torn => /\ Distinct(call.saved.rows) /\ Below(call.saved.rows, call.saved.next)
              /\ Fits(call.saved.rows, 0)
              /\ Fits(rows, Len(call.insert))

TableInv ==
  /\ IsTable(rows) /\ next \in Nat /\ due \in {0, 1} /\ torn \in BOOLEAN
  /\ ~torn => Distinct(rows) /\ Below(rows, next + due) /\ Fits(rows, 0)
  /\ IsCall(call)
  /\ call.op = "batch" => BatchOK

LEMMA TableInit == Init => TableInv
<1> SUFFICES ASSUME Init PROVE TableInv
  OBVIOUS
<1>1. rows = <<>> /\ next = 1 /\ due = 0 /\ torn = FALSE /\ call = Idle
  BY DEF Init
<1>2. Len(rows) = 0 /\ DOMAIN rows = {}
  BY <1>1
<1>3. IsTable(rows) /\ Distinct(rows) /\ Below(rows, next + due)
  BY <1>2 DEF IsTable, IsSequence, Distinct, Below
<1>4. OwnedIn(rows) = {}
  BY <1>2 DEF OwnedIn
<1>5. Fits(rows, 0)
  BY <1>4, FS_EmptySet, SizeAssumption DEF Fits
<1>6. IsRow(NullRow)
  BY FreeRowFacts DEF NullRow
<1>7. IsCall(call) /\ call.op = "idle"
  BY <1>1, <1>6 DEF IsCall, Idle
<1> QED BY <1>1, <1>3, <1>5, <1>7 DEF TableInv

LEMMA NullRowIsRow == IsRow(NullRow) /\ IsCall(Idle) /\ Idle.op = "idle"
<1>1. IsRow(NullRow)
  BY FreeRowFacts DEF NullRow
<1> QED BY <1>1 DEF IsCall, Idle

\* Shrinking keeps slots apart and the limit.
LEMMA ShrunkFits ==
  ASSUME NEW t, IsTable(t), NEW u, Shrunk(t, u), Distinct(t)
  PROVE  /\ Distinct(u)
         /\ \A n : Below(t, n) => Below(u, n)
         /\ \A n \in Nat : Fits(t, n) => Fits(u, n)
<1>1. Distinct(u)
  BY DEF Shrunk, Distinct
<1>2. \A n : Below(t, n) => Below(u, n)
  BY DEF Shrunk, Below
<1>3. OwnedIn(u) \subseteq OwnedIn(t)
  BY DEF Shrunk
<1>4. Cardinality(OwnedIn(u)) <= Cardinality(OwnedIn(t))
  BY <1>3, OwnedFinite, FS_Subset
<1>5. Cardinality(OwnedIn(u)) \in Nat /\ Cardinality(OwnedIn(t)) \in Nat
  BY OwnedFinite DEF Shrunk
<1>6. \A n \in Nat : Fits(t, n) => Fits(u, n)
  BY <1>4, <1>5, SizeAssumption DEF Fits
<1> QED BY <1>1, <1>2, <1>6

\* A step that rewrites rows where they are, outside a batch.
LEMMA ShrinkStep ==
  ASSUME TableInv, Shrunk(rows, rows'), UNCHANGED <<next, due, torn>>,
         IsCall(call'), call'.op # "batch"
  PROVE  TableInv'
<1>1. ~torn => Distinct(rows') /\ Below(rows', next + due) /\ Fits(rows', 0)
  BY ShrunkFits DEF TableInv
<1>2. IsTable(rows')
  BY DEF Shrunk
<1> QED BY <1>1, <1>2 DEF TableInv, Distinct, Below, Fits, IsTable, IsSequence, IsRow, OwnedIn, IsCall, BatchOK, Idle

LEMMA QuietStep ==
  ASSUME TableInv, UNCHANGED <<rows, next, due, torn>>, IsCall(call'), call'.op # "batch"
  PROVE  TableInv'
BY ShrinkStep, ShrunkItself DEF TableInv

\* A handler that gives a reward begins a batch, unless it draws first.
LEMMA BeginStep ==
  ASSUME TableInv, due = 0, UNCHANGED <<rows, next, due, torn>>,
         NEW r, NEW c, IsCall(c), call' = Begin(r, c)
  PROVE  TableInv'
<1>1. IsCall(call') /\ call'.insert = <<>> /\ call'.saved.rows = rows /\ call'.saved.next = next
  BY DEF IsCall, Begin, Saved, Idle
<1>2. Len(call'.insert) = 0 /\ DOMAIN call'.insert = {}
  BY <1>1
<1>3. IsSequence(call'.insert)
  BY <1>2 DEF IsSequence
<1>4. BatchOK'
  BY <1>1, <1>2, <1>3 DEF BatchOK, TableInv, IsTable, IsSequence, IsRow, Distinct, Below, Fits, OwnedIn
<1> QED BY <1>1, <1>4 DEF TableInv, Distinct, Below, Fits, IsTable, IsSequence, IsRow, OwnedIn, IsCall

(***************************************************************************)
(* Adding a row                                                            *)
(***************************************************************************)

\* A row is put in a free row's place or behind the last one.
Placed(r) ==
  \/ Free # {} /\ rows' = Write(rows, [r EXCEPT !.slot = rows[FirstOf(Free)].slot])
  \/ rows' = Append(rows, [r EXCEPT !.slot = next])

LEMMA PlacedFacts ==
  ASSUME IsTable(rows), next \in Nat, NEW r, DOMAIN r = Columns, Placed(r)
  PROVE  /\ IsTable(rows')
         /\ Distinct(rows) /\ Below(rows, next) =>
              /\ Distinct(rows') /\ Below(rows', next + 1)
              /\ DOMAIN rows' = DOMAIN rows => Below(rows', next)
              /\ Cardinality(OwnedIn(rows')) <= Cardinality(OwnedIn(rows)) + 1
<1>1. CASE Free # {} /\ rows' = Write(rows, [r EXCEPT !.slot = rows[FirstOf(Free)].slot])
  <2> DEFINE f == FirstOf(Free)
             new == [r EXCEPT !.slot = rows[f].slot]
  <2>1. f \in DOMAIN rows /\ rows[f].id = None
    <3>1. Free \subseteq Nat
      BY IndexesAreNat DEF Free
    <3>2. f \in Free
      BY <1>1, <3>1, FirstOfMember
    <3> QED BY <3>2 DEF Free, Owned
  <2>2. DOMAIN new = Columns /\ new.slot = rows[f].slot /\ IsRow(new)
    BY <2>1 DEF Columns, IsTable, IsRow
  <2>3. rows' = Write(rows, new)
    BY <1>1
  <2> HIDE DEF new, f
  <2>4. DOMAIN rows' = DOMAIN rows /\ \A k \in DOMAIN rows : rows'[k] = IF rows[k].slot = rows[f].slot THEN new ELSE rows[k]
    BY <2>2, <2>3 DEF Write
  <2>5. IsTable(rows') /\ \A k \in DOMAIN rows : rows'[k].slot = rows[k].slot
    BY <2>2, <2>4, SameDomain DEF IsTable
  <2>6. ASSUME Distinct(rows), Below(rows, next)
        PROVE  /\ Distinct(rows') /\ Below(rows', next + 1) /\ Below(rows', next)
               /\ OwnedIn(rows') \subseteq OwnedIn(rows) \cup {f}
    <3>1. Distinct(rows')
      BY <2>4, <2>5, <2>6 DEF Distinct
    <3>2. Below(rows', next)
      BY <2>4, <2>5, <2>6 DEF Below
    <3>3. Below(rows', next + 1)
      BY <3>2, <2>5 DEF Below, IsTable, IsRow
    <3>4. OwnedIn(rows') \subseteq OwnedIn(rows) \cup {f}
      BY <2>1, <2>4, <2>6 DEF OwnedIn, Distinct
    <3> QED BY <3>1, <3>2, <3>3, <3>4
  <2>7. ASSUME OwnedIn(rows') \subseteq OwnedIn(rows) \cup {f}
        PROVE  Cardinality(OwnedIn(rows')) <= Cardinality(OwnedIn(rows)) + 1
    <3>1. IsFiniteSet(OwnedIn(rows)) /\ Cardinality(OwnedIn(rows)) \in Nat /\ Cardinality(OwnedIn(rows')) \in Nat
      BY <2>5, OwnedFinite
    <3>2. /\ IsFiniteSet(OwnedIn(rows) \cup {f})
          /\ Cardinality(OwnedIn(rows) \cup {f}) \in {Cardinality(OwnedIn(rows)), Cardinality(OwnedIn(rows)) + 1}
      BY <3>1, FS_AddElement
    <3>3. Cardinality(OwnedIn(rows')) <= Cardinality(OwnedIn(rows) \cup {f})
      BY <2>7, <3>2, FS_Subset
    <3> QED BY <3>1, <3>2, <3>3
  <2> QED BY <2>5, <2>6, <2>7
<1>2. CASE rows' = Append(rows, [r EXCEPT !.slot = next])
  <2> DEFINE new == [r EXCEPT !.slot = next]
             n == Len(rows) + 1
  <2>1. IsRow(new) /\ new.slot = next
    BY DEF Columns, IsRow
  <2>2. rows' = Append(rows, new)
    BY <1>2
  <2> HIDE DEF new
  <2>3. /\ Len(rows') = n /\ DOMAIN rows' = 1..n /\ n \in Nat
        /\ \A k \in DOMAIN rows : rows'[k] = rows[k] /\ k # n
        /\ rows'[n] = new
        /\ DOMAIN rows' = DOMAIN rows \cup {n}
    BY <2>2 DEF IsTable, IsSequence
  <2>7. DOMAIN rows' # DOMAIN rows
    BY <2>3
  <2>4. IsTable(rows')
    BY <2>1, <2>3 DEF IsTable, IsSequence
  <2>5. ASSUME Distinct(rows), Below(rows, next)
        PROVE  Distinct(rows') /\ Below(rows', next + 1)
    <3>1. \A k \in DOMAIN rows : rows'[k].slot # next /\ rows[k].slot \in Nat /\ rows[k].slot < next
      BY <2>3, <2>5 DEF Below, IsTable, IsRow
    <3>2. Distinct(rows')
      BY <2>1, <2>3, <2>5, <3>1 DEF Distinct
    <3>3. rows'[n].slot < next + 1
      BY <2>1, <2>3
    <3>4. ASSUME NEW k \in DOMAIN rows PROVE rows'[k].slot < next + 1
      <4>1. rows'[k].slot = rows[k].slot /\ rows[k].slot \in Nat /\ rows[k].slot < next
        BY <2>3, <3>1
      <4> QED BY <4>1
    <3>5. Below(rows', next + 1)
      BY <2>3, <3>3, <3>4 DEF Below
    <3> QED BY <3>2, <3>5
  <2>6. Cardinality(OwnedIn(rows')) <= Cardinality(OwnedIn(rows)) + 1
    <3>1. IsFiniteSet(OwnedIn(rows)) /\ Cardinality(OwnedIn(rows)) \in Nat /\ Cardinality(OwnedIn(rows')) \in Nat
      BY <2>4, OwnedFinite
    <3>2. /\ IsFiniteSet(OwnedIn(rows) \cup {n})
          /\ Cardinality(OwnedIn(rows) \cup {n}) \in {Cardinality(OwnedIn(rows)), Cardinality(OwnedIn(rows)) + 1}
      BY <3>1, FS_AddElement
    <3>3. OwnedIn(rows') \subseteq OwnedIn(rows) \cup {n}
      BY <2>3 DEF OwnedIn
    <3>4. Cardinality(OwnedIn(rows')) <= Cardinality(OwnedIn(rows) \cup {n})
      BY <3>2, <3>3, FS_Subset
    <3> QED BY <3>1, <3>2, <3>4
  <2> QED BY <2>4, <2>5, <2>6, <2>7
<1> QED BY <1>1, <1>2 DEF Placed

\* A single row is added to an inventory with room.
LEMMA AddStep ==
  ASSUME TableInv, due = 0, ~IsInventoryFull, NEW r, DOMAIN r = Columns, AddInventoryItem(r),
         torn' = torn, IsCall(call'), call'.op # "batch"
  PROVE  TableInv'
<1>1. Placed(r) /\ due' = 1 /\ next' = next
  BY DEF AddInventoryItem, Placed
<1>2. IsTable(rows) /\ next \in Nat
  BY DEF TableInv
<1>3. /\ IsTable(rows')
      /\ Distinct(rows) /\ Below(rows, next) =>
           /\ Distinct(rows') /\ Below(rows', next + 1)
           /\ Cardinality(OwnedIn(rows')) <= Cardinality(OwnedIn(rows)) + 1
  BY <1>1, <1>2, PlacedFacts
<1>4. Cardinality(OwnedIn(rows)) < InventoryMax
  <2>1. Cardinality(OwnedIn(rows)) \in Nat
    BY <1>2, OwnedFinite
  <2> QED BY <2>1, SizeAssumption DEF IsInventoryFull, Owned, OwnedIn
<1>5. Cardinality(OwnedIn(rows)) \in Nat /\ Cardinality(OwnedIn(rows')) \in Nat
  BY <1>2, <1>3, OwnedFinite
<1>6. ~torn => Distinct(rows') /\ Below(rows', next + 1) /\ Fits(rows', 0)
  BY <1>3, <1>4, <1>5, SizeAssumption DEF TableInv, Fits, Below
<1> QED BY <1>1, <1>2, <1>3, <1>6 DEF TableInv, Distinct, Below, Fits, IsTable, IsSequence, IsRow, OwnedIn, IsCall, BatchOK, Idle

LEMMA NewRowColumns ==
  ASSUME NEW g, NEW batch
  PROVE  DOMAIN NewRow(g, batch) = Columns
<1>1. \A s, id, count, status, inUse, obtain, expiry :
        DOMAIN Row(s, id, count, status, inUse, obtain, expiry) = Columns
  BY DEF Row, Columns
<1> QED BY <1>1, Zenon DEF NewRow

\* The row that AddItem or a batch extends, and the one it stacks on.
LEMMA FoundRow ==
  ASSUME IsTable(rows), NEW S, S \subseteq DOMAIN rows, S # {}
  PROVE  FirstOf(S) \in S /\ FirstOf(S) \in DOMAIN rows
BY IndexesAreNat, FirstOfMember

LEMMA ExtendShrinks ==
  ASSUME IsTable(rows), NEW g, Extends(g), ExtendItem(rows[FirstOf(Extendable(g.id))], g.days)
  PROVE  Shrunk(rows, rows') /\ UNCHANGED <<next, due>>
<1> DEFINE i == FirstOf(Extendable(g.id))
           r == [rows[i] EXCEPT !.expiry = ExtendedDate(rows[i], g.days)]
<1>1. i \in DOMAIN rows
  BY FoundRow DEF Extends, Extendable, Of
<1>2. IsRow(r) /\ r.slot = rows[i].slot /\ r.id = rows[i].id
  BY <1>1 DEF IsTable, IsRow, Columns
<1>3. rows' = Write(rows, r) /\ UNCHANGED <<next, due>>
  BY DEF ExtendItem, UpdateInventoryItem
<1> HIDE DEF i, r
<1> QED BY <1>1, <1>2, <1>3, WriteShrinks

LEMMA StackShrinks ==
  ASSUME IsTable(rows), NEW g, Stacks(g),
         UpdateInventoryItem([FirstRow(g.id) EXCEPT !.count = @ + g.count])
  PROVE  Shrunk(rows, rows') /\ UNCHANGED <<next, due>>
<1> DEFINE i == FirstOf(Of(g.id))
           r == [FirstRow(g.id) EXCEPT !.count = @ + g.count]
<1>1. i \in DOMAIN rows
  BY FoundRow DEF Stacks, Of
<1>2. IsRow(r) /\ r.slot = rows[i].slot /\ r.id = rows[i].id
  BY <1>1 DEF IsTable, IsRow, Columns, FirstRow
<1>3. rows' = Write(rows, r) /\ UNCHANGED <<next, due>>
  BY DEF UpdateInventoryItem
<1> HIDE DEF i, r
<1> QED BY <1>1, <1>2, <1>3, WriteShrinks

\* Whatever AddItem finds or fails at.
LEMMA AddItemStep ==
  ASSUME TableInv, due = 0, ~IsInventoryFull, NEW g, AddItem(g) \/ AddItemFails(g),
         torn' = torn, IsCall(call'), call'.op # "batch"
  PROVE  TableInv'
<1>1. IsTable(rows)
  BY DEF TableInv
<1>2. CASE AddItemFails(g)
  BY <1>2, QuietStep DEF AddItemFails, table
<1>3. CASE Extends(g) /\ ExtendItem(rows[FirstOf(Extendable(g.id))], g.days)
  BY <1>1, <1>3, ExtendShrinks, ShrinkStep
<1>4. CASE Stacks(g) /\ UpdateInventoryItem([FirstRow(g.id) EXCEPT !.count = @ + g.count])
  BY <1>1, <1>4, StackShrinks, ShrinkStep
<1>5. CASE AddInventoryItem(NewRow(g, FALSE))
  BY <1>5, NewRowColumns, AddStep
<1> QED BY <1>2, <1>3, <1>4, <1>5 DEF AddItem

LEMMA AddOneStep ==
  ASSUME TableInv, due = 0, NEW g, AddOne(g),
         torn' = torn, IsCall(call'), call'.op # "batch"
  PROVE  TableInv'
BY AddItemStep, QuietStep DEF AddOne, table

(***************************************************************************)
(* The steps of the handlers                                               *)
(***************************************************************************)

\* Steps that only move the handler on.
LEMMA QuietActions ==
  ASSUME TableInv,
         \/ \E p \in Product : BuyProduct(p)
         \/ Charge \/ NoRateFound \/ Login \/ ClearNotices \/ Tick \/ EndTick \/ Logout
         \/ \E i \in DOMAIN rows : \E n \in 1 .. MaxUse : OpenItemBox(i, n)
         \/ \E n \in 0 .. MaxPoints : GivePoints(n)
  PROVE  TableInv'
<1>1. UNCHANGED <<rows, next, due, torn>>
  BY DEF BuyProduct, Charge, NoRateFound, Login, ClearNotices, Tick, EndTick, Logout,
         OpenItemBox, GivePoints, table, history
<1>2. IsRow(NullRow) /\ IsCall(Idle) /\ Idle.op = "idle"
  BY NullRowIsRow
<1>3. IsCall(call') /\ call'.op # "batch"
  <2>1. CASE \E p \in Product : BuyProduct(p)
    BY <2>1, <1>2 DEF BuyProduct, IsCall, Idle
  <2>2. CASE Charge \/ NoRateFound \/ ClearNotices \/ EndTick
    BY <2>2, <1>2 DEF Charge, NoRateFound, ClearNotices, EndTick
  <2>3. CASE Login
    BY <2>3, <1>2 DEF Login, IsCall, Idle
  <2>4. CASE Tick
    BY <2>4, <1>2 DEF Tick, IsCall, Idle
  <2>5. CASE Logout \/ \E n \in 0 .. MaxPoints : GivePoints(n)
    BY <2>5, <1>2 DEF Logout, GivePoints, Commanded
  <2>6. CASE \E i \in DOMAIN rows : \E n \in 1 .. MaxUse : OpenItemBox(i, n)
    <3>1. PICK i \in DOMAIN rows : \E n \in 1 .. MaxUse : OpenItemBox(i, n)
      BY <2>6
    <3>2. IsRow(rows[i])
      BY DEF TableInv, IsTable
    <3> QED BY <3>1, <3>2, <1>2 DEF OpenItemBox, IsCall, Idle
  <2> QED BY <2>1, <2>2, <2>3, <2>4, <2>5, <2>6
<1> QED BY <1>1, <1>3, QuietStep

\* The second statement of AddInventoryItem.
LEMMA AdvanceStep ==
  ASSUME TableInv, AdvanceSlot
  PROVE  TableInv'
<1>1. call.op # "batch" /\ due = 1 /\ due' = 0 /\ UNCHANGED <<rows, call>>
  BY DEF TableInv, BatchOK, AdvanceSlot
<1>2. next' \in Nat /\ torn' \in BOOLEAN
  <2>1. next' \in Nat
    BY DEF TableInv, AdvanceSlot
  <2>2. torn' \in BOOLEAN
    BY Zenon DEF TableInv, AdvanceSlot
  <2> QED BY <2>1, <2>2
<1>3. CASE next' = next + 1 /\ torn' = torn
  <2>1. next + due = next' + due'
    BY <1>1, <1>2, <1>3 DEF TableInv
  <2> QED BY <1>1, <1>2, <1>3, <2>1 DEF TableInv, Distinct, Below, Fits, IsTable, IsSequence, IsRow, OwnedIn, IsCall, BatchOK
<1>4. CASE next' = next /\ torn' = (torn \/ \E i \in DOMAIN rows : rows[i].slot >= next)
  <2>1. ASSUME ~torn', NEW i \in DOMAIN rows PROVE rows[i].slot < next' + due'
    <3>1. ~(rows[i].slot >= next)
      BY <1>4, <2>1, Zenon
    <3>2. rows[i].slot \in Nat /\ next \in Nat
      BY DEF TableInv, IsTable, IsRow
    <3> QED BY <1>1, <1>4, <3>1, <3>2
  <2>2. ~torn' => ~torn
    BY <1>4, Zenon
  <2> QED BY <1>1, <1>2, <1>4, <2>1, <2>2 DEF TableInv, Distinct, Below, Fits, IsTable, IsSequence, IsRow, OwnedIn, IsCall, BatchOK
<1> QED BY <1>3, <1>4 DEF AdvanceSlot

LEMMA PlusZero == \A n \in Nat : n + 0 = n
OBVIOUS

\* Inside a transaction, rows and the rows to insert change together.
LEMMA BatchStep ==
  ASSUME TableInv, call.op = "batch", IsTable(rows'), next' \in Nat, UNCHANGED <<due, torn>>,
         IsCall(call'), call'.op = "batch", call'.saved = call.saved,
         IsSequence(call'.insert), \A k \in DOMAIN call'.insert : DOMAIN call'.insert[k] = Columns,
         ~torn => Distinct(rows') /\ Below(rows', next') /\ Fits(rows', Len(call'.insert))
  PROVE  TableInv'
<1>1. due = 0 /\ BatchOK
  BY DEF TableInv, BatchOK
<1>2. Cardinality(OwnedIn(rows')) \in Nat /\ Len(call'.insert) \in Nat
  BY OwnedFinite DEF IsSequence
<1>3. Fits(rows', Len(call'.insert)) => Fits(rows', 0)
  BY <1>2, SizeAssumption DEF Fits
<1>4. next' + 0 = next'
  BY PlusZero, Zenon
<1>5. BatchOK'
  BY <1>1 DEF BatchOK, IsTable, IsSequence, IsRow, Distinct, Below, Fits, OwnedIn
<1> QED BY <1>1, <1>3, <1>4, <1>5 DEF TableInv, Distinct, Below, Fits, IsTable, IsSequence, IsRow, OwnedIn, IsCall

\* The rows of a batch change where they are.
LEMMA BatchShrinkStep ==
  ASSUME TableInv, call.op = "batch", Shrunk(rows, rows'), UNCHANGED <<next, due, torn>>,
         IsCall(call'), call'.op = "batch", call'.saved = call.saved,
         call'.insert = call.insert \/ call'.insert = <<>>
  PROVE  TableInv'
<1>1. IsTable(rows) /\ BatchOK /\ due = 0 /\ next \in Nat /\ IsTable(rows')
  BY DEF TableInv, BatchOK, Shrunk
<1>2. /\ IsSequence(call'.insert) /\ Len(call'.insert) \in Nat
      /\ \A k \in DOMAIN call'.insert : DOMAIN call'.insert[k] = Columns
      /\ Fits(rows, Len(call.insert)) => Fits(rows, Len(call'.insert))
  <2>1. CASE call'.insert = call.insert
    BY <1>1, <2>1 DEF BatchOK, IsSequence
  <2>2. CASE call'.insert = <<>>
    <3>1. Len(call'.insert) = 0 /\ DOMAIN call'.insert = {}
      BY <2>2
    <3>2. Cardinality(OwnedIn(rows)) \in Nat /\ Len(call.insert) \in Nat
      BY <1>1, OwnedFinite DEF BatchOK, IsSequence
    <3>3. Fits(rows, Len(call.insert)) => Fits(rows, Len(call'.insert))
      BY <3>1, <3>2, SizeAssumption DEF Fits
    <3> QED BY <3>1, <3>3 DEF IsSequence
  <2> QED BY <2>1, <2>2
<1>3. next + due = next
  BY <1>1
<1>4. ~torn => Distinct(rows') /\ Below(rows', next) /\ Fits(rows', Len(call'.insert))
  BY <1>1, <1>2, <1>3, ShrunkFits DEF TableInv, BatchOK
<1> QED BY <1>1, <1>2, <1>4, BatchStep

\* An item of a batch is extended, stacked later, or put with the rows to insert.
LEMMA CollectStep ==
  ASSUME TableInv, Collect
  PROVE  TableInv'
<1>1. /\ IsTable(rows) /\ BatchOK /\ IsCall(call) /\ call.op = "batch" /\ due = 0 /\ next \in Nat
      /\ torn' = torn
  BY DEF TableInv, Collect, At, history
<1> DEFINE g == Head(call.goods)
           rest == [call EXCEPT !.goods = Tail(@)]
<1>2. /\ IsCall(rest) /\ rest.op = "batch" /\ rest.saved = call.saved /\ rest.insert = call.insert
      /\ DOMAIN rest = DOMAIN Idle
  BY <1>1 DEF IsCall, Idle
<1>3. CASE BatchFull /\ call' = [call EXCEPT !.goods = <<>>] /\ UNCHANGED <<table, dress>>
  <2>1. IsCall(call') /\ call'.op = "batch" /\ call'.saved = call.saved /\ call'.insert = call.insert
    BY <1>1, <1>3 DEF IsCall, Idle
  <2> QED BY <2>1, <1>1, <1>3, ShrunkItself, BatchShrinkStep DEF table
<1>4. CASE /\ AddItemFails(g)
           /\ call' = [call EXCEPT !.goods = <<>>, !.insert = <<>>, !.update = <<>>]
  <2>1. IsCall(call') /\ call'.op = "batch" /\ call'.saved = call.saved /\ call'.insert = <<>>
    BY <1>1, <1>4 DEF IsCall, Idle
  <2> QED BY <2>1, <1>1, <1>4, ShrunkItself, BatchShrinkStep DEF table, AddItemFails
<1>5. CASE ExtendGood(g, rest)
  <2>1. Shrunk(rows, rows') /\ UNCHANGED <<next, due>>
    BY <1>1, <1>5, ExtendShrinks DEF ExtendGood
  <2>2. call' = rest
    BY <1>5 DEF ExtendGood
  <2> QED BY <1>1, <1>2, <2>1, <2>2, BatchShrinkStep
<1>6. CASE StackGood(g, rest)
  <2> DEFINE update == Append(rest.update, [slot |-> FirstRow(g.id).slot,
                                           count |-> FirstRow(g.id).count + g.count])
  <2>1. call' = [rest EXCEPT !.update = update] /\ UNCHANGED <<rows, next, due>>
    BY <1>6 DEF StackGood, table
  <2> HIDE DEF update, rest
  <2>2. IsCall(call') /\ call'.op = "batch" /\ call'.saved = call.saved /\ call'.insert = call.insert
    BY <1>2, <2>1 DEF IsCall, Idle
  <2> QED BY <1>1, <2>1, <2>2, ShrunkItself, BatchShrinkStep
<1>7. CASE ~BatchFull /\ InsertGood(g, rest)
  <2> DEFINE new == NewRow(g, TRUE)
             insert == Append(call.insert, new)
  <2>1. call' = [rest EXCEPT !.insert = insert] /\ UNCHANGED <<rows, next, due>>
    BY <1>2, <1>7 DEF InsertGood, table
  <2>2. DOMAIN new = Columns
    BY NewRowColumns
  <2> HIDE DEF new, rest
  <2>3. /\ Len(insert) = Len(call.insert) + 1 /\ Len(call.insert) \in Nat
        /\ DOMAIN insert = 1 .. (Len(call.insert) + 1)
        /\ \A k \in DOMAIN insert : DOMAIN insert[k] = Columns
    BY <1>1, <2>2 DEF BatchOK, IsSequence
  <2> HIDE DEF insert
  <2>4. IsCall(call') /\ call'.op = "batch" /\ call'.saved = call.saved /\ call'.insert = insert
    BY <1>2, <2>1 DEF IsCall, Idle
  <2>5. IsSequence(insert)
    BY <2>3 DEF IsSequence
  <2>6. Cardinality(OwnedIn(rows)) \in Nat
    BY <1>1, OwnedFinite
  <2>7. Fits(rows, Len(insert))
    <3>1. ~(Cardinality(OwnedIn(rows)) + Len(call.insert) >= InventoryMax)
      BY <1>7 DEF BatchFull, Owned, OwnedIn
    <3> QED BY <2>3, <2>6, <3>1, SizeAssumption DEF Fits
  <2>8. next + due = next
    BY <1>1
  <2>9. ~torn => Distinct(rows') /\ Below(rows', next') /\ Fits(rows', Len(insert))
    BY <2>1, <2>7, <2>8 DEF TableInv, Distinct, Below, Fits, OwnedIn
  <2>10. IsTable(rows')
    BY <1>1, <2>1 DEF IsTable, IsSequence, IsRow
  <2> QED BY <1>1, <2>1, <2>3, <2>4, <2>5, <2>9, <2>10, BatchStep
<1> QED BY <1>3, <1>4, <1>5, <1>6, <1>7 DEF Collect

LEMMA FreeCount ==
  ASSUME IsTable(rows)
  PROVE  Cardinality(Free) \in Nat /\ (Free = {} => Cardinality(Free) = 0)
<1>1. IsFiniteSet(1..Len(rows)) /\ Free \subseteq 1..Len(rows)
  BY FS_Interval DEF IsTable, IsSequence, Free
<1> QED BY <1>1, FS_Subset, FS_CardinalityType, FS_EmptySet

\* A row of the batch takes the place that was counted for it.
LEMMA PlaceOneStep ==
  ASSUME TableInv, call.op = "batch", NEW r, DOMAIN r = Columns, Placed(r), NEW insert,
         IsSequence(insert), Len(insert) + 1 = Len(call.insert), Len(insert) \in Nat,
         \A k \in DOMAIN insert : DOMAIN insert[k] = Columns,
         next' = next + 1 \/ (next' = next /\ DOMAIN rows' = DOMAIN rows),
         call' = [call EXCEPT !.insert = insert], UNCHANGED <<due, torn>>
  PROVE  TableInv'
<1>1. IsTable(rows) /\ BatchOK /\ IsCall(call) /\ due = 0 /\ next \in Nat /\ next' \in Nat /\ next + due = next
  BY DEF TableInv, BatchOK
<1>4. IsCall(call') /\ call'.op = "batch" /\ call'.saved = call.saved /\ call'.insert = insert
  BY <1>1 DEF IsCall, Idle
<1>6. /\ IsTable(rows')
      /\ Distinct(rows) /\ Below(rows, next) =>
           /\ Distinct(rows') /\ Below(rows', next + 1)
           /\ DOMAIN rows' = DOMAIN rows => Below(rows', next)
           /\ Cardinality(OwnedIn(rows')) <= Cardinality(OwnedIn(rows)) + 1
  BY <1>1, PlacedFacts
<1>7. Cardinality(OwnedIn(rows)) \in Nat /\ Cardinality(OwnedIn(rows')) \in Nat
  BY <1>1, <1>6, OwnedFinite
<1>8. ASSUME ~torn PROVE Distinct(rows') /\ Below(rows', next') /\ Fits(rows', Len(insert))
  <2>1. Distinct(rows) /\ Below(rows, next) /\ Fits(rows, Len(call.insert))
    BY <1>1, <1>8 DEF TableInv, BatchOK
  <2>2. Fits(rows', Len(insert))
    BY <1>6, <1>7, <2>1, SizeAssumption DEF Fits
  <2> QED BY <1>6, <2>1, <2>2
<1> QED BY <1>1, <1>4, <1>6, <1>8, BatchStep

\* The row that PlaceNew and PlaceTears take, and the list without it.
LEMMA NewPick ==
  ASSUME TableInv, Placing, ForNew <= Len(call.insert)
  PROVE  /\ ForNew \in DOMAIN call.insert /\ DOMAIN call.insert[ForNew] = Columns
         /\ LET insert == Without(call.insert, ForNew) IN
              /\ IsSequence(insert) /\ Len(insert) + 1 = Len(call.insert) /\ Len(insert) \in Nat
              /\ \A k \in DOMAIN insert : DOMAIN insert[k] = Columns
<1> DEFINE insert == Without(call.insert, ForNew)
           n == Len(call.insert)
<1>1. IsTable(rows) /\ BatchOK
  BY DEF TableInv, Placing, At
<1>2. ForNew \in Nat /\ ForNew >= 1 /\ n \in Nat /\ DOMAIN call.insert = 1 .. n
  BY <1>1, FreeCount DEF ForNew, BatchOK, IsSequence
<1>3. \A k \in DOMAIN call.insert : DOMAIN call.insert[k] = Columns
  BY <1>1 DEF BatchOK
<1>4. /\ DOMAIN insert = 1 .. (n - 1) /\ n - 1 \in Nat
      /\ \A k \in 1 .. (n - 1) : insert[k] = IF k < ForNew THEN call.insert[k] ELSE call.insert[k + 1]
  BY <1>2 DEF Without
<1> HIDE DEF insert
<1>5. insert \in Seq({call.insert[k] : k \in DOMAIN call.insert})
  <2>1. insert = [k \in 1 .. (n - 1) |-> insert[k]]
    BY <1>2 DEF Without, insert
  <2>2. \A k \in 1 .. (n - 1) : insert[k] \in {call.insert[j] : j \in DOMAIN call.insert}
    <3> SUFFICES ASSUME NEW k \in 1 .. (n - 1)
                 PROVE  \E j \in DOMAIN call.insert : insert[k] = call.insert[j]
      BY Zenon
    <3>1. k \in DOMAIN call.insert /\ k + 1 \in DOMAIN call.insert
      BY <1>2
    <3>2. insert[k] = call.insert[k] \/ insert[k] = call.insert[k + 1]
      BY <1>4
    <3> QED BY <3>1, <3>2, Zenon
  <2> QED BY <1>4, <2>1, <2>2, IsASeq
<1>6. Len(insert) = n - 1
  BY <1>4, <1>5
<1>7. \A k \in DOMAIN insert : DOMAIN insert[k] = Columns
  BY <1>2, <1>3, <1>4
<1> QED BY <1>2, <1>3, <1>4, <1>6, <1>7 DEF insert, IsSequence

LEMMA PlaceNewStep ==
  ASSUME TableInv, PlaceNew
  PROVE  TableInv'
<1> DEFINE r == call.insert[ForNew]
           insert == Without(call.insert, ForNew)
<1>1. /\ Placing /\ ForNew <= Len(call.insert) /\ PlaceInsert(r) /\ call.op = "batch"
      /\ call' = [call EXCEPT !.insert = insert] /\ UNCHANGED <<due, torn>>
  BY DEF PlaceNew, Placing, At, history
<1>2. /\ DOMAIN r = Columns /\ IsSequence(insert) /\ Len(insert) + 1 = Len(call.insert) /\ Len(insert) \in Nat
      /\ \A k \in DOMAIN insert : DOMAIN insert[k] = Columns
  BY <1>1, NewPick
<1> HIDE DEF r, insert
<1> QED BY <1>1, <1>2, PlaceOneStep DEF PlaceInsert, Placed

LEMMA PlaceFreeStep ==
  ASSUME TableInv, PlaceFree
  PROVE  TableInv'
<1> DEFINE r == Head(call.insert)
           insert == Tail(call.insert)
<1>1. /\ IsTable(rows) /\ BatchOK /\ Placing /\ Len(call.insert) < ForNew /\ call.op = "batch"
      /\ rows' = Write(rows, [r EXCEPT !.slot = rows[FirstOf(Free)].slot])
      /\ call' = [call EXCEPT !.insert = insert] /\ UNCHANGED <<next, due, torn>>
  BY DEF TableInv, PlaceFree, Placing, At, history
<1>2. Len(call.insert) # 0 /\ Len(call.insert) \in Nat /\ DOMAIN call.insert = 1 .. Len(call.insert)
  BY <1>1 DEF BatchOK, IsSequence, Placing
<1>3. r = call.insert[1] /\ 1 \in DOMAIN call.insert
  BY <1>2
<1>4. /\ Len(insert) = Len(call.insert) - 1 /\ DOMAIN insert = 1 .. (Len(call.insert) - 1)
      /\ \A k \in DOMAIN insert : insert[k] = call.insert[k + 1] /\ k + 1 \in DOMAIN call.insert
  BY <1>2
<1>5. DOMAIN r = Columns /\ \A k \in DOMAIN insert : DOMAIN insert[k] = Columns
  BY <1>1, <1>3, <1>4 DEF BatchOK
<1> HIDE DEF r, insert
<1>6. Free # {}
  BY <1>1, <1>2, FreeCount DEF ForNew
<1>7. Placed(r)
  BY <1>1, <1>6 DEF Placed
<1>8. DOMAIN rows' = DOMAIN rows
  BY <1>1 DEF Write
<1>9. IsSequence(insert) /\ Len(insert) + 1 = Len(call.insert) /\ Len(insert) \in Nat
  BY <1>2, <1>4 DEF IsSequence
<1> QED BY <1>1, <1>5, <1>7, <1>8, <1>9, PlaceOneStep

\* A batch cut short: the rows that were inserted may share slots from now on.
LEMMA PlaceTearsStep ==
  ASSUME TableInv, PlaceTears
  PROVE  TableInv'
<1> DEFINE r == call.insert[ForNew]
<1>1. /\ IsTable(rows) /\ BatchOK /\ IsCall(call) /\ next \in Nat
      /\ Placing /\ ForNew <= Len(call.insert) /\ call.op = "batch"
      /\ rows' = Append(rows, [r EXCEPT !.slot = next])
      /\ next' = call.saved.next /\ torn' = TRUE /\ call' = Given /\ UNCHANGED due
  BY DEF TableInv, PlaceTears, Placing, At
<1>2. DOMAIN r = Columns
  BY <1>1, NewPick
<1> HIDE DEF r
<1>3. IsTable(rows')
  BY <1>1, <1>2, PlacedFacts DEF Placed
<1>4. IsCall(call') /\ call'.op = "batch" /\ call'.saved = call.saved /\ call'.insert = <<>>
  BY <1>1 DEF Given, IsCall, Idle
<1>5. IsSequence(<<>>) /\ DOMAIN <<>> = {}
  BY DEF IsSequence
<1>6. BatchOK'
  BY <1>1, <1>3, <1>4, <1>5 DEF BatchOK, IsTable, IsSequence, IsRow
<1> QED BY <1>1, <1>3, <1>4, <1>6 DEF BatchOK, TableInv, IsTable, IsSequence, IsRow, IsCall

LEMMA FailsStep ==
  ASSUME TableInv, PlaceFails \/ StackFails
  PROVE  TableInv'
<1>1. /\ IsTable(rows) /\ IsCall(call) /\ call.op = "batch" /\ UNCHANGED <<rows, next, due, torn>>
      /\ call' = Given
  BY DEF TableInv, PlaceFails, StackFails, Placing, At, table, history
<1>2. IsCall(call') /\ call'.op = "batch" /\ call'.saved = call.saved /\ call'.insert = <<>>
  BY <1>1 DEF Given, IsCall, Idle
<1> QED BY <1>1, <1>2, ShrunkItself, BatchShrinkStep

LEMMA StackAllStep ==
  ASSUME TableInv, StackAll
  PROVE  TableInv'
<1>1. /\ IsTable(rows) /\ IsCall(call) /\ call.op = "batch"
      /\ rows' = [i \in DOMAIN rows |-> [rows[i] EXCEPT !.count = NewCount(rows[i])]]
      /\ UNCHANGED <<next, due, torn>> /\ call' = [call EXCEPT !.update = <<>>]
  BY DEF TableInv, StackAll, At, history
<1>2. \A i \in DOMAIN rows : DOMAIN rows'[i] = Columns /\ rows'[i].slot = rows[i].slot /\ rows'[i].id = rows[i].id
  BY <1>1 DEF IsTable, IsRow, Columns
<1>3. DOMAIN rows' = DOMAIN rows
  BY <1>1
<1>4. Shrunk(rows, rows')
  BY <1>1, <1>2, <1>3, SameItemsShrink
<1>5. IsCall(call') /\ call'.op = "batch" /\ call'.saved = call.saved /\ call'.insert = call.insert
  BY <1>1 DEF IsCall, Idle
<1> QED BY <1>1, <1>4, <1>5, BatchShrinkStep

LEMMA CommitStep ==
  ASSUME TableInv, Commit
  PROVE  TableInv'
<1>1. /\ UNCHANGED <<due, torn>> /\ IsCall(call) /\ call' = Resumed /\ call.op = "batch"
      /\ UNCHANGED <<rows, next>> \/ Restore
  BY DEF TableInv, Commit, At
<1>2. IsRow(NullRow) /\ IsCall(Idle) /\ Idle.op = "idle"
  BY NullRowIsRow
<1>3. IsCall(call') /\ call'.op # "batch"
  BY <1>1, <1>2 DEF Resumed, IsCall, Idle
<1>4. CASE UNCHANGED <<rows, next>>
  BY <1>1, <1>3, <1>4, QuietStep
<1>5. CASE Restore
  <2>1. rows' = call.saved.rows /\ next' = call.saved.next /\ BatchOK
    BY <1>1, <1>5 DEF Restore, TableInv
  <2>2. due' = 0 /\ next' + due' = next'
    BY <1>1, <2>1 DEF BatchOK
  <2> QED BY <1>1, <1>3, <2>1, <2>2
         DEF BatchOK, TableInv, Distinct, Below, Fits, IsTable, IsSequence, IsRow, OwnedIn, IsCall
<1> QED BY <1>1, <1>4, <1>5

\* Steps that begin a batch or draw the item that comes before it.
LEMMA RewardActions ==
  ASSUME TableInv,
         \/ \E r \in Reward : GiveReward(r)
         \/ DrawLot \/ BeginBatch \/ GiveNotice \/ UseReward
         \/ \E p \in Product : AddAllItems(p.goods)
  PROVE  TableInv'
<1>1. IsRow(NullRow) /\ IsCall(Idle) /\ Idle.op = "idle" /\ IsCall(call)
  BY NullRowIsRow DEF TableInv
<1>2. CASE \E r \in Reward : GiveReward(r)
  <2>1. PICK r \in Reward : GiveReward(r)
    BY <1>2
  <2>2. due = 0 /\ UNCHANGED <<rows, next, due, torn>> /\ call = Idle
    BY <2>1 DEF GiveReward, table
  <2>3. CASE call' = Begin(r, Idle)
    BY <1>1, <2>2, <2>3, BeginStep
  <2>4. CASE call' = call
    BY <1>1, <2>2, <2>4, QuietStep
  <2> QED BY <2>1, <2>3, <2>4 DEF GiveReward
<1>3. CASE DrawLot
  <2>1. due = 0 /\ torn' = torn /\ call' = [call EXCEPT !.op = "begin"] /\ call.insert = <<>>
    BY <1>1, <1>3 DEF DrawLot, At, history, IsCall
  <2>2. IsCall(call') /\ call'.op # "batch"
    BY <1>1, <2>1 DEF IsCall, Idle
  <2>3. PICK g : AddOne(g)
    BY <1>3 DEF DrawLot
  <2> QED BY <2>1, <2>2, <2>3, AddOneStep
<1>4. CASE BeginBatch
  <2>1. /\ due = 0 /\ UNCHANGED <<rows, next, due, torn>> /\ call.insert = <<>>
        /\ call' = [call EXCEPT !.op = "batch", !.saved = Saved]
    BY <1>1, <1>4 DEF BeginBatch, At, history, table, IsCall
  <2>2. IsCall(call') /\ call'.insert = <<>> /\ call'.saved.rows = rows /\ call'.saved.next = next
    BY <1>1, <2>1 DEF IsCall, Saved, Idle
  <2>3. Len(call'.insert) = 0 /\ DOMAIN call'.insert = {}
    BY <2>2
  <2>4. IsSequence(call'.insert)
    BY <2>3 DEF IsSequence
  <2>5. BatchOK'
    <3>1. IsTable(rows) /\ next \in Nat /\ next + due = next
      BY <2>1 DEF TableInv
    <3>2. ~torn => Distinct(rows) /\ Below(rows, next) /\ Fits(rows, 0)
      BY <3>1 DEF TableInv
    <3>3. \A k \in DOMAIN call'.insert : DOMAIN call'.insert[k] = Columns
      BY <2>3
    <3>4. ~torn' => Fits(rows, 0) /\ Fits(rows', Len(call'.insert))
      BY <2>1, <2>3, <3>2 DEF Fits, OwnedIn
    <3> QED BY <2>1, <2>2, <2>4, <3>1, <3>2, <3>3, <3>4 DEF BatchOK
  <2> QED BY <2>1, <2>2, <2>5 DEF TableInv, Distinct, Below, Fits, IsTable, IsSequence, IsRow, OwnedIn, IsCall
<1>5. CASE GiveNotice
  <2> DEFINE r == stored[Head(call.notices)]
  <2>1. due = 0 /\ UNCHANGED <<rows, next, due, torn>> /\ call.op = "login"
    BY <1>5 DEF GiveNotice, At, table, history
  <2>2. CASE call' = Begin(r, call)
    BY <1>1, <2>1, <2>2, BeginStep
  <2>3. CASE call' = [call EXCEPT !.notices = Tail(@)]
    <3>1. IsCall(call') /\ call'.op # "batch"
      BY <1>1, <2>1, <2>3 DEF IsCall, Idle
    <3> QED BY <2>1, <3>1, QuietStep
  <2> QED BY <1>5, <2>2, <2>3 DEF GiveNotice
<1>6. CASE UseReward
  <2> DEFINE c == [call EXCEPT !.count = @ - 1]
  <2>1. due = 0 /\ UNCHANGED <<rows, next, due, torn>> /\ call' = Begin(RewardOf[call.item.id], c) /\ call.op = "use"
    BY <1>6 DEF UseReward, At, table, history
  <2>2. IsCall(c)
    BY <1>1, <2>1 DEF IsCall, Idle
  <2> HIDE DEF c
  <2> QED BY <2>1, <2>2, BeginStep
<1>7. CASE \E p \in Product : AddAllItems(p.goods)
  <2>1. PICK p \in Product : AddAllItems(p.goods)
    BY <1>7
  <2> DEFINE r == [goods |-> p.goods, lots |-> {}, points |-> 0]
  <2>2. due = 0 /\ UNCHANGED <<rows, next, due, torn>> /\ call' = Begin(r, Idle)
    BY <2>1 DEF AddAllItems, Commanded, table, history
  <2> HIDE DEF r
  <2> QED BY <1>1, <2>2, BeginStep
<1> QED BY <1>2, <1>3, <1>4, <1>5, <1>6, <1>7

\* The process dies: an open transaction is rolled back.
LEMMA CrashStep ==
  ASSUME TableInv, Crash
  PROVE  TableInv'
<1>1. call' = Idle /\ due' = 0 /\ IsCall(Idle) /\ Idle.op = "idle"
  BY NullRowIsRow DEF Crash
<1>2. torn' \in BOOLEAN /\ (~torn' => ~torn)
  BY Zenon DEF Crash, TableInv
<1>3. CASE call.op = "batch"
  <2>1. rows' = call.saved.rows /\ next' = call.saved.next /\ BatchOK
    BY <1>3 DEF Crash, Restore, TableInv
  <2>2. next' + due' = next'
    BY <1>1, <2>1 DEF BatchOK
  <2> QED BY <1>1, <1>2, <2>1, <2>2 DEF BatchOK, TableInv, Distinct, Below, Fits, IsTable, IsSequence, IsRow, OwnedIn, IsCall
<1>4. CASE call.op # "batch"
  <2>1. UNCHANGED <<rows, next>>
    BY <1>4 DEF Crash
  <2>2. ASSUME ~torn', NEW i \in DOMAIN rows PROVE rows[i].slot < next' + due'
    <3>1. ~(due = 1 /\ rows[i].slot >= next)
      BY <2>2, Zenon DEF Crash
    <3>2. rows[i].slot \in Nat /\ next \in Nat /\ due \in {0, 1} /\ rows[i].slot < next + due
      BY <1>2, <2>2 DEF TableInv, IsTable, IsRow, Below
    <3> QED BY <1>1, <2>1, <3>1, <3>2
  <2> QED BY <1>1, <1>2, <2>1, <2>2 DEF TableInv, Distinct, Below, Fits, IsTable, IsSequence, IsRow, OwnedIn, IsCall, BatchOK
<1> QED BY <1>3, <1>4

\* Steps that rewrite a row or two: what the invariant needs of them.
LEMMA RewriteStep ==
  ASSUME TableInv, Ready, Shrunk(rows, rows'), UNCHANGED <<next, due, call, torn>>
  PROVE  TableInv'
BY NullRowIsRow, ShrinkStep DEF Ready

LEMMA ExtenderStep ==
  ASSUME TableInv, NEW i \in DOMAIN rows, NEW j \in DOMAIN rows, NEW days, UseExtender(i, j, days)
  PROVE  TableInv'
<1> DEFINE r == [rows[j] EXCEPT !.expiry = ExtendedDate(rows[j], days)]
           t == Write(rows, r)
           left == rows[i].count - days
           free == FreeRow(rows[i].slot)
           less == [t[i] EXCEPT !.count = left]
<1>1. IsTable(rows) /\ Ready /\ UNCHANGED <<next, due, call, torn>>
  BY DEF TableInv, UseExtender, history
<1>2. rows' = IF left < 0 THEN t ELSE Write(t, IF left = 0 THEN free ELSE less)
  BY DEF UseExtender
<1>3. IsRow(r) /\ r.slot = rows[j].slot /\ r.id = rows[j].id
  BY <1>1 DEF IsTable, IsRow, Columns
<1> HIDE DEF r
<1>4. Shrunk(rows, t)
  BY <1>1, <1>3, WriteShrinks
<1> HIDE DEF t
<1>5. IsTable(t) /\ DOMAIN t = DOMAIN rows /\ t[i].slot = rows[i].slot /\ IsRow(t[i]) /\ IsRow(rows[i])
  BY <1>1, <1>4 DEF Shrunk, IsTable
<1>6. Shrunk(t, Write(t, free))
  BY <1>5, FreeShrinks DEF IsRow
<1>7. IsRow(less) /\ less.slot = t[i].slot /\ less.id = t[i].id
  BY <1>5 DEF IsRow, Columns
<1> HIDE DEF less, left, free
<1>8. Shrunk(t, Write(t, less))
  BY <1>5, <1>7, WriteShrinks
<1>9. Shrunk(rows, rows')
  BY <1>2, <1>4, <1>6, <1>8, ShrunkTwice
<1> QED BY <1>1, <1>9, RewriteStep

LEMMA TimedStep ==
  ASSUME TableInv, NEW i \in DOMAIN rows, UseTimed(i)
  PROVE  TableInv'
<1> DEFINE date == ConvertDuration(rows[i].expiry)
           running == {k \in Extendable(rows[i].id) : rows[k].status = 1}
           j == FirstOf(running)
           longer == [rows[j] EXCEPT !.expiry = Cap(@ + date - now)]
           started == [rows[i] EXCEPT !.status = 1, !.expiry = date]
           free == FreeRow(rows[i].slot)
<1>1. IsTable(rows) /\ Ready /\ UNCHANGED <<next, due, call, torn>> /\ IsRow(rows[i])
  BY DEF TableInv, UseTimed, history, IsTable
<1>2. rows' = IF rows[i].expiry # 0 /\ running # {} THEN Write(Write(rows, longer), free)
                                                    ELSE Write(rows, started)
  BY DEF UseTimed
<1>3. IsRow(started) /\ started.slot = rows[i].slot /\ started.id = rows[i].id
  BY <1>1 DEF IsRow, Columns
<1>4. ASSUME running # {} PROVE Shrunk(rows, Write(Write(rows, longer), free))
  <2>1. j \in DOMAIN rows
    BY <1>1, <1>4, FoundRow DEF Extendable, Of
  <2>2. IsRow(longer) /\ longer.slot = rows[j].slot /\ longer.id = rows[j].id
    BY <1>1, <2>1 DEF IsTable, IsRow, Columns
  <2> HIDE DEF longer, j
  <2>3. Shrunk(rows, Write(rows, longer))
    BY <1>1, <2>1, <2>2, WriteShrinks
  <2>4. IsTable(Write(rows, longer))
    BY <2>3 DEF Shrunk
  <2>5. Shrunk(Write(rows, longer), Write(Write(rows, longer), free))
    BY <1>1, <2>4, FreeShrinks DEF IsRow
  <2> QED BY <2>3, <2>5, ShrunkTwice
<1> HIDE DEF started, longer, free, running
<1>5. Shrunk(rows, Write(rows, started))
  BY <1>1, <1>3, WriteShrinks
<1> QED BY <1>1, <1>2, <1>4, <1>5, RewriteStep

\* Rows of which only the status or the use is set.
SameRows(t, u) ==
  /\ DOMAIN u = DOMAIN t
  /\ \A k \in DOMAIN t : /\ DOMAIN u[k] = Columns /\ u[k].slot = t[k].slot /\ u[k].id = t[k].id
                        /\ u[k].expiry = t[k].expiry

LEMMA SwitchedRows ==
  ASSUME IsTable(rows), NEW i \in DOMAIN rows, SwitchStatus(i)
  PROVE  SameRows(rows, rows')
<1> DEFINE r == rows[i]
           toggles == Kind[r.id] = "effect"
           off == [k \in DOMAIN rows |-> IF k \in Of(r.id) THEN [rows[k] EXCEPT !.status = 0] ELSE rows[k]]
           unset == toggles /\ effect # None /\ effect # r.id /\ Active(effect) # {}
           a == FirstOf(Active(effect))
           taken == IF unset THEN [off EXCEPT ![a].inUse = 0] ELSE off
           inUse == IF ~toggles THEN taken[i].inUse ELSE IF effect = r.id THEN 0 ELSE 1
           on == [taken EXCEPT ![i].status = 1, ![i].inUse = inUse]
<1>1. SameRows(rows, off)
  BY DEF IsTable, IsRow, Columns, SameRows
<1>2. rows' = taken \/ rows' = on
  <2>1. CASE rows[i].status = 1
    BY <2>1 DEF SwitchStatus
  <2>2. CASE rows[i].status # 1
    <3>1. [taken EXCEPT ![i].status = 1, ![i].inUse = IF ~toggles THEN @ ELSE IF effect = r.id THEN 0 ELSE 1] = on
      <4> HIDE DEF taken, toggles
      <4>1. DOMAIN taken = DOMAIN rows
        <5> USE DEF taken
        <5> HIDE DEF off
        <5> QED BY <1>1 DEF SameRows
      <4> QED BY <4>1
    <3> HIDE DEF on
    <3>2. rows' = IF r.status = 1 THEN taken
                  ELSE [taken EXCEPT ![i].status = 1,
                          ![i].inUse = IF ~toggles THEN @ ELSE IF effect = r.id THEN 0 ELSE 1]
      BY Zenon DEF SwitchStatus
    <3> HIDE DEF taken, toggles
    <3> QED BY <2>2, <3>1, <3>2
  <2> QED BY <2>1, <2>2
<1> HIDE DEF off
<1>3. SameRows(rows, taken)
  <2>1. SameRows(rows, [off EXCEPT ![a].inUse = 0])
    <3> HIDE DEF a
    <3> QED BY <1>1 DEF Columns, SameRows
  <2> QED BY <1>1, <2>1
<1> HIDE DEF taken, inUse
<1>4. SameRows(rows, on)
  BY <1>3 DEF Columns, SameRows
<1> HIDE DEF on
<1> QED BY <1>2, <1>3, <1>4

LEMMA EquippedRows ==
  ASSUME IsTable(rows), NEW i \in DOMAIN rows, OnCostumeEquip(i)
  PROVE  SameRows(rows, rows')
<1> DEFINE a == FirstOf(Active(worn))
           off == IF worn # None /\ Active(worn) # {} THEN [rows EXCEPT ![a].inUse = 0] ELSE rows
<1>1. rows' = [rows EXCEPT ![i].inUse = 0] \/ rows' = [off EXCEPT ![i].inUse = 1, ![i].status = 1]
  BY DEF OnCostumeEquip
<1>2. SameRows(rows, [rows EXCEPT ![i].inUse = 0])
  BY DEF IsTable, IsRow, Columns, SameRows
<1>3. SameRows(rows, off)
  <2> HIDE DEF a
  <2> QED BY DEF IsTable, IsRow, Columns, SameRows
<1> HIDE DEF off
<1>4. SameRows(rows, [off EXCEPT ![i].inUse = 1, ![i].status = 1])
  BY <1>3 DEF Columns, SameRows
<1> QED BY <1>1, <1>2, <1>4

LEMMA DressStep ==
  ASSUME TableInv, NEW i \in DOMAIN rows, SwitchStatus(i) \/ OnCostumeEquip(i)
  PROVE  TableInv'
<1>1. IsTable(rows) /\ Ready /\ UNCHANGED <<next, due, call, torn>>
  BY DEF TableInv, SwitchStatus, OnCostumeEquip, history
<1>2. SameRows(rows, rows')
  BY <1>1, SwitchedRows, EquippedRows
<1>3. Shrunk(rows, rows')
  BY <1>1, <1>2, SameItemsShrink DEF SameRows
<1> QED BY <1>1, <1>3, RewriteStep

\* A row is written back with another status, use or date.
LEMMA UpdatedRow ==
  ASSUME TableInv, NEW i \in DOMAIN rows, NEW b,
         OnSwitchInUse(i) \/ SetItemStatus(i, b) \/ SetItemInUse(i, b)
  PROVE  \E r : /\ IsRow(r) /\ r.slot = rows[i].slot /\ r.id = rows[i].id
                /\ rows[i].expiry = 0 => r.expiry = 0
                /\ rows' = Write(rows, r) /\ UNCHANGED <<next, due>>
<1>1. IsRow(rows[i])
  BY DEF TableInv, IsTable
<1> QED
  <2>1. CASE OnSwitchInUse(i)
    <3> DEFINE status == IF \E k \in Of(rows[i].id) : rows[k].status = 1 THEN 0 ELSE 1
               r == [rows[i] EXCEPT !.inUse = 1, !.expiry = ConvertDuration(rows[i].expiry), !.status = status]
    <3>1. UpdateInventoryItem(r)
      <4>1. [rows[i] EXCEPT !.inUse = 1, !.expiry = ConvertDuration(rows[i].expiry),
               !.status = IF \E k \in Of(rows[i].id) : rows[k].status = 1 THEN 0 ELSE 1] = r
        OBVIOUS
      <4> HIDE DEF r, status
      <4> QED BY <2>1, <4>1, Zenon DEF OnSwitchInUse
    <3> HIDE DEF status
    <3>2. IsRow(r) /\ r.slot = rows[i].slot /\ r.id = rows[i].id /\ (rows[i].expiry = 0 => r.expiry = 0)
      BY <1>1 DEF IsRow, Columns, ConvertDuration
    <3> QED BY <3>1, <3>2 DEF UpdateInventoryItem
  <2>2. ASSUME SetItemStatus(i, b)
        PROVE  \E r : /\ IsRow(r) /\ r.slot = rows[i].slot /\ r.id = rows[i].id
                      /\ rows[i].expiry = 0 => r.expiry = 0
                      /\ rows' = Write(rows, r) /\ UNCHANGED <<next, due>>
    <3> DEFINE r == [rows[i] EXCEPT !.status = b]
    <3>1. UpdateInventoryItem(r)
      BY <2>2 DEF SetItemStatus
    <3>2. IsRow(r) /\ r.slot = rows[i].slot /\ r.id = rows[i].id /\ (rows[i].expiry = 0 => r.expiry = 0)
      BY <1>1 DEF IsRow, Columns
    <3> HIDE DEF r
    <3> QED BY <3>1, <3>2 DEF UpdateInventoryItem
  <2>3. ASSUME SetItemInUse(i, b)
        PROVE  \E r : /\ IsRow(r) /\ r.slot = rows[i].slot /\ r.id = rows[i].id
                      /\ rows[i].expiry = 0 => r.expiry = 0
                      /\ rows' = Write(rows, r) /\ UNCHANGED <<next, due>>
    <3> DEFINE r == [rows[i] EXCEPT !.inUse = b]
    <3>1. UpdateInventoryItem(r)
      BY <2>3 DEF SetItemInUse
    <3>2. IsRow(r) /\ r.slot = rows[i].slot /\ r.id = rows[i].id /\ (rows[i].expiry = 0 => r.expiry = 0)
      BY <1>1 DEF IsRow, Columns
    <3> HIDE DEF r
    <3> QED BY <3>1, <3>2 DEF UpdateInventoryItem
  <2> QED BY <2>1, <2>2, <2>3

LEMMA UpdateStep ==
  ASSUME TableInv, NEW i \in DOMAIN rows, NEW b,
         OnSwitchInUse(i) \/ SetItemStatus(i, b) \/ SetItemInUse(i, b)
  PROVE  TableInv'
<1>1. IsTable(rows) /\ IsRow(rows[i]) /\ call = Idle /\ UNCHANGED <<call, torn>>
  BY DEF TableInv, IsTable, OnSwitchInUse, SetItemStatus, SetItemInUse, Ready, Commanded, history
<1>2. PICK r : /\ IsRow(r) /\ r.slot = rows[i].slot /\ r.id = rows[i].id
               /\ rows[i].expiry = 0 => r.expiry = 0
               /\ rows' = Write(rows, r) /\ UNCHANGED <<next, due>>
  BY UpdatedRow
<1>3. Shrunk(rows, rows') /\ UNCHANGED <<next, due>>
  BY <1>1, <1>2, WriteShrinks
<1> QED BY <1>1, <1>3, NullRowIsRow, ShrinkStep

\* Items that leave: by their owner, by a command, by their date.
LEMMA RemovalActions ==
  ASSUME TableInv,
         \/ \E i \in DOMAIN rows : OnDisassemble(i) \/ RemoveItemCommand(i)
         \/ RemoveExpired
  PROVE  TableInv'
<1>1. IsTable(rows) /\ IsCall(call) /\ call.op # "batch" /\ UNCHANGED <<call, torn>>
  BY NullRowIsRow
     DEF TableInv, OnDisassemble, RemoveItemCommand, RemoveExpired, Ready, Commanded, At, history
<1>2. PICK r : IsRow(r) /\ RemoveItem(r)
  <2>1. CASE \E i \in DOMAIN rows : OnDisassemble(i) \/ RemoveItemCommand(i)
    BY <1>1, <2>1 DEF OnDisassemble, RemoveItemCommand, IsTable
  <2>2. CASE RemoveExpired
    <3>1. FirstOf(Expired) \in DOMAIN rows
      BY <1>1, <2>2, FoundRow DEF RemoveExpired, Expired, Owned
    <3> QED BY <1>1, <2>2, <3>1 DEF RemoveExpired, IsTable
  <2> QED BY <2>1, <2>2
<1>3. Shrunk(rows, rows')
  BY <1>1, <1>2, RemoveShrinks
<1>4. UNCHANGED <<next, due>>
  BY <1>2 DEF RemoveItem
<1> QED BY <1>1, <1>3, <1>4, ShrinkStep

\* Items that are used up, and boxes.
LEMMA UseActions ==
  ASSUME TableInv,
         \/ \E i \in DOMAIN rows : \E n \in 1 .. MaxUse : UseCountable(i, n)
         \/ FinishUse \/ CloseBox
  PROVE  TableInv'
<1>1. IsTable(rows) /\ IsCall(call) /\ IsCall(Idle) /\ Idle.op = "idle"
  BY NullRowIsRow DEF TableInv
<1>2. CASE FinishUse
  <2>1. Consume(call.item, 0) /\ call' = Idle /\ torn' = torn
    BY <1>2 DEF FinishUse, history
  <2>2. Shrunk(rows, rows') /\ UNCHANGED <<next, due>>
    BY <1>1, <2>1, ConsumeShrinks DEF IsCall
  <2> QED BY <1>1, <2>1, <2>2, ShrinkStep
<1>3. CASE CloseBox
  <2>1. call' = Idle /\ torn' = torn /\ (Consume(call.item, call.gain) \/ UNCHANGED <<table, dress>>)
    BY <1>3 DEF CloseBox, history
  <2>2. CASE Consume(call.item, call.gain)
    <3>1. Shrunk(rows, rows') /\ UNCHANGED <<next, due>>
      BY <1>1, <2>2, ConsumeShrinks DEF IsCall
    <3> QED BY <1>1, <2>1, <3>1, ShrinkStep
  <2>3. CASE UNCHANGED <<table, dress>>
    BY <1>1, <2>1, <2>3, QuietStep DEF table
  <2> QED BY <2>1, <2>2, <2>3
<1>4. CASE \E i \in DOMAIN rows : \E n \in 1 .. MaxUse : UseCountable(i, n)
  <2>1. PICK i \in DOMAIN rows, n \in 1 .. MaxUse : UseCountable(i, n)
    BY <1>4
  <2>2. torn' = torn /\ call = Idle /\ IsRow(rows[i])
    BY <1>1, <2>1 DEF UseCountable, Ready, history, IsTable
  <2>3. CASE Consume(rows[i], n) /\ UNCHANGED call
    <3>1. Shrunk(rows, rows') /\ UNCHANGED <<next, due>>
      BY <1>1, <2>2, <2>3, ConsumeShrinks
    <3> QED BY <1>1, <2>2, <2>3, <3>1, ShrinkStep
  <2>4. CASE /\ call' = [Idle EXCEPT !.op = "use", !.item = [rows[i] EXCEPT !.count = @ - n], !.count = n]
             /\ UNCHANGED <<table, dress>>
    <3> DEFINE r == [rows[i] EXCEPT !.count = @ - n]
    <3>1. IsRow(r)
      BY <2>2 DEF IsRow, Columns
    <3>2. call' = [Idle EXCEPT !.op = "use", !.item = r, !.count = n]
      BY <2>4
    <3> HIDE DEF r
    <3>3. IsCall(call') /\ call'.op # "batch"
      BY <3>1, <3>2 DEF IsCall, Idle
    <3> QED BY <2>2, <2>4, <3>3, QuietStep DEF table
  <2> QED BY <2>1, <2>3, <2>4 DEF UseCountable
<1> QED BY <1>2, <1>3, <1>4

\* Items that come one by one.
LEMMA AddActions ==
  ASSUME TableInv,
         \/ DeliverGood \/ DrawItem
         \/ \E r \in Reward : \E k \in DOMAIN r.goods : OnRewardSelect(r, k)
         \/ \E p \in Product : \E k \in DOMAIN p.goods : \/ AddItemCommand(p.goods[k])
                                                        \/ GiveItemCommand(p.goods[k])
  PROVE  TableInv'
<1>1. IsCall(call) /\ IsCall(Idle) /\ Idle.op = "idle"
  BY NullRowIsRow DEF TableInv
<1>2. CASE DeliverGood
  <2> DEFINE g == Head(call.goods)
  <2>1. due = 0 /\ torn' = torn /\ call.op = "buy"
    BY <1>2 DEF DeliverGood, At, history
  <2>2. CASE call' = Idle /\ UNCHANGED <<table, dress>>
    BY <1>1, <2>1, <2>2, QuietStep DEF table
  <2>3. CASE /\ ~IsInventoryFull /\ (AddItem(g) \/ AddItemFails(g))
             /\ call' = [call EXCEPT !.goods = Tail(@)]
    <3>1. IsCall(call') /\ call'.op # "batch"
      BY <1>1, <2>1, <2>3 DEF IsCall, Idle
    <3> QED BY <2>1, <2>3, <3>1, AddItemStep
  <2> QED BY <1>2, <2>2, <2>3 DEF DeliverGood
<1>3. CASE DrawItem
  <2>1. due = 0 /\ torn' = torn /\ call.op = "open" /\ ~IsInventoryFull
    BY <1>3 DEF DrawItem, At, history
  <2>2. PICK g \in Drops : /\ AddItem(g) \/ AddItemFails(g)
                          /\ \/ call' = [call EXCEPT !.gain = @ + 1]
                             \/ call' = [call EXCEPT !.count = call.gain]
    BY <1>3, Zenon DEF DrawItem
  <2>3. IsCall(call') /\ call'.op # "batch"
    BY <1>1, <2>1, <2>2 DEF IsCall, Idle
  <2> QED BY <2>1, <2>2, <2>3, AddItemStep
<1>4. CASE \E r \in Reward : \E k \in DOMAIN r.goods : OnRewardSelect(r, k)
  <2>1. PICK r \in Reward : \E k \in DOMAIN r.goods : OnRewardSelect(r, k)
    BY <1>4
  <2>2. PICK k \in DOMAIN r.goods : OnRewardSelect(r, k)
    BY <2>1
  <2>3. due = 0 /\ torn' = torn /\ call = Idle /\ call' = call /\ AddOne(r.goods[k])
    BY <2>2 DEF OnRewardSelect, Ready, history
  <2> QED BY <1>1, <2>3, AddOneStep
<1>5. CASE \E p \in Product : \E k \in DOMAIN p.goods : AddItemCommand(p.goods[k]) \/ GiveItemCommand(p.goods[k])
  <2>1. PICK p \in Product : \E k \in DOMAIN p.goods : AddItemCommand(p.goods[k]) \/ GiveItemCommand(p.goods[k])
    BY <1>5
  <2>2. PICK k \in DOMAIN p.goods : AddItemCommand(p.goods[k]) \/ GiveItemCommand(p.goods[k])
    BY <2>1
  <2>3. due = 0 /\ torn' = torn /\ call = Idle /\ call' = call /\ AddOne(p.goods[k])
    BY <2>2 DEF AddItemCommand, GiveItemCommand, Commanded, history
  <2> QED BY <1>1, <2>3, AddOneStep
<1> QED BY <1>2, <1>3, <1>4, <1>5

\* Slots, the limit, and what a transaction would bring back, in every state.
THEOREM InventoryInvariant == Spec => []TableInv
<1>1. Init => TableInv
  BY TableInit
<1>2. TableInv /\ [Next]_vars => TableInv'
  <2> SUFFICES ASSUME TableInv, [Next]_vars PROVE TableInv'
    OBVIOUS
  <2>1. CASE UNCHANGED vars
    <3>1. UNCHANGED <<rows, next, due, torn, call>>
      BY <2>1 DEF vars
    <3> QED BY <3>1 DEF TableInv, Distinct, Below, Fits, IsTable, IsSequence, IsRow, OwnedIn, IsCall, BatchOK
  <2>2. CASE \/ AdvanceSlot \/ Collect \/ PlaceNew \/ PlaceTears \/ PlaceFree \/ PlaceFails
             \/ StackAll \/ StackFails \/ Commit \/ Crash
    BY <2>2, AdvanceStep, CollectStep, PlaceNewStep, PlaceTearsStep, PlaceFreeStep, FailsStep,
       StackAllStep, CommitStep, CrashStep
  <2>3. CASE \/ \E p \in Product : BuyProduct(p)
             \/ Charge \/ NoRateFound \/ Login \/ ClearNotices \/ Tick \/ EndTick \/ Logout
             \/ \E i \in DOMAIN rows : \E n \in 1 .. MaxUse : OpenItemBox(i, n)
             \/ \E n \in 0 .. MaxPoints : GivePoints(n)
    BY <2>3, QuietActions
  <2>4. CASE \/ \E r \in Reward : GiveReward(r)
             \/ DrawLot \/ BeginBatch \/ GiveNotice \/ UseReward
             \/ \E p \in Product : AddAllItems(p.goods)
    BY <2>4, RewardActions
  <2>5. CASE \E i, j \in DOMAIN rows : \E n \in 1 .. MaxUse : UseExtender(i, j, n)
    BY <2>5, ExtenderStep
  <2>6. CASE \E i \in DOMAIN rows : UseTimed(i) \/ SwitchStatus(i) \/ OnCostumeEquip(i)
    BY <2>6, TimedStep, DressStep
  <2>7. CASE \E i \in DOMAIN rows : \/ OnSwitchInUse(i)
                                    \/ \E b \in {0, 1} : SetItemStatus(i, b) \/ SetItemInUse(i, b)
    <3>1. PICK i \in DOMAIN rows, b \in {0, 1} : OnSwitchInUse(i) \/ SetItemStatus(i, b) \/ SetItemInUse(i, b)
      BY <2>7
    <3> QED BY <3>1, UpdateStep
  <2>8. CASE RemoveExpired \/ \E i \in DOMAIN rows : OnDisassemble(i) \/ RemoveItemCommand(i)
    BY <2>8, RemovalActions
  <2>9. CASE \/ \E i \in DOMAIN rows : \E n \in 1 .. MaxUse : UseCountable(i, n)
             \/ FinishUse \/ CloseBox
    BY <2>9, UseActions
  <2>10. CASE \/ DeliverGood \/ DrawItem
              \/ \E r \in Reward : \E k \in DOMAIN r.goods : OnRewardSelect(r, k)
              \/ \E p \in Product : \E k \in DOMAIN p.goods : \/ AddItemCommand(p.goods[k])
                                                             \/ GiveItemCommand(p.goods[k])
    BY <2>10, AddActions
  <2> QED
    BY <2>1, <2>2, <2>3, <2>4, <2>5, <2>6, <2>7, <2>8, <2>9, <2>10, Zenon DEF Next
<1> QED BY <1>1, <1>2, PTL DEF Spec

\* No mix of purchases, batches, boxes, commands and crashes gives two rows one slot, unless
\* the second statement of AddInventoryItem was lost.
THEOREM SlotsAreUnique == Spec => []SlotsUnique
<1>1. TableInv => SlotsUnique
  BY DEF TableInv, SlotsUnique, Distinct, Below
<1> QED BY <1>1, InventoryInvariant, PTL

\* Whatever path an item takes into the inventory, inventorySlotMax holds.
THEOREM NeverOverfull == Spec => []NotOverfull
<1>1. ASSUME TableInv PROVE NotOverfull
  <2>1. Cardinality(OwnedIn(rows)) \in Nat
    BY <1>1, OwnedFinite DEF TableInv
  <2>2. ~torn => Cardinality(OwnedIn(rows)) <= InventoryMax
    BY <1>1, <2>1, SizeAssumption DEF TableInv, Fits
  <2> QED BY <2>2 DEF NotOverfull, Owned, OwnedIn
<1> QED BY <1>1, InventoryInvariant, PTL

(***************************************************************************)
(* Notices                                                                 *)
(***************************************************************************)

\* While the notices of a user are given, each one stored is a choice, has been given or is
\* still among those to give: they may be deleted together at the end.
Answered(k) == stored[k].select \/ k \in redeemed \/ \E m \in DOMAIN call.notices : call.notices[m] = k

NoticeInv ==
  /\ RewardsKept
  /\ IsSequence(stored) /\ IsSequence(pending) /\ IsSequence(call.notices)
  /\ (call.op = "login" \/ call.notices # <<>>) =>
       call.item = NullRow /\ \A n \in DOMAIN pending : Answered(pending[n])

LEMMA EmptySequence == IsSequence(<<>>) /\ DOMAIN <<>> = {}
<1>1. Len(<<>>) = 0 /\ DOMAIN <<>> = {}
  OBVIOUS
<1> QED BY <1>1 DEF IsSequence

LEMMA NoticeInit == Init => NoticeInv
<1> SUFFICES ASSUME Init PROVE NoticeInv
  OBVIOUS
<1>1. stored = <<>> /\ pending = <<>> /\ call.notices = <<>> /\ call.op = "idle"
  BY DEF Init, Idle
<1>2. IsSequence(<<>>) /\ DOMAIN <<>> = {}
  BY EmptySequence
<1> QED BY <1>1, <1>2 DEF NoticeInv, RewardsKept

\* Steps that leave the notices alone: a handler begins or ends, or keeps what it holds.
Fresh(c) == c.notices = <<>> /\ c.op # "login"
Keeps(c) == c.notices = call.notices /\ c.item = call.item /\ (c.op = call.op \/ c.op # "login")

LEMMA NoticeQuiet ==
  ASSUME NoticeInv, UNCHANGED <<pending, stored, redeemed>>, Fresh(call') \/ Keeps(call')
  PROVE  NoticeInv'
<1>1. RewardsKept' /\ IsSequence(stored') /\ IsSequence(pending')
  BY DEF NoticeInv, RewardsKept, IsSequence
<1>2. CASE Fresh(call')
  BY <1>1, <1>2, EmptySequence DEF NoticeInv, Fresh, IsSequence
<1>3. CASE Keeps(call')
  <2>1. IsSequence(call'.notices)
    BY <1>3 DEF NoticeInv, Keeps
  <2>2. ASSUME call'.op = "login" \/ call'.notices # <<>>
        PROVE  call'.item = NullRow /\ \A n \in DOMAIN pending' : Answered(pending[n])'
    BY <1>3, <2>2 DEF NoticeInv, Keeps, Answered
  <2> QED BY <1>1, <2>1, <2>2 DEF NoticeInv, IsSequence, Answered
<1> QED BY <1>2, <1>3

\* A reward for an absent user is stored with its notice.
LEMMA NoticeStored ==
  ASSUME TableInv, NoticeInv, NEW r \in Reward, GiveReward(r)
  PROVE  NoticeInv'
<1>1. CASE online
  <2>1. call' = Begin(r, Idle) /\ UNCHANGED <<pending, stored, redeemed>>
    BY <1>1 DEF GiveReward
  <2>2. Fresh(call')
    BY <2>1 DEF Fresh, Begin, Idle
  <2> QED BY <2>1, <2>2, NoticeQuiet
<1>2. CASE ~online
  <2> DEFINE k == Len(stored) + 1
             n == Len(pending) + 1
  <2>1. /\ stored' = Append(stored, r) /\ pending' = Append(pending, k)
        /\ call' = Idle /\ redeemed' = redeemed
    BY <1>2 DEF GiveReward
  <2>2. /\ DOMAIN stored' = 1 .. k /\ Len(stored') = k /\ k \in Nat
        /\ \A i \in DOMAIN stored : i \in DOMAIN stored' /\ stored'[i] = stored[i]
        /\ \A i \in DOMAIN stored' : i \in DOMAIN stored \/ i = k
    BY <2>1 DEF NoticeInv, IsSequence
  <2>3. /\ DOMAIN pending' = 1 .. n /\ Len(pending') = n /\ n \in Nat /\ n \in DOMAIN pending'
        /\ pending'[n] = k
        /\ \A i \in DOMAIN pending : i \in DOMAIN pending' /\ pending'[i] = pending[i]
    BY <2>1 DEF NoticeInv, IsSequence
  <2> HIDE DEF k, n
  <2>4. RewardsKept'
    BY <2>1, <2>2, <2>3 DEF NoticeInv, RewardsKept
  <2>5. IsSequence(stored') /\ IsSequence(pending')
    BY <2>2, <2>3 DEF IsSequence
  <2>6. call'.notices = <<>> /\ call'.op = "idle"
    BY <2>1 DEF Idle
  <2> QED BY <2>4, <2>5, <2>6, EmptySequence DEF NoticeInv, IsSequence
<1> QED BY <1>1, <1>2

\* The first notice is passed over or given, the rest are those to give.
LEMMA NoticeAnswered ==
  ASSUME NoticeInv, UNCHANGED <<pending, stored>>, call.notices # <<>>,
         call'.notices = Tail(call.notices), call'.item = call.item, redeemed \subseteq redeemed',
         stored[Head(call.notices)].select \/ Head(call.notices) \in redeemed'
  PROVE  NoticeInv'
<1>1. IsSequence(stored) /\ IsSequence(pending) /\ IsSequence(call.notices) /\ call.item = NullRow
  BY DEF NoticeInv
<1>2. Len(call.notices) \in Nat /\ DOMAIN call.notices = 1 .. Len(call.notices) /\ Len(call.notices) # 0
  BY <1>1 DEF IsSequence
<1>3. /\ Len(call'.notices) = Len(call.notices) - 1 /\ DOMAIN call'.notices = 1 .. (Len(call.notices) - 1)
      /\ Head(call.notices) = call.notices[1]
      /\ \A m \in DOMAIN call.notices : m # 1 =>
           m - 1 \in DOMAIN call'.notices /\ call'.notices[m - 1] = call.notices[m]
  <2>1. /\ Len(call'.notices) = Len(call.notices) - 1
        /\ DOMAIN call'.notices = 1 .. (Len(call.notices) - 1)
        /\ Head(call.notices) = call.notices[1]
    BY <1>2
  <2>2. \A m \in DOMAIN call'.notices : call'.notices[m] = call.notices[m + 1]
    BY <1>2, <2>1
  <2>3. \A m \in DOMAIN call.notices : m # 1 => m - 1 \in DOMAIN call'.notices /\ (m - 1) + 1 = m
    BY <1>2, <2>1
  <2> QED BY <2>1, <2>2, <2>3
<1>4. IsSequence(call'.notices)
  BY <1>2, <1>3 DEF IsSequence
<1>5. RewardsKept'
  BY DEF NoticeInv, RewardsKept
<1>6. ASSUME NEW n \in DOMAIN pending
      PROVE  \/ stored'[pending'[n]].select \/ pending'[n] \in redeemed'
             \/ \E m \in DOMAIN call'.notices : call'.notices[m] = pending'[n]
  <2>1. Answered(pending[n])
    BY <1>6 DEF NoticeInv
  <2> QED BY <1>3, <2>1 DEF Answered
<1> QED BY <1>1, <1>4, <1>5, <1>6 DEF NoticeInv, Answered, IsSequence

LEMMA NoticeCommit ==
  ASSUME TableInv, NoticeInv, Commit
  PROVE  NoticeInv'
<1>1. IsCall(call) /\ call' = Resumed /\ UNCHANGED <<pending, stored>>
  BY DEF TableInv, Commit
<1>2. CASE call.notices # <<>>
  <2>1. call.item = NullRow /\ redeemed' = redeemed \cup {Head(call.notices)}
    BY <1>2 DEF NoticeInv, Commit
  <2>2. call'.notices = Tail(call.notices) /\ call'.item = call.item
    BY <1>1, <1>2, <2>1 DEF Resumed, IsCall, Idle
  <2> QED BY <1>1, <1>2, <2>1, <2>2, NoticeAnswered
<1>3. CASE call.notices = <<>>
  <2>1. redeemed' = redeemed
    BY <1>3 DEF Commit
  <2>2. Fresh(call')
    BY <1>1, <1>3 DEF Resumed, IsCall, Idle, Fresh
  <2> QED BY <1>1, <2>1, <2>2, NoticeQuiet
<1> QED BY <1>2, <1>3

\* Login reads the notices, gives them one by one, and deletes them all.
LEMMA NoticeLogin ==
  ASSUME TableInv, NoticeInv, Login \/ GiveNotice \/ ClearNotices
  PROVE  NoticeInv'
<1>1. CASE Login
  <2>1. call' = [Idle EXCEPT !.op = "login", !.notices = pending] /\ UNCHANGED <<pending, stored, redeemed>>
    BY <1>1 DEF Login, history
  <2>2. call'.notices = pending /\ call'.item = NullRow
    BY <2>1 DEF Idle
  <2> QED BY <2>1, <2>2 DEF NoticeInv, RewardsKept, IsSequence, Answered
<1>2. CASE GiveNotice
  <2>1. /\ UNCHANGED <<pending, stored, redeemed>> /\ call.op = "login" /\ call.notices # <<>>
        /\ IsCall(call)
    BY <1>2 DEF GiveNotice, At, history, TableInv
  <2>2. CASE stored[Head(call.notices)].select
    <3>1. call' = [call EXCEPT !.notices = Tail(@)]
      BY <1>2, <2>2 DEF GiveNotice
    <3>2. call'.notices = Tail(call.notices) /\ call'.item = call.item
      BY <2>1, <3>1 DEF IsCall, Idle
    <3> QED BY <2>1, <2>2, <3>2, NoticeAnswered
  <2>3. CASE ~stored[Head(call.notices)].select
    <3>1. PICK r : call' = Begin(r, call)
      BY <1>2, <2>3 DEF GiveNotice
    <3>2. Keeps(call')
      BY <2>1, <3>1 DEF Keeps, Begin, IsCall, Idle
    <3> QED BY <2>1, <3>2, NoticeQuiet
  <2> QED BY <2>2, <2>3
<1>3. CASE ClearNotices
  <2>1. /\ call.op = "login" /\ call.notices = <<>> /\ pending' = <<>> /\ call' = Idle
        /\ UNCHANGED <<stored, redeemed>>
    BY <1>3 DEF ClearNotices, At, history
  <2>2. DOMAIN call.notices = {}
    BY <2>1
  <2>3. \A n \in DOMAIN pending : stored[pending[n]].select \/ pending[n] \in redeemed
    BY <2>1, <2>2 DEF NoticeInv, Answered
  <2>4. RewardsKept'
    BY <2>1, <2>3 DEF NoticeInv, RewardsKept
  <2>5. call'.notices = <<>> /\ call'.op = "idle"
    BY <2>1 DEF Idle
  <2> QED BY <2>1, <2>4, <2>5, EmptySequence DEF NoticeInv, IsSequence
<1> QED BY <1>1, <1>2, <1>3

\* What follows the last item of a batch, up to the commit.
Places == PlaceNew \/ PlaceTears \/ PlaceFree \/ PlaceFails \/ StackAll \/ StackFails

\* All other handlers keep or drop what they hold.
LEMMA OtherNotices ==
  ASSUME TableInv, NoticeInv,
         \/ \E p \in Product : BuyProduct(p) \/ AddAllItems(p.goods)
         \/ AdvanceSlot \/ DeliverGood \/ Charge \/ DrawLot \/ BeginBatch \/ Collect \/ Places
         \/ \E r \in Reward : \E k \in DOMAIN r.goods : OnRewardSelect(r, k)
         \/ \E i \in DOMAIN rows : \E n \in 1 .. MaxUse : UseCountable(i, n) \/ OpenItemBox(i, n)
         \/ UseReward \/ FinishUse \/ DrawItem \/ CloseBox \/ NoRateFound
         \/ \E i, j \in DOMAIN rows : \E n \in 1 .. MaxUse : UseExtender(i, j, n)
         \/ \E i \in DOMAIN rows : \/ UseTimed(i) \/ SwitchStatus(i) \/ OnCostumeEquip(i)
                                   \/ OnSwitchInUse(i) \/ OnDisassemble(i)
         \/ \E p \in Product : \E k \in DOMAIN p.goods : AddItemCommand(p.goods[k]) \/ GiveItemCommand(p.goods[k])
         \/ \E n \in 0 .. MaxPoints : GivePoints(n)
         \/ \E i \in DOMAIN rows : \/ RemoveItemCommand(i)
                                   \/ \E b \in {0, 1} : SetItemStatus(i, b) \/ SetItemInUse(i, b)
         \/ Tick \/ RemoveExpired \/ EndTick \/ Logout \/ Crash
  PROVE  NoticeInv'
<1>1. UNCHANGED <<pending, stored, redeemed>>
  <2>1. CASE \/ AdvanceSlot \/ DeliverGood \/ Charge \/ DrawLot \/ BeginBatch \/ Collect \/ Places
             \/ UseReward \/ FinishUse \/ DrawItem \/ CloseBox \/ NoRateFound
             \/ Tick \/ RemoveExpired \/ EndTick \/ Logout \/ Crash
    BY <2>1
       DEF AdvanceSlot, DeliverGood, Charge, DrawLot, BeginBatch, Collect, Places, PlaceNew,
           PlaceTears, PlaceFree, PlaceFails, StackAll, StackFails,
           UseReward, FinishUse, DrawItem, CloseBox, NoRateFound, Tick, RemoveExpired, EndTick, Logout,
           Crash, history
  <2>2. CASE ~(\/ AdvanceSlot \/ DeliverGood \/ Charge \/ DrawLot \/ BeginBatch \/ Collect \/ Places
               \/ UseReward \/ FinishUse \/ DrawItem \/ CloseBox \/ NoRateFound
               \/ Tick \/ RemoveExpired \/ EndTick \/ Logout \/ Crash)
    BY <2>2
       DEF BuyProduct, AddAllItems, OnRewardSelect, UseCountable, OpenItemBox, UseExtender, UseTimed,
           SwitchStatus, OnCostumeEquip, OnSwitchInUse, OnDisassemble, AddItemCommand, GiveItemCommand,
           GivePoints, RemoveItemCommand, SetItemStatus, SetItemInUse, history
  <2> QED BY <2>1, <2>2
<1>2. IsCall(call) /\ Fresh(Idle) /\ Keeps(call)
  BY DEF TableInv, Fresh, Keeps, Idle
<1>3. CASE \/ \E p \in Product : BuyProduct(p) \/ AddAllItems(p.goods)
           \/ \E i \in DOMAIN rows : \E n \in 1 .. MaxUse : OpenItemBox(i, n)
           \/ Tick
  <2>1. Fresh(call')
    <3>1. \/ \E p \in Product : call' = [Idle EXCEPT !.op = "buy", !.goods = p.goods, !.price = p.price, !.gain = p.bonus]
          \/ \E b : call' = Begin(b, Idle)
          \/ \E x, n : call' = [Idle EXCEPT !.op = "open", !.item = x, !.count = n]
          \/ call' = [Idle EXCEPT !.op = "tick"]
      BY <1>3, Zenon DEF BuyProduct, AddAllItems, OpenItemBox, Tick
    <3>2. \A p : Fresh([Idle EXCEPT !.op = "buy", !.goods = p.goods, !.price = p.price, !.gain = p.bonus])
      BY DEF Idle, Fresh
    <3>3. \A b : Fresh(Begin(b, Idle))
      BY DEF Begin, Idle, Fresh
    <3>4. Fresh([Idle EXCEPT !.op = "tick"])
      BY DEF Idle, Fresh
    <3>5. CASE \E p \in Product : call' = [Idle EXCEPT !.op = "buy", !.goods = p.goods, !.price = p.price, !.gain = p.bonus]
      BY <3>2, <3>5
    <3>6. CASE \E b : call' = Begin(b, Idle)
      BY <3>3, <3>6
    <3>7. CASE \E x, n : call' = [Idle EXCEPT !.op = "open", !.item = x, !.count = n]
      <4>1. PICK x, n : call' = [Idle EXCEPT !.op = "open", !.item = x, !.count = n]
        BY <3>7
      <4>2. call'.notices = Idle.notices /\ call'.op = "open"
        BY <4>1 DEF Idle
      <4> QED BY <4>2 DEF Idle, Fresh
    <3>8. CASE call' = [Idle EXCEPT !.op = "tick"]
      BY <3>4, <3>8
    <3> QED BY <3>1, <3>5, <3>6, <3>7, <3>8
  <2> QED BY <1>1, <2>1, NoticeQuiet
<1>4. CASE Charge \/ FinishUse \/ CloseBox \/ NoRateFound \/ EndTick \/ Crash
  <2>1. call' = Idle
    BY <1>4 DEF Charge, FinishUse, CloseBox, NoRateFound, EndTick, Crash
  <2> QED BY <1>1, <1>2, <2>1, NoticeQuiet
<1>5. CASE DrawLot \/ BeginBatch \/ Places \/ UseReward \/ DeliverGood
  <2>1. Keeps(call') \/ call' = Idle
    BY <1>2, <1>5 DEF DrawLot, BeginBatch, Places, PlaceNew, PlaceTears, PlaceFree, PlaceFails, StackAll,
                      StackFails, Placing, Given, UseReward, DeliverGood, Begin, Keeps, IsCall, Idle, At
  <2> QED BY <1>1, <1>2, <2>1, NoticeQuiet
<1>6. CASE DrawItem
  <2>1. \/ call' = [call EXCEPT !.gain = @ + 1]
        \/ call' = [call EXCEPT !.count = call.gain]
    BY <1>6, Zenon DEF DrawItem
  <2>2. Keeps(call')
    BY <1>2, <2>1 DEF Keeps, IsCall, Idle
  <2> QED BY <1>1, <2>2, NoticeQuiet
<1>7. CASE Collect
  <2> DEFINE g == Head(call.goods)
             rest == [call EXCEPT !.goods = Tail(@)]
             update == Append(rest.update, [slot |-> FirstRow(g.id).slot,
                                           count |-> FirstRow(g.id).count + g.count])
             insert == Append(rest.insert, NewRow(g, TRUE))
  <2>1. Keeps(rest) /\ DOMAIN rest = DOMAIN Idle
    BY <1>2 DEF Keeps, IsCall, Idle
  <2>2. \/ call' = [call EXCEPT !.goods = <<>>]
        \/ call' = [call EXCEPT !.goods = <<>>, !.insert = <<>>, !.update = <<>>]
        \/ call' = rest
        \/ call' = [rest EXCEPT !.update = update]
        \/ call' = [rest EXCEPT !.insert = insert]
    BY <1>7 DEF Collect, ExtendGood, StackGood, InsertGood
  <2> HIDE DEF rest, update, insert
  <2>3. Keeps(call')
    BY <1>2, <2>1, <2>2 DEF Keeps, IsCall, Idle
  <2> QED BY <1>1, <2>3, NoticeQuiet
<1>8. CASE \E i \in DOMAIN rows : \E n \in 1 .. MaxUse : UseCountable(i, n)
  <2>1. Fresh(call') \/ call' = call
    BY <1>8 DEF UseCountable, Idle, Fresh
  <2> QED BY <1>1, <1>2, <2>1, NoticeQuiet
<1>9. CASE call' = call
  BY <1>1, <1>2, <1>9, NoticeQuiet
<1>10. ASSUME ~Tick, ~Charge, ~FinishUse, ~CloseBox, ~NoRateFound, ~EndTick, ~Crash, ~DrawItem, ~Collect,
              ~DrawLot, ~BeginBatch, ~Places, ~UseReward, ~DeliverGood,
              ~\E p \in Product : BuyProduct(p) \/ AddAllItems(p.goods),
              ~\E i \in DOMAIN rows : \E n \in 1 .. MaxUse : UseCountable(i, n) \/ OpenItemBox(i, n)
       PROVE  call' = call
  BY <1>10
     DEF AdvanceSlot, OnRewardSelect, UseExtender, UseTimed, SwitchStatus, OnCostumeEquip, OnSwitchInUse,
         OnDisassemble, AddItemCommand, GiveItemCommand, GivePoints, RemoveItemCommand, SetItemStatus,
         SetItemInUse, RemoveExpired, Logout
<1> QED BY <1>3, <1>4, <1>5, <1>6, <1>7, <1>8, <1>9, <1>10

\* A notice is deleted only when its reward was given or offers a choice, wherever the
\* process dies on the way.
THEOREM RewardsAreKept == Spec => []RewardsKept
<1>1. Init => NoticeInv
  BY NoticeInit
<1>2. NoticeInv /\ TableInv /\ [Next]_vars => NoticeInv'
  <2> SUFFICES ASSUME NoticeInv, TableInv, [Next]_vars PROVE NoticeInv'
    OBVIOUS
  <2>1. CASE UNCHANGED vars
    <3>1. UNCHANGED <<pending, stored, redeemed, call>>
      BY <2>1 DEF vars
    <3>2. Keeps(call')
      BY <3>1 DEF Keeps
    <3> QED BY <3>1, <3>2, NoticeQuiet
  <2>2. CASE Next
    <3>1. ASSUME NEW r \in Reward, GiveReward(r) PROVE NoticeInv'
      BY <3>1, NoticeStored
    <3>2. CASE Commit
      BY <3>2, NoticeCommit
    <3>3. CASE Login \/ GiveNotice \/ ClearNotices
      BY <3>3, NoticeLogin
    <3>4. CASE ~(\E r \in Reward : GiveReward(r)) /\ ~Commit /\ ~(Login \/ GiveNotice \/ ClearNotices)
      BY <2>2, <3>4, OtherNotices, Zenon DEF Next, Places
    <3> QED BY <3>1, <3>2, <3>3, <3>4
  <2> QED BY <2>1, <2>2
<1>3. NoticeInv => RewardsKept
  BY DEF NoticeInv
<1> QED BY <1>1, <1>2, <1>3, InventoryInvariant, PTL DEF Spec

(***************************************************************************)
(* Items owned for good                                                    *)
(***************************************************************************)

Kept(t, u) ==
  \A i \in DOMAIN t : Permanent(t[i]) => i \in DOMAIN u /\ Permanent(u[i]) /\ u[i].id = t[i].id

\* Every item stays where it is, and what is permanent stays so.
Steady(t, u) ==
  /\ Kept(t, u)
  /\ \A i \in DOMAIN t : t[i].id # None => i \in DOMAIN u /\ u[i].id = t[i].id /\ u[i].slot = t[i].slot

LEMMA KeptTwice ==
  ASSUME NEW t, NEW u, NEW v, Kept(t, u), Kept(u, v)
  PROVE  Kept(t, v)
BY DEF Kept

LEMMA SteadyItself ==
  ASSUME NEW t
  PROVE  Steady(t, t)
BY DEF Steady, Kept

LEMMA WriteKeeps ==
  ASSUME NEW t, Distinct(t), NEW i \in DOMAIN t, NEW r, r.slot = t[i].slot,
         Permanent(t[i]) => Permanent(r) /\ r.id = t[i].id
  PROVE  Kept(t, Write(t, r))
<1> DEFINE u == Write(t, r)
<1>1. DOMAIN u = DOMAIN t /\ \A k \in DOMAIN t : u[k] = IF t[k].slot = r.slot THEN r ELSE t[k]
  BY DEF Write
<1> HIDE DEF u
<1>2. \A k \in DOMAIN t : u[k] = IF k = i THEN r ELSE t[k]
  BY <1>1 DEF Distinct
<1>3. Kept(t, u)
  BY <1>1, <1>2 DEF Kept
<1> QED BY <1>3 DEF u

\* A row that keeps its item is written back.
LEMMA WriteSteady ==
  ASSUME NEW t, Distinct(t), NEW i \in DOMAIN t, NEW r, r.slot = t[i].slot, r.id = t[i].id,
         Permanent(t[i]) => r.expiry = 0
  PROVE  Steady(t, Write(t, r))
<1>1. Permanent(t[i]) => Permanent(r) /\ r.id = t[i].id
  BY DEF Permanent
<1>2. Kept(t, Write(t, r))
  BY <1>1, WriteKeeps
<1>3. /\ DOMAIN Write(t, r) = DOMAIN t
      /\ \A k \in DOMAIN t : Write(t, r)[k].id = t[k].id /\ Write(t, r)[k].slot = t[k].slot
  BY DEF Write, Distinct
<1> QED BY <1>2, <1>3 DEF Steady

LEMMA SameSteady ==
  ASSUME NEW t, NEW u, DOMAIN u = DOMAIN t,
         \A i \in DOMAIN t : u[i].slot = t[i].slot /\ u[i].id = t[i].id /\ u[i].expiry = t[i].expiry
  PROVE  Steady(t, u)
BY DEF Steady, Kept, Permanent

\* A new row overwrites no item.
LEMMA PlacedSteady ==
  ASSUME IsTable(rows), Distinct(rows), NEW r, DOMAIN r = Columns, Placed(r)
  PROVE  Steady(rows, rows')
<1>1. CASE Free # {} /\ rows' = Write(rows, [r EXCEPT !.slot = rows[FirstOf(Free)].slot])
  <2> DEFINE f == FirstOf(Free)
             new == [r EXCEPT !.slot = rows[f].slot]
  <2>1. f \in DOMAIN rows /\ rows[f].id = None
    <3>1. Free \subseteq Nat
      BY IndexesAreNat DEF Free
    <3>2. f \in Free
      BY <1>1, <3>1, FirstOfMember
    <3> QED BY <3>2 DEF Free, Owned
  <2>2. rows' = Write(rows, new) /\ new.slot = rows[f].slot
    BY <1>1 DEF Columns
  <2> HIDE DEF new, f
  <2>3. DOMAIN rows' = DOMAIN rows /\ \A k \in DOMAIN rows : rows'[k] = IF rows[k].slot = new.slot THEN new ELSE rows[k]
    BY <2>2 DEF Write
  <2>4. \A k \in DOMAIN rows : rows[k].id # None => rows'[k] = rows[k]
    BY <2>1, <2>2, <2>3 DEF Distinct
  <2> QED BY <2>3, <2>4 DEF Steady, Kept, Permanent
<1>2. CASE rows' = Append(rows, [r EXCEPT !.slot = next])
  <2> DEFINE new == [r EXCEPT !.slot = next]
  <2>1. rows' = Append(rows, new)
    BY <1>2
  <2> HIDE DEF new
  <2>2. \A k \in DOMAIN rows : k \in DOMAIN rows' /\ rows'[k] = rows[k]
    BY <2>1 DEF IsTable, IsSequence
  <2> QED BY <2>2 DEF Steady, Kept
<1> QED BY <1>1, <1>2 DEF Placed

LEMMA ExtendSteady ==
  ASSUME IsTable(rows), Distinct(rows), NEW g, Extends(g),
         ExtendItem(rows[FirstOf(Extendable(g.id))], g.days)
  PROVE  Steady(rows, rows')
<1> DEFINE i == FirstOf(Extendable(g.id))
           r == [rows[i] EXCEPT !.expiry = ExtendedDate(rows[i], g.days)]
<1>1. i \in DOMAIN rows /\ rows[i].expiry # 0
  BY FoundRow DEF Extends, Extendable, Of
<1>2. r.slot = rows[i].slot /\ r.id = rows[i].id
  BY <1>1 DEF IsTable, IsRow, Columns
<1>3. rows' = Write(rows, r)
  BY DEF ExtendItem, UpdateInventoryItem
<1> HIDE DEF i, r
<1> QED BY <1>1, <1>2, <1>3, WriteSteady DEF Permanent

LEMMA StackSteady ==
  ASSUME IsTable(rows), Distinct(rows), NEW g, Stacks(g),
         UpdateInventoryItem([FirstRow(g.id) EXCEPT !.count = @ + g.count])
  PROVE  Steady(rows, rows')
<1> DEFINE i == FirstOf(Of(g.id))
           r == [FirstRow(g.id) EXCEPT !.count = @ + g.count]
<1>1. i \in DOMAIN rows
  BY FoundRow DEF Stacks, Of
<1>2. r.slot = rows[i].slot /\ r.id = rows[i].id /\ r.expiry = rows[i].expiry
  BY <1>1 DEF IsTable, IsRow, Columns, FirstRow
<1>3. rows' = Write(rows, r)
  BY DEF UpdateInventoryItem
<1> HIDE DEF i, r
<1> QED BY <1>1, <1>2, <1>3, WriteSteady DEF Permanent

\* Adding an item leaves the items there are.
LEMMA AddItemSteady ==
  ASSUME TableInv, ~torn, NEW g, AddItem(g) \/ AddItemFails(g)
  PROVE  Steady(rows, rows')
<1>1. IsTable(rows) /\ Distinct(rows)
  BY DEF TableInv
<1>2. CASE AddItemFails(g)
  <2>1. rows' = rows
    BY <1>2 DEF AddItemFails, table
  <2> QED BY <2>1, SteadyItself
<1>3. CASE Extends(g) /\ ExtendItem(rows[FirstOf(Extendable(g.id))], g.days)
  BY <1>1, <1>3, ExtendSteady
<1>4. CASE Stacks(g) /\ UpdateInventoryItem([FirstRow(g.id) EXCEPT !.count = @ + g.count])
  BY <1>1, <1>4, StackSteady
<1>5. CASE AddInventoryItem(NewRow(g, FALSE))
  BY <1>1, <1>5, NewRowColumns, PlacedSteady DEF AddInventoryItem, Placed
<1> QED BY <1>2, <1>3, <1>4, <1>5 DEF AddItem

LEMMA AddOneSteady ==
  ASSUME TableInv, ~torn, NEW g, AddOne(g)
  PROVE  Steady(rows, rows')
<1>1. CASE UNCHANGED table
  BY <1>1, SteadyItself DEF table
<1>2. CASE AddItem(g) \/ AddItemFails(g)
  BY <1>2, AddItemSteady
<1> QED BY <1>1, <1>2 DEF AddOne

\* A removal frees one row: that of the row removed.
LEMMA RemoveKeepsOthers ==
  ASSUME IsTable(rows), Distinct(rows), NEW i \in DOMAIN rows, NEW r, r.slot = rows[i].slot, RemoveItem(r)
  PROVE  \A k \in DOMAIN rows : k # i /\ Permanent(rows[k]) =>
            k \in DOMAIN rows' /\ Permanent(rows'[k]) /\ rows'[k].id = rows[k].id
<1>1. CASE r.id \in Fixed
  BY <1>1 DEF RemoveItem
<1>2. CASE r.id \notin Fixed
  <2> DEFINE heirs == {k \in Of(r.id) : rows[k].slot # r.slot /\ rows[k].inUse = 1}
             heir == [rows[FirstOf(heirs)] EXCEPT !.status = 1]
             promoted == IF r.status = 1 /\ r.inUse = 1 /\ heirs # {} THEN Write(rows, heir) ELSE rows
             free == FreeRow(r.slot)
  <2>1. rows' = Write(promoted, free)
    BY <1>2 DEF RemoveItem, Remove
  <2>2. ASSUME heirs # {} PROVE Steady(rows, Write(rows, heir)) /\ Shrunk(rows, Write(rows, heir))
    <3>1. heirs \subseteq DOMAIN rows
      BY DEF Of
    <3>2. FirstOf(heirs) \in DOMAIN rows
      BY <2>2, <3>1, FoundRow
    <3> DEFINE h == FirstOf(heirs)
    <3> HIDE DEF heirs
    <3>3. IsRow(heir) /\ heir.slot = rows[h].slot /\ heir.id = rows[h].id /\ heir.expiry = rows[h].expiry
      BY <3>2 DEF IsTable, IsRow, Columns
    <3> HIDE DEF heir, h
    <3>4. Shrunk(rows, Write(rows, heir))
      BY <3>2, <3>3, WriteShrinks DEF h
    <3>5. Steady(rows, Write(rows, heir))
      BY <3>2, <3>3, WriteSteady DEF Permanent, h
    <3> QED BY <3>4, <3>5
  <2>3. Steady(rows, promoted) /\ Shrunk(rows, promoted)
    BY <2>2, SteadyItself, ShrunkItself
  <2> HIDE DEF promoted
  <2>4. free.slot = r.slot
    BY DEF FreeRow, Row
  <2> HIDE DEF free
  <2>5. /\ DOMAIN rows' = DOMAIN rows
        /\ \A k \in DOMAIN rows : rows'[k] = IF promoted[k].slot = r.slot THEN free ELSE promoted[k]
    BY <2>1, <2>3, <2>4 DEF Write, Shrunk
  <2>6. \A k \in DOMAIN rows : k # i => rows'[k] = promoted[k]
    BY <2>3, <2>5 DEF Shrunk, Distinct
  <2> QED BY <2>3, <2>5, <2>6 DEF Steady, Kept
<1> QED BY <1>1, <1>2

LEMMA RemoveKeeps ==
  ASSUME IsTable(rows), Distinct(rows), NEW i \in DOMAIN rows, ~Permanent(rows[i]),
         NEW r, r.slot = rows[i].slot, RemoveItem(r)
  PROVE  Kept(rows, rows')
BY RemoveKeepsOthers DEF Kept

\* What is used up is countable, not owned for good.
LEMMA ConsumeKeeps ==
  ASSUME IsTable(rows), Distinct(rows), NEW i \in DOMAIN rows, ~Permanent(rows[i]),
         NEW r, r.slot = rows[i].slot, NEW n, Consume(r, n)
  PROVE  Kept(rows, rows')
<1>1. CASE r.count = n
  BY <1>1, RemoveKeeps DEF Consume
<1>2. CASE r.count # n
  <2>1. rows' = [k \in DOMAIN rows |-> IF rows[k].slot = r.slot THEN [rows[k] EXCEPT !.count = r.count - n]
                                                                ELSE rows[k]]
    BY <1>2 DEF Consume, SetCount
  <2>2. DOMAIN rows' = DOMAIN rows
    BY <2>1
  <2>3. \A k \in DOMAIN rows : rows'[k].slot = rows[k].slot /\ rows'[k].id = rows[k].id /\ rows'[k].expiry = rows[k].expiry
    BY <2>1 DEF IsTable, IsRow, Columns
  <2> QED BY <2>2, <2>3, SameSteady DEF Steady
<1> QED BY <1>1, <1>2

\* A handler that uses up items or opens boxes holds a copy of a row whose item is still in
\* its place, and a batch has not touched what is owned for good.
Held(c) == c.op \in {"use", "open"} \/ c.item # NullRow

HeldInv ==
  /\ Held(call) =>
       /\ call.item.id # None /\ Countable(call.item.id)
       /\ ~torn => \E i \in DOMAIN rows : rows[i].slot = call.item.slot /\ rows[i].id = call.item.id
  /\ call.op = "tick" => ~Held(call)
  /\ call.op = "batch" /\ ~torn => Kept(call.saved.rows, rows)
  /\ call.op = "batch" /\ Held(call) /\ ~torn =>
       \E i \in DOMAIN call.saved.rows : /\ call.saved.rows[i].slot = call.item.slot
                                         /\ call.saved.rows[i].id = call.item.id

\* What a step may do to the handler: drop the copy, or keep it with all items in place.
Dropped(c) == ~Held(c)
Carried(c) == c.item = call.item /\ (Held(c) => Held(call)) /\ (c.op = "tick" => call.op = "tick")

\* The conclusion of every lemma below.
Safe ==
  ~torn => \A i \in DOMAIN Durable : Permanent(Durable[i]) =>
    \/ i \in DOMAIN Durable' /\ Permanent(Durable[i])' /\ Durable'[i].id = Durable[i].id
    \/ OnDisassemble(i) \/ RemoveItemCommand(i)

LEMMA SafeOfKept ==
  ASSUME ~torn => Kept(Durable, Durable')
  PROVE  Safe
BY DEF Safe, Kept, Permanent

LEMMA HeldInit == Init => HeldInv
<1>1. Init => call.op = "idle" /\ call.item = NullRow
  BY DEF Init, Idle
<1> QED BY <1>1 DEF HeldInv, Held

\* A step outside a batch, or in the middle of one.
LEMMA SteadyStep ==
  ASSUME HeldInv, torn => torn', Dropped(call') \/ Carried(call'),
         ~torn => Steady(rows, rows'),
         call'.op = "batch" <=> call.op = "batch", call.op = "batch" => call'.saved = call.saved
  PROVE  HeldInv' /\ Safe
<1>1. ASSUME Held(call'), ~torn'
      PROVE  /\ call'.item.id # None /\ Countable(call'.item.id)
             /\ \E i \in DOMAIN rows' : rows'[i].slot = call'.item.slot /\ rows'[i].id = call'.item.id
  BY <1>1 DEF HeldInv, Dropped, Carried, Steady
<1>2. Held(call') => call'.item.id # None /\ Countable(call'.item.id)
  BY DEF HeldInv, Dropped, Carried
<1>3. call'.op = "batch" /\ ~torn' => Kept(call'.saved.rows, rows')
  BY KeptTwice DEF HeldInv, Steady
<1>4. call'.op = "tick" => ~Held(call')
  BY DEF HeldInv, Dropped, Carried
<1>7. ASSUME call'.op = "batch", Held(call'), ~torn'
      PROVE  \E i \in DOMAIN call'.saved.rows : /\ call'.saved.rows[i].slot = call'.item.slot
                                                /\ call'.saved.rows[i].id = call'.item.id
  BY <1>7 DEF HeldInv, Dropped, Carried
<1>5. HeldInv'
  BY <1>1, <1>2, <1>3, <1>4, <1>7 DEF HeldInv, Held, Kept, Countable, Permanent
<1>6. ~torn => Kept(Durable, Durable')
  <2>1. CASE call.op = "batch"
    BY <2>1, SteadyItself DEF Steady, Durable
  <2>2. CASE call.op # "batch"
    BY <2>2 DEF Steady, Durable
  <2> QED BY <2>1, <2>2
<1> QED BY <1>5, <1>6, SafeOfKept

\* The step that ends a handler may also take an item that is not owned for good.
LEMMA EndStep ==
  ASSUME HeldInv, Dropped(call'), call'.op # "batch", call.op # "batch", ~torn => Kept(rows, rows')
  PROVE  HeldInv' /\ Safe
<1>1. HeldInv'
  BY DEF HeldInv, Held, Dropped
<1>2. ~torn => Kept(Durable, Durable')
  BY DEF Durable
<1> QED BY <1>1, <1>2, SafeOfKept

\* A batch begins.
LEMMA BatchBegins ==
  ASSUME HeldInv, UNCHANGED <<rows, torn>>, Dropped(call') \/ Carried(call'),
         call.op # "batch", call'.op = "batch", call'.saved.rows = rows
  PROVE  HeldInv' /\ Safe
<1>1. Kept(rows, rows)
  BY DEF Kept
<1>2. HeldInv'
  BY <1>1 DEF HeldInv, Held, Dropped, Carried, Kept, Countable, Permanent
<1>3. Durable' = Durable
  BY DEF Durable
<1> QED BY <1>1, <1>2, <1>3, SafeOfKept DEF Kept

\* BEGIN, or a draw first.
LEMMA RewardBegins ==
  ASSUME HeldInv, UNCHANGED <<rows, torn>>, NEW r, NEW c, DOMAIN c = DOMAIN Idle, call' = Begin(r, c),
         call.op # "batch", c.item = NullRow \/ (c.item = call.item /\ Held(call))
  PROVE  HeldInv' /\ Safe
<1>1. call'.item = c.item /\ call'.op \in {"batch", "lot"} /\ (call'.op = "batch" => call'.saved.rows = rows)
  BY DEF Begin, Saved, Idle
<1>2. Dropped(call') \/ Carried(call')
  BY <1>1 DEF Dropped, Carried, Held
<1>3. Steady(rows, rows')
  BY SteadyItself
<1> QED BY <1>1, <1>2, <1>3, BatchBegins, SteadyStep

\* Handlers that begin or end, and time.
LEMMA HeldQuiet ==
  ASSUME TableInv, HeldInv,
         \/ \E p \in Product : BuyProduct(p)
         \/ AdvanceSlot \/ Charge \/ NoRateFound \/ Login \/ ClearNotices \/ Tick \/ EndTick \/ Logout
         \/ \E n \in 0 .. MaxPoints : GivePoints(n)
  PROVE  HeldInv' /\ Safe
<1>1. /\ UNCHANGED rows /\ (torn => torn') /\ call.op # "batch" /\ call'.op # "batch"
      /\ Dropped(call') \/ Carried(call')
  <2>1. CASE \E p \in Product : BuyProduct(p)
    <3>1. call = Idle /\ torn' = torn /\ rows' = rows /\ call'.op = "buy" /\ call'.item = NullRow
      BY <2>1 DEF BuyProduct, Ready, table, history, Idle
    <3> QED BY <3>1, NullRowIsRow DEF Dropped, Held
  <2>2. CASE AdvanceSlot
    <3>1. call' = call /\ rows' = rows /\ call.op # "batch"
      BY <2>2 DEF AdvanceSlot, TableInv, BatchOK
    <3>2. torn => torn'
      BY <2>2, Zenon DEF AdvanceSlot
    <3> QED BY <3>1, <3>2 DEF Carried
  <2>3. CASE Charge \/ NoRateFound \/ ClearNotices \/ EndTick
    <3>1. call' = Idle /\ rows' = rows /\ torn' = torn /\ call.op # "batch"
      BY <2>3 DEF Charge, NoRateFound, ClearNotices, EndTick, At, table, history
    <3>2. call'.op = "idle" /\ call'.item = NullRow
      BY <3>1 DEF Idle
    <3> QED BY <3>1, <3>2 DEF Dropped, Held
  <2>4. CASE Login \/ Tick
    <3>1. call = Idle /\ rows' = rows /\ torn' = torn /\ call'.op \in {"login", "tick"} /\ call'.item = NullRow
      BY <2>4 DEF Login, Tick, table, history, Idle
    <3> QED BY <3>1, NullRowIsRow DEF Dropped, Held
  <2>5. CASE Logout \/ \E n \in 0 .. MaxPoints : GivePoints(n)
    <3>1. call = Idle /\ rows' = rows /\ torn' = torn /\ call' = call
      BY <2>5 DEF Logout, GivePoints, Commanded, table, history
    <3> QED BY <3>1, NullRowIsRow DEF Carried
  <2> QED BY <2>1, <2>2, <2>3, <2>4, <2>5
<1> QED BY <1>1, SteadyItself, SteadyStep

\* Items that come one by one, or are rewritten where they are.
LEMMA HeldAdd ==
  ASSUME TableInv, HeldInv,
         \/ DeliverGood \/ DrawItem \/ DrawLot
         \/ \E r \in Reward : \E k \in DOMAIN r.goods : OnRewardSelect(r, k)
         \/ \E p \in Product : \E k \in DOMAIN p.goods : \/ AddItemCommand(p.goods[k])
                                                        \/ GiveItemCommand(p.goods[k])
  PROVE  HeldInv' /\ Safe
<1>1. IsCall(call) /\ DOMAIN call = DOMAIN Idle
  BY DEF TableInv, IsCall
<1>2. /\ torn' = torn /\ call.op # "batch" /\ call'.op # "batch"
      /\ Dropped(call') \/ Carried(call')
      /\ ~torn => Steady(rows, rows')
  <2>1. CASE DeliverGood
    <3> DEFINE g == Head(call.goods)
    <3>1. torn' = torn /\ call.op = "buy" /\ (call' = Idle \/ call' = [call EXCEPT !.goods = Tail(@)])
      BY <2>1 DEF DeliverGood, At, history
    <3>2. Dropped(call') \/ Carried(call')
      BY <1>1, <3>1 DEF Dropped, Carried, Held, Idle
    <3>3. call'.op \in {"buy", "idle"}
      BY <1>1, <3>1 DEF Idle
    <3>4. UNCHANGED table \/ AddItem(g) \/ AddItemFails(g)
      BY <2>1 DEF DeliverGood
    <3>5. ~torn => Steady(rows, rows')
      BY <3>4, AddItemSteady, SteadyItself DEF table
    <3> QED BY <3>1, <3>2, <3>3, <3>5
  <2>2. CASE DrawItem
    <3>1. torn' = torn /\ call.op = "open"
      BY <2>2 DEF DrawItem, At, history
    <3>2. PICK g \in Drops : /\ AddItem(g) \/ AddItemFails(g)
                            /\ \/ call' = [call EXCEPT !.gain = @ + 1]
                               \/ call' = [call EXCEPT !.count = call.gain]
      BY <2>2, Zenon DEF DrawItem
    <3>3. call'.op = call.op /\ call'.item = call.item
      BY <1>1, <3>2 DEF Idle
    <3> QED BY <3>1, <3>2, <3>3, AddItemSteady DEF Carried, Held
  <2>3. CASE DrawLot
    <3>1. torn' = torn /\ call.op = "lot" /\ call' = [call EXCEPT !.op = "begin"]
      BY <2>3 DEF DrawLot, At, history
    <3>2. call'.op = "begin" /\ call'.item = call.item
      BY <1>1, <3>1 DEF Idle
    <3>3. PICK g : AddOne(g)
      BY <2>3 DEF DrawLot
    <3> QED BY <3>1, <3>2, <3>3, AddOneSteady DEF Carried, Held
  <2>4. CASE \E r \in Reward : \E k \in DOMAIN r.goods : OnRewardSelect(r, k)
    <3>1. PICK r \in Reward : \E k \in DOMAIN r.goods : OnRewardSelect(r, k)
      BY <2>4
    <3>2. PICK k \in DOMAIN r.goods : OnRewardSelect(r, k)
      BY <3>1
    <3>3. torn' = torn /\ call = Idle /\ call' = call /\ AddOne(r.goods[k])
      BY <3>2 DEF OnRewardSelect, Ready, history
    <3> QED BY <3>3, NullRowIsRow, AddOneSteady DEF Carried
  <2>5. CASE \E p \in Product : \E k \in DOMAIN p.goods : AddItemCommand(p.goods[k]) \/ GiveItemCommand(p.goods[k])
    <3>1. PICK p \in Product : \E k \in DOMAIN p.goods : AddItemCommand(p.goods[k]) \/ GiveItemCommand(p.goods[k])
      BY <2>5
    <3>2. PICK k \in DOMAIN p.goods : AddItemCommand(p.goods[k]) \/ GiveItemCommand(p.goods[k])
      BY <3>1
    <3>3. torn' = torn /\ call = Idle /\ call' = call /\ AddOne(p.goods[k])
      BY <3>2 DEF AddItemCommand, GiveItemCommand, Commanded, history
    <3> QED BY <3>3, NullRowIsRow, AddOneSteady DEF Carried
  <2> QED BY <2>1, <2>2, <2>3, <2>4, <2>5
<1> QED BY <1>2, SteadyStep

LEMMA HeldRewrite ==
  ASSUME TableInv, HeldInv, NEW i \in DOMAIN rows, NEW b,
         \/ SwitchStatus(i) \/ OnCostumeEquip(i)
         \/ OnSwitchInUse(i) \/ SetItemStatus(i, b) \/ SetItemInUse(i, b)
  PROVE  HeldInv' /\ Safe
<1>1. call = Idle /\ call' = call /\ torn' = torn /\ IsTable(rows) /\ (~torn => Distinct(rows))
  BY DEF SwitchStatus, OnCostumeEquip, OnSwitchInUse, SetItemStatus, SetItemInUse, Ready, Commanded,
         history, TableInv
<1>2. ~torn => Steady(rows, rows')
  <2>1. CASE SwitchStatus(i) \/ OnCostumeEquip(i)
    BY <1>1, <2>1, SwitchedRows, EquippedRows, SameSteady DEF SameRows
  <2>2. CASE OnSwitchInUse(i) \/ SetItemStatus(i, b) \/ SetItemInUse(i, b)
    <3>1. PICK r : /\ IsRow(r) /\ r.slot = rows[i].slot /\ r.id = rows[i].id
                   /\ rows[i].expiry = 0 => r.expiry = 0
                   /\ rows' = Write(rows, r) /\ UNCHANGED <<next, due>>
      BY <2>2, UpdatedRow
    <3> QED BY <1>1, <3>1, WriteSteady DEF Permanent
  <2> QED BY <2>1, <2>2
<1> QED BY <1>1, <1>2, NullRowIsRow, SteadyStep DEF Carried

\* Days added to a row with a date; the extender itself is countable.
LEMMA HeldExtender ==
  ASSUME TableInv, HeldInv, NEW i \in DOMAIN rows, NEW j \in DOMAIN rows, NEW days, UseExtender(i, j, days)
  PROVE  HeldInv' /\ Safe
<1> DEFINE r == [rows[j] EXCEPT !.expiry = ExtendedDate(rows[j], days)]
           t == Write(rows, r)
           left == rows[i].count - days
           free == FreeRow(rows[i].slot)
           less == [t[i] EXCEPT !.count = left]
<1>1. /\ IsTable(rows) /\ call = Idle /\ call' = call /\ torn' = torn /\ (~torn => Distinct(rows))
      /\ Countable(rows[i].id) /\ rows[j].expiry # 0
  BY DEF TableInv, UseExtender, Ready, history, Countable
<1>2. rows' = IF left < 0 THEN t ELSE Write(t, IF left = 0 THEN free ELSE less)
  BY DEF UseExtender
<1>3. IsRow(r) /\ r.slot = rows[j].slot /\ r.id = rows[j].id
  BY <1>1 DEF IsTable, IsRow, Columns
<1>4. free.slot = rows[i].slot
  BY DEF FreeRow, Row
<1> HIDE DEF r, free
<1>5. Shrunk(rows, t)
  BY <1>1, <1>3, WriteShrinks
<1>6. \A k \in DOMAIN rows : t[k].id = rows[k].id \/ ~Distinct(rows)
  BY <1>3 DEF Write, Distinct
<1>7. ~torn => Kept(rows, t)
  BY <1>1, <1>3, WriteKeeps DEF Permanent
<1> HIDE DEF t
<1>8. IsTable(t) /\ i \in DOMAIN t /\ t[i].slot = rows[i].slot /\ IsRow(t[i])
  BY <1>5 DEF Shrunk, IsTable
<1>9. less.slot = t[i].slot
  BY <1>8 DEF IsRow, Columns
<1> HIDE DEF less, left
<1>10. ASSUME ~torn PROVE Kept(rows, rows')
  <2>1. Distinct(t) /\ ~Permanent(t[i])
    BY <1>1, <1>5, <1>6, <1>10 DEF Shrunk, Distinct, Permanent
  <2>2. Kept(t, Write(t, free)) /\ Kept(t, Write(t, less))
    BY <1>4, <1>8, <1>9, <2>1, WriteKeeps
  <2> QED BY <1>2, <1>7, <1>10, <2>2, KeptTwice
<1>11. Dropped(call') /\ call.op # "batch" /\ call'.op # "batch"
  <2>1. call.op = "idle" /\ call.item = NullRow
    BY <1>1 DEF Idle
  <2> QED BY <1>1, <2>1 DEF Dropped, Held
<1> QED BY <1>10, <1>11, EndStep

\* A row that starts, or joins the one that runs, has a date; without one nothing ends.
LEMMA HeldTimed ==
  ASSUME TableInv, HeldInv, NEW i \in DOMAIN rows, UseTimed(i)
  PROVE  HeldInv' /\ Safe
<1> DEFINE date == ConvertDuration(rows[i].expiry)
           running == {k \in Extendable(rows[i].id) : rows[k].status = 1}
           j == FirstOf(running)
           longer == [rows[j] EXCEPT !.expiry = Cap(@ + date - now)]
           started == [rows[i] EXCEPT !.status = 1, !.expiry = date]
           free == FreeRow(rows[i].slot)
           t == Write(rows, longer)
<1>1. /\ IsTable(rows) /\ call = Idle /\ call' = call /\ torn' = torn /\ (~torn => Distinct(rows))
      /\ IsRow(rows[i]) /\ rows[i].status = 0
  BY DEF TableInv, UseTimed, Ready, history, IsTable, CanUseItem
<1>2. rows' = IF rows[i].expiry # 0 /\ running # {} THEN Write(t, free) ELSE Write(rows, started)
  BY DEF UseTimed
<1>3. started.slot = rows[i].slot /\ started.id = rows[i].id /\ (rows[i].expiry = 0 => started.expiry = 0)
  BY <1>1 DEF IsRow, Columns, ConvertDuration
<1>4. ASSUME ~torn, running # {}, rows[i].expiry # 0 PROVE Kept(rows, Write(t, free))
  <2>1. j \in DOMAIN rows /\ rows[j].expiry # 0 /\ rows[j].status = 1
    <3>1. running \subseteq DOMAIN rows
      BY DEF Extendable, Of
    <3>2. j \in running
      BY <1>1, <1>4, <3>1, FoundRow
    <3> QED BY <3>2 DEF Extendable, Of
  <2>2. IsRow(longer) /\ longer.slot = rows[j].slot /\ longer.id = rows[j].id
    BY <1>1, <2>1 DEF IsTable, IsRow, Columns
  <2>3. free.slot = rows[i].slot
    BY DEF FreeRow, Row
  <2> HIDE DEF longer, j, free
  <2>4. Kept(rows, t) /\ Shrunk(rows, t)
    BY <1>1, <1>4, <2>1, <2>2, WriteKeeps, WriteShrinks DEF Permanent
  <2>5. t[i] = rows[i]
    BY <1>1, <1>4, <2>1, <2>2 DEF Write, Distinct
  <2> HIDE DEF t
  <2>6. Distinct(t) /\ i \in DOMAIN t /\ t[i].slot = rows[i].slot /\ ~Permanent(t[i])
    BY <1>1, <1>4, <2>4, <2>5 DEF Shrunk, Distinct, Permanent
  <2>7. Kept(t, Write(t, free))
    BY <2>3, <2>6, WriteKeeps
  <2> QED BY <2>4, <2>7, KeptTwice
<1> HIDE DEF started, longer, free, running, t
<1>5. ~torn => Kept(rows, Write(rows, started))
  BY <1>1, <1>3, WriteSteady DEF Permanent, Steady
<1>6. Dropped(call') /\ call.op # "batch" /\ call'.op # "batch"
  <2>1. call.op = "idle" /\ call.item = NullRow
    BY <1>1 DEF Idle
  <2> QED BY <1>1, <2>1 DEF Dropped, Held
<1> QED BY <1>2, <1>4, <1>5, <1>6, EndStep

\* Countable items are used up and boxes opened.
LEMMA HeldUse ==
  ASSUME TableInv, HeldInv,
         \/ \E i \in DOMAIN rows : \E n \in 1 .. MaxUse : UseCountable(i, n) \/ OpenItemBox(i, n)
         \/ FinishUse \/ CloseBox
  PROVE  HeldInv' /\ Safe
<1>1. IsTable(rows) /\ (~torn => Distinct(rows)) /\ IsCall(Idle) /\ Idle.op = "idle" /\ Idle.item = NullRow
  BY NullRowIsRow DEF TableInv, Idle
<1>2. ASSUME NEW i \in DOMAIN rows, NEW n, UseCountable(i, n) PROVE HeldInv' /\ Safe
  <2>1. /\ call = Idle /\ torn' = torn /\ Countable(rows[i].id) /\ rows[i].id # None /\ IsRow(rows[i])
        /\ ~Permanent(rows[i])
    BY <1>1, <1>2 DEF UseCountable, Ready, history, CanUseItem, Countable, IsTable, Permanent
  <2>2. CASE Consume(rows[i], n) /\ UNCHANGED call
    <3>1. ~torn => Kept(rows, rows')
      BY <1>1, <2>1, <2>2, ConsumeKeeps
    <3> QED BY <1>1, <2>1, <2>2, <3>1, EndStep DEF Dropped, Held
  <2>3. CASE /\ call' = [Idle EXCEPT !.op = "use", !.item = [rows[i] EXCEPT !.count = @ - n], !.count = n]
             /\ UNCHANGED <<table, dress>>
    <3>1. call'.op = "use" /\ call'.item.id = rows[i].id /\ call'.item.slot = rows[i].slot /\ rows' = rows
      BY <2>1, <2>3 DEF IsRow, Columns, Idle, table
    <3>2. HeldInv'
      BY <2>1, <3>1 DEF HeldInv, Held, Countable
    <3>3. Durable' = Durable /\ Kept(Durable, Durable)
      BY <1>1, <2>1, <3>1 DEF Durable, Kept
    <3> QED BY <3>2, <3>3, SafeOfKept
  <2> QED BY <1>2, <2>2, <2>3 DEF UseCountable
<1>3. ASSUME NEW i \in DOMAIN rows, NEW n, OpenItemBox(i, n) PROVE HeldInv' /\ Safe
  <2>1. /\ call = Idle /\ torn' = torn /\ Countable(rows[i].id) /\ rows[i].id # None /\ rows' = rows
        /\ call'.op = "open" /\ call'.item = rows[i]
    BY <1>3 DEF OpenItemBox, Ready, history, table, CanUseItem, Countable, Idle
  <2>2. HeldInv'
    BY <2>1 DEF HeldInv, Held, Countable
  <2>3. Durable' = Durable /\ Kept(Durable, Durable)
    BY <1>1, <2>1 DEF Durable, Kept
  <2> QED BY <2>2, <2>3, SafeOfKept
<1>4. CASE FinishUse \/ CloseBox
  <2>1. /\ call.op \in {"use", "open"} /\ call' = Idle /\ torn' = torn
        /\ UNCHANGED table \/ \E n \in {0, call.gain} : Consume(call.item, n)
    BY <1>4 DEF FinishUse, CloseBox, At, history
  <2>2. ASSUME ~torn, NEW n, Consume(call.item, n) PROVE Kept(rows, rows')
    <3>1. PICK i \in DOMAIN rows : rows[i].slot = call.item.slot /\ rows[i].id = call.item.id
      BY <2>1, <2>2 DEF HeldInv, Held
    <3>2. ~Permanent(rows[i])
      BY <2>1, <3>1 DEF HeldInv, Held, Permanent
    <3> QED BY <1>1, <2>2, <3>1, <3>2, ConsumeKeeps
  <2>3. ~torn => Kept(rows, rows')
    <3>1. CASE UNCHANGED table
      BY <3>1, SteadyItself DEF table, Steady
    <3> QED BY <2>1, <2>2, <3>1
  <2> QED BY <1>1, <2>1, <2>3, EndStep DEF Dropped, Held
<1> QED BY <1>2, <1>3, <1>4

\* A reward begins; its batch runs, commits, or is rolled back.
LEMMA HeldReward ==
  ASSUME TableInv, HeldInv,
         \/ \E r \in Reward : GiveReward(r)
         \/ BeginBatch \/ GiveNotice \/ UseReward
         \/ \E p \in Product : AddAllItems(p.goods)
  PROVE  HeldInv' /\ Safe
<1>1. /\ DOMAIN call = DOMAIN Idle /\ Idle.op = "idle" /\ Idle.item = NullRow
      /\ call.item = NullRow \/ Held(call)
  BY DEF TableInv, IsCall, Idle, Held
<1>2. CASE \E r \in Reward : GiveReward(r)
  <2>1. PICK r \in Reward : GiveReward(r)
    BY <1>2
  <2>2. UNCHANGED <<rows, torn>> /\ call = Idle
    BY <2>1 DEF GiveReward, table
  <2>3. CASE call' = Begin(r, Idle)
    BY <1>1, <2>2, <2>3, RewardBegins
  <2>4. CASE call' = call
    BY <1>1, <2>2, <2>4, SteadyItself, SteadyStep DEF Carried
  <2> QED BY <2>1, <2>3, <2>4 DEF GiveReward
<1>3. CASE BeginBatch
  <2>1. /\ call.op = "begin" /\ UNCHANGED <<rows, torn>>
        /\ call' = [call EXCEPT !.op = "batch", !.saved = Saved]
    BY <1>3 DEF BeginBatch, At, history, table
  <2>2. call'.op = "batch" /\ call'.item = call.item /\ call'.saved.rows = rows
    BY <1>1, <2>1 DEF Saved, Idle
  <2> QED BY <2>1, <2>2, BatchBegins DEF Carried, Held
<1>4. CASE GiveNotice
  <2> DEFINE r == stored[Head(call.notices)]
  <2>1. UNCHANGED <<rows, torn>> /\ call.op = "login"
    BY <1>4 DEF GiveNotice, At, table, history
  <2>2. CASE call' = Begin(r, call)
    BY <1>1, <2>1, <2>2, RewardBegins
  <2>3. CASE call' = [call EXCEPT !.notices = Tail(@)]
    <3>1. call'.op = call.op /\ call'.item = call.item
      BY <1>1, <2>3 DEF Idle
    <3> QED BY <2>1, <3>1, SteadyItself, SteadyStep DEF Carried, Held
  <2> QED BY <1>4, <2>2, <2>3 DEF GiveNotice
<1>5. CASE UseReward
  <2> DEFINE c == [call EXCEPT !.count = @ - 1]
  <2>1. UNCHANGED <<rows, torn>> /\ call' = Begin(RewardOf[call.item.id], c) /\ call.op = "use"
    BY <1>5 DEF UseReward, At, table, history
  <2>2. DOMAIN c = DOMAIN Idle /\ c.item = call.item
    BY <1>1 DEF Idle
  <2> HIDE DEF c
  <2> QED BY <2>1, <2>2, RewardBegins DEF Held
<1>6. CASE \E p \in Product : AddAllItems(p.goods)
  <2>1. PICK p \in Product : AddAllItems(p.goods)
    BY <1>6
  <2> DEFINE r == [goods |-> p.goods, lots |-> {}, points |-> 0]
  <2>2. UNCHANGED <<rows, torn>> /\ call' = Begin(r, Idle) /\ call = Idle
    BY <2>1 DEF AddAllItems, Commanded, table, history
  <2> HIDE DEF r
  <2> QED BY <1>1, <2>2, RewardBegins
<1> QED BY <1>2, <1>3, <1>4, <1>5, <1>6

LEMMA HeldBatch ==
  ASSUME TableInv, HeldInv, Collect \/ Places
  PROVE  HeldInv' /\ Safe
<1>1. /\ IsTable(rows) /\ (~torn => Distinct(rows)) /\ DOMAIN call = DOMAIN Idle /\ call.op = "batch"
      /\ BatchOK /\ (torn => torn')
  BY DEF TableInv, IsCall, Collect, Places, PlaceNew, PlaceTears, PlaceFree, PlaceFails, StackAll,
         StackFails, Placing, At, history
<1>2. CASE Collect
  <2> DEFINE g == Head(call.goods)
             rest == [call EXCEPT !.goods = Tail(@)]
             update == Append(rest.update, [slot |-> FirstRow(g.id).slot,
                                           count |-> FirstRow(g.id).count + g.count])
             insert == Append(rest.insert, NewRow(g, TRUE))
             SameCall(c) == /\ DOMAIN c = DOMAIN Idle /\ c.op = call.op /\ c.item = call.item
                            /\ c.saved = call.saved
  <2>1. SameCall(rest)
    BY <1>1 DEF Idle
  <2>2. \/ call' = [call EXCEPT !.goods = <<>>]
        \/ call' = [call EXCEPT !.goods = <<>>, !.insert = <<>>, !.update = <<>>]
        \/ call' = rest
        \/ call' = [rest EXCEPT !.update = update]
        \/ call' = [rest EXCEPT !.insert = insert]
    BY <1>2 DEF Collect, ExtendGood, StackGood, InsertGood
  <2>3. UNCHANGED table \/ (Extends(g) /\ ExtendItem(rows[FirstOf(Extendable(g.id))], g.days))
    BY <1>2 DEF Collect, ExtendGood, StackGood, InsertGood, AddItemFails
  <2> HIDE DEF rest, update, insert
  <2>4. SameCall(call')
    BY <1>1, <2>1, <2>2 DEF Idle
  <2>5. ~torn => Steady(rows, rows')
    BY <1>1, <2>3, ExtendSteady, SteadyItself DEF table
  <2> QED BY <1>1, <2>4, <2>5, SteadyStep DEF Carried, Held
<1>3. ASSUME NEW r, DOMAIN r = Columns, Placed(r),
             \/ \E insert : call' = [call EXCEPT !.insert = insert]
             \/ call' = Given
      PROVE  HeldInv' /\ Safe
  <2>1. call'.op = call.op /\ call'.item = call.item /\ call'.saved = call.saved
    BY <1>1, <1>3 DEF Given, Idle
  <2>2. ~torn => Steady(rows, rows')
    BY <1>1, <1>3, PlacedSteady
  <2> QED BY <1>1, <2>1, <2>2, SteadyStep DEF Carried, Held
<1>5. CASE PlaceNew \/ PlaceTears
  <2> DEFINE r == call.insert[ForNew]
  <2>1. /\ Placing /\ ForNew <= Len(call.insert) /\ rows' = Append(rows, [r EXCEPT !.slot = next])
        /\ call' = [call EXCEPT !.insert = Without(@, ForNew)] \/ call' = Given
    BY <1>5 DEF PlaceNew, PlaceTears, PlaceInsert
  <2>2. DOMAIN r = Columns
    BY <2>1, NewPick
  <2> HIDE DEF r
  <2>3. \/ \E insert : call' = [call EXCEPT !.insert = insert]
        \/ call' = Given
    BY <2>1
  <2> QED BY <1>3, <2>1, <2>2, <2>3 DEF Placed
<1>6. CASE PlaceFree
  <2> DEFINE r == Head(call.insert)
  <2>1. /\ call.insert # <<>> /\ Len(call.insert) < ForNew
        /\ rows' = Write(rows, [r EXCEPT !.slot = rows[FirstOf(Free)].slot])
        /\ call' = [call EXCEPT !.insert = Tail(@)]
    BY <1>6 DEF PlaceFree, Placing
  <2>2. Len(call.insert) # 0 /\ Len(call.insert) \in Nat /\ DOMAIN call.insert = 1 .. Len(call.insert)
    BY <1>1, <2>1 DEF BatchOK, IsSequence
  <2>3. r = call.insert[1] /\ 1 \in DOMAIN call.insert
    BY <2>2
  <2>4. DOMAIN r = Columns
    BY <1>1, <2>3 DEF BatchOK
  <2>5. Free # {}
    BY <1>1, <2>1, <2>2, FreeCount DEF ForNew
  <2>6. \E insert : call' = [call EXCEPT !.insert = insert]
    BY <2>1
  <2> HIDE DEF r
  <2>7. Placed(r)
    BY <2>1, <2>5 DEF Placed
  <2> QED BY <1>3, <2>4, <2>6, <2>7
<1>7. CASE PlaceFails \/ StackFails
  <2>1. rows' = rows /\ call' = Given
    BY <1>7 DEF PlaceFails, StackFails, table
  <2>2. call'.op = call.op /\ call'.item = call.item /\ call'.saved = call.saved
    BY <1>1, <2>1 DEF Given, Idle
  <2> QED BY <1>1, <2>1, <2>2, SteadyItself, SteadyStep DEF Carried, Held
<1>4. CASE StackAll
  <2>1. /\ rows' = [i \in DOMAIN rows |-> [rows[i] EXCEPT !.count = NewCount(rows[i])]]
        /\ call' = [call EXCEPT !.update = <<>>]
    BY <1>4 DEF StackAll
  <2>2. DOMAIN rows' = DOMAIN rows
    BY <2>1
  <2>3. \A i \in DOMAIN rows : rows'[i].slot = rows[i].slot /\ rows'[i].id = rows[i].id /\ rows'[i].expiry = rows[i].expiry
    BY <1>1, <2>1 DEF IsTable, IsRow, Columns
  <2>4. Steady(rows, rows')
    BY <2>2, <2>3, SameSteady
  <2>5. call'.op = call.op /\ call'.item = call.item /\ call'.saved = call.saved
    BY <1>1, <2>1 DEF Idle
  <2> QED BY <1>1, <2>4, <2>5, SteadyStep DEF Carried, Held
<1> QED BY <1>2, <1>4, <1>5, <1>6, <1>7 DEF Places

\* What a commit that fails brings back has the row the handler holds a copy of.
LEMMA HeldCommit ==
  ASSUME TableInv, HeldInv, Commit
  PROVE  HeldInv' /\ Safe
<1>1. /\ rows' = rows \/ rows' = call.saved.rows
      /\ torn' = torn /\ call' = Resumed /\ call.op = "batch" /\ DOMAIN call = DOMAIN Idle
  BY DEF TableInv, IsCall, Commit, Restore, At
<1>2. /\ call'.op \in {"use", "login", "idle"} /\ call'.op # "batch"
      /\ call.item # NullRow => call'.item = call.item
      /\ call.item = NullRow => call'.item = NullRow /\ call'.op # "use"
  BY <1>1 DEF Resumed, Idle
<1>3. HeldInv'
  BY <1>1, <1>2 DEF HeldInv, Held, Countable
<1>4. Durable = call.saved.rows /\ Durable' = rows'
  BY <1>1, <1>2 DEF Durable
<1>5. ~torn => Kept(Durable, Durable')
  BY <1>1, <1>4 DEF HeldInv, Kept
<1> QED BY <1>3, <1>5, SafeOfKept

LEMMA HeldCrash ==
  ASSUME TableInv, HeldInv, Crash
  PROVE  HeldInv' /\ Safe
<1>1. call'.op = "idle" /\ call'.item = NullRow
  BY DEF Crash, Idle
<1>2. HeldInv'
  BY <1>1 DEF HeldInv, Held
<1>3. Durable' = Durable
  BY <1>1 DEF Crash, Restore, Durable
<1> QED BY <1>2, <1>3, SafeOfKept DEF Kept

\* Removals: a passed date is one, and the rest is what the property excuses.
LEMMA HeldRemoval ==
  ASSUME TableInv, HeldInv,
         RemoveExpired \/ \E i \in DOMAIN rows : OnDisassemble(i) \/ RemoveItemCommand(i)
  PROVE  HeldInv' /\ Safe
<1>1. IsTable(rows) /\ (~torn => Distinct(rows)) /\ Idle.op = "idle" /\ Idle.item = NullRow
  BY DEF TableInv, Idle
<1>2. CASE RemoveExpired
  <2> DEFINE i == FirstOf(Expired)
  <2>1. i \in DOMAIN rows /\ rows[i].expiry # 0
    <3>1. Expired \subseteq DOMAIN rows
      BY DEF Expired, Owned
    <3>2. i \in Expired
      BY <1>1, <1>2, <3>1, FoundRow DEF RemoveExpired
    <3> QED BY <3>1, <3>2 DEF Expired
  <2>2. RemoveItem(rows[i]) /\ call' = call /\ torn' = torn /\ call.op = "tick"
    BY <1>2 DEF RemoveExpired, At, history
  <2> HIDE DEF i
  <2>3. ~torn => Kept(rows, rows')
    BY <1>1, <2>1, <2>2, RemoveKeeps DEF Permanent
  <2> QED BY <2>2, <2>3, EndStep DEF HeldInv, Dropped
<1>3. ASSUME NEW i \in DOMAIN rows, OnDisassemble(i) \/ RemoveItemCommand(i) PROVE HeldInv' /\ Safe
  <2>1. RemoveItem(rows[i]) /\ call = Idle /\ call' = call /\ torn' = torn
    BY <1>3 DEF OnDisassemble, RemoveItemCommand, Ready, Commanded, history
  <2>2. HeldInv'
    BY <1>1, <2>1 DEF HeldInv, Held
  <2>3. Durable = rows /\ Durable' = rows'
    BY <1>1, <2>1 DEF Durable
  <2>4. ASSUME ~torn, NEW k \in DOMAIN rows, k # i, Permanent(rows[k])
        PROVE  k \in DOMAIN rows' /\ Permanent(rows'[k]) /\ rows'[k].id = rows[k].id
    BY <1>1, <2>1, <2>4, RemoveKeepsOthers
  <2>5. Safe
    BY <1>3, <2>3, <2>4 DEF Safe, Permanent
  <2> QED BY <2>2, <2>5
<1> QED BY <1>2, <1>3

\* Only its owner's disassembly and a game master's command destroy or limit what is owned
\* for good, whatever is used, given, drawn, expires or is rolled back.
THEOREM PermanentItemsAreKept == Spec => PermanentKept
<1>1. Init => HeldInv
  BY HeldInit
<1>2. TableInv /\ HeldInv /\ [Next]_vars => HeldInv' /\ (Safe \/ UNCHANGED vars)
  <2> SUFFICES ASSUME TableInv, HeldInv, [Next]_vars PROVE HeldInv' /\ (Safe \/ UNCHANGED vars)
    OBVIOUS
  <2>1. CASE UNCHANGED vars
    <3>1. UNCHANGED <<rows, call, torn>>
      BY <2>1 DEF vars
    <3>2. Carried(call')
      BY <3>1 DEF Carried
    <3> QED BY <2>1, <3>1, <3>2, SteadyItself, SteadyStep
  <2>2. CASE Crash
    BY <2>2, HeldCrash
  <2>3. CASE \/ \E p \in Product : BuyProduct(p)
             \/ AdvanceSlot \/ Charge \/ NoRateFound \/ Login \/ ClearNotices \/ Tick \/ EndTick \/ Logout
             \/ \E n \in 0 .. MaxPoints : GivePoints(n)
    BY <2>3, HeldQuiet
  <2>4. CASE \/ DeliverGood \/ DrawItem \/ DrawLot
             \/ \E r \in Reward : \E k \in DOMAIN r.goods : OnRewardSelect(r, k)
             \/ \E p \in Product : \E k \in DOMAIN p.goods : \/ AddItemCommand(p.goods[k])
                                                            \/ GiveItemCommand(p.goods[k])
    BY <2>4, HeldAdd
  <2>5. CASE \E i \in DOMAIN rows : \/ SwitchStatus(i) \/ OnCostumeEquip(i) \/ OnSwitchInUse(i)
                                    \/ \E b \in {0, 1} : SetItemStatus(i, b) \/ SetItemInUse(i, b)
    <3>1. PICK i \in DOMAIN rows, b \in {0, 1} :
            \/ SwitchStatus(i) \/ OnCostumeEquip(i)
            \/ OnSwitchInUse(i) \/ SetItemStatus(i, b) \/ SetItemInUse(i, b)
      BY <2>5
    <3> QED BY <3>1, HeldRewrite
  <2>6. CASE \E i, j \in DOMAIN rows : \E n \in 1 .. MaxUse : UseExtender(i, j, n)
    BY <2>6, HeldExtender
  <2>7. CASE \E i \in DOMAIN rows : UseTimed(i)
    BY <2>7, HeldTimed
  <2>8. CASE \/ \E i \in DOMAIN rows : \E n \in 1 .. MaxUse : UseCountable(i, n) \/ OpenItemBox(i, n)
             \/ FinishUse \/ CloseBox
    BY <2>8, HeldUse
  <2>9. CASE \/ \E r \in Reward : GiveReward(r)
             \/ BeginBatch \/ GiveNotice \/ UseReward
             \/ \E p \in Product : AddAllItems(p.goods)
    BY <2>9, HeldReward
  <2>10. CASE Collect \/ Places
    BY <2>10, HeldBatch
  <2>11. CASE Commit
    BY <2>11, HeldCommit
  <2>12. CASE RemoveExpired \/ \E i \in DOMAIN rows : OnDisassemble(i) \/ RemoveItemCommand(i)
    BY <2>12, HeldRemoval
  <2> QED
    BY <2>1, <2>2, <2>3, <2>4, <2>5, <2>6, <2>7, <2>8, <2>9, <2>10, <2>11, <2>12, Zenon DEF Next, Places
<1> QED BY <1>1, <1>2, InventoryInvariant, PTL DEF Spec, PermanentKept, Safe

=============================================================================
