----------------------------- MODULE RewardProofs -----------------------------
(***************************************************************************)
(* Theorems about what users earn and what they make of it: Enhancement,   *)
(* MiniGames and Quests, for every table, inventory, word, task and number *)
(* of users.  What enhancing and applying items may never do, that letters *)
(* are accounted for, that a desk in play is whole, and that no quest is   *)
(* rewarded twice and none loses a point.                                  *)
(***************************************************************************)
EXTENDS MiniGames, Quests, FiniteSetTheorems, SequenceTheorems, TLAPS

-----------------------------------------------------------------------------
(* Things by their keys *)

At(f, k) == IF k \in DOMAIN f THEN f[k] ELSE {}

\* What is a pair of a function of sets.
LEMMA PairsAre ==
  ASSUME NEW f
  PROVE  /\ \A k, x : <<k, x>> \in Pairs(f) <=> x \in At(f, k)
         /\ \A p \in Pairs(f) : \E k, x : p = <<k, x>>
  BY DEF Pairs, At

\* With the same sets at every key the pairs are the same.
LEMMA SamePairs ==
  ASSUME NEW f, NEW g, \A k : At(g, k) = At(f, k)
  PROVE  Pairs(g) = Pairs(f)
  <1>1. \A k, x : <<k, x>> \in Pairs(g) <=> <<k, x>> \in Pairs(f)
    BY PairsAre
  <1>2. \A p \in Pairs(f) : \E k, x : p = <<k, x>>
    BY PairsAre
  <1>3. \A p \in Pairs(g) : \E k, x : p = <<k, x>>
    BY PairsAre
  <1>4. \A p : p \in Pairs(g) => p \in Pairs(f)
    BY <1>1, <1>3
  <1>5. \A p : p \in Pairs(f) => p \in Pairs(g)
    BY <1>1, <1>2
  <1> QED
    BY <1>4, <1>5

\* One thing more at one key is one pair more.
LEMMA PairGained ==
  ASSUME NEW f, NEW g, NEW c, NEW x, IsFiniteSet(Pairs(f)), x \notin At(f, c),
         At(g, c) = At(f, c) \cup {x}, \A k : k # c => At(g, k) = At(f, k)
  PROVE  IsFiniteSet(Pairs(g)) /\ Cardinality(Pairs(g)) = Cardinality(Pairs(f)) + 1
  <1>1. \A k, y : <<k, y>> \in Pairs(g) <=> (<<k, y>> \in Pairs(f) \/ <<k, y>> = <<c, x>>)
    <2> SUFFICES ASSUME NEW k, NEW y
        PROVE  <<k, y>> \in Pairs(g) <=> (<<k, y>> \in Pairs(f) \/ <<k, y>> = <<c, x>>)
      OBVIOUS
    <2>1. <<k, y>> \in Pairs(g) <=> y \in At(g, k)
      BY PairsAre
    <2>2. <<k, y>> \in Pairs(f) <=> y \in At(f, k)
      BY PairsAre
    <2>3. CASE k = c
      BY <2>1, <2>2, <2>3
    <2>4. CASE k # c
      BY <2>1, <2>2, <2>4
    <2> QED
      BY <2>3, <2>4
  <1>2. Pairs(g) = Pairs(f) \cup {<<c, x>>}
    <2>1. \A p \in Pairs(f) : \E k, y : p = <<k, y>>
      BY PairsAre
    <2>2. \A p \in Pairs(g) : \E k, y : p = <<k, y>>
      BY PairsAre
    <2>3. \A p : p \in Pairs(g) => p \in Pairs(f) \cup {<<c, x>>}
      BY <1>1, <2>2
    <2>4. \A p : p \in Pairs(f) \cup {<<c, x>>} => p \in Pairs(g)
      BY <1>1, <2>1
    <2> QED
      BY <2>3, <2>4
  <1>3. <<c, x>> \notin Pairs(f)
    BY PairsAre
  <1>4. /\ IsFiniteSet(Pairs(f) \cup {<<c, x>>})
        /\ Cardinality(Pairs(f) \cup {<<c, x>>})
             = IF <<c, x>> \in Pairs(f) THEN Cardinality(Pairs(f)) ELSE Cardinality(Pairs(f)) + 1
    BY FS_AddElement
  <1> QED
    BY <1>2, <1>3, <1>4

\* One thing less at one key is one pair less.
LEMMA PairLost ==
  ASSUME NEW f, NEW g, NEW c, NEW x, IsFiniteSet(Pairs(f)), x \in At(f, c),
         At(g, c) = At(f, c) \ {x}, \A k : k # c => At(g, k) = At(f, k)
  PROVE  IsFiniteSet(Pairs(g)) /\ Cardinality(Pairs(g)) = Cardinality(Pairs(f)) - 1
  <1>1. \A k, y : <<k, y>> \in Pairs(g) <=> (<<k, y>> \in Pairs(f) /\ <<k, y>> # <<c, x>>)
    <2> SUFFICES ASSUME NEW k, NEW y
        PROVE  <<k, y>> \in Pairs(g) <=> (<<k, y>> \in Pairs(f) /\ <<k, y>> # <<c, x>>)
      OBVIOUS
    <2>1. <<k, y>> \in Pairs(g) <=> y \in At(g, k)
      BY PairsAre
    <2>2. <<k, y>> \in Pairs(f) <=> y \in At(f, k)
      BY PairsAre
    <2>3. CASE k = c
      BY <2>1, <2>2, <2>3
    <2>4. CASE k # c
      BY <2>1, <2>2, <2>4
    <2> QED
      BY <2>3, <2>4
  <1>2. Pairs(g) = Pairs(f) \ {<<c, x>>}
    <2>1. \A p \in Pairs(f) : \E k, y : p = <<k, y>>
      BY PairsAre
    <2>2. \A p \in Pairs(g) : \E k, y : p = <<k, y>>
      BY PairsAre
    <2>3. \A p : p \in Pairs(g) => p \in Pairs(f) \ {<<c, x>>}
      BY <1>1, <2>2
    <2>4. \A p : p \in Pairs(f) \ {<<c, x>>} => p \in Pairs(g)
      BY <1>1, <2>1
    <2> QED
      BY <2>3, <2>4
  <1>3. <<c, x>> \in Pairs(f)
    BY PairsAre
  <1> QED
    BY <1>2, <1>3, FS_RemoveElement

\* Without a thing at any key there is no pair.
LEMMA NoPairs ==
  ASSUME NEW f, \A k \in DOMAIN f : f[k] = {}
  PROVE  Pairs(f) = {} /\ IsFiniteSet(Pairs(f)) /\ Cardinality(Pairs(f)) = 0
  <1>1. Pairs(f) = {}
    BY DEF Pairs
  <1> QED
    BY <1>1, FS_EmptySet

-----------------------------------------------------------------------------
(* The invariant *)

Columns == {"id", "count", "level", "exp", "attr", "paint", "paints", "part", "lock"}

Fits(w, a) ==
  /\ \A i \in 0 .. 5 : a[Swap(i)] <= Cap[w][i]
  /\ GetEnhanceLevel(a) <= TotalMax[w]

Row(r) ==
  /\ DOMAIN r = Columns
  /\ r.attr \in [0 .. 6 -> Nat]
  /\ r.id \in Reinforceable => Fits(r.id, r.attr)

RowsOf(b) == DOMAIN b = Slot /\ \A s \in Slot : Row(b[s])

\* The copy of a row that a handler works on is as good as a row, and the row it was read
\* from holds the same item or, used up as a material, none.
CopyOf(t, b) ==
  /\ DOMAIN t = {"slot", "row"}
  /\ t.slot \in Slot /\ t.row.id \in Reinforceable
  /\ Row(t.row)
  /\ b[t.slot].id \in {t.row.id, None}

\* An item that is being enhanced has a level to go.
ToGo(r) == GetEnhanceLevel(r.attr) < TotalMax[r.id] /\ GetEnhanceLevel(r.attr) < Finished

CallOf(c, b) ==
  /\ c.op \in {"insert", "roll", "decrease"} => CopyOf(c.target, b)
  /\ c.op \in {"insert", "roll"} => ToGo(c.target.row)
  /\ c.op = "insert" => DOMAIN c = {"op", "target", "use", "total"}
  /\ c.op \in {"slots", "prizes"} => DOMAIN c = {"op", "todo"}

TableInv == RowsOf(bag) /\ CallOf(call, bag)

-----------------------------------------------------------------------------
(* Attributes *)

\* The level of an item is a number.
LEMMA LevelIsNat ==
  ASSUME NEW a \in [0 .. 6 -> Nat]
  PROVE  GetEnhanceLevel(a) \in Nat
  BY DEF GetEnhanceLevel

\* Attributes that were only lowered fit as before.
LEMMA LowerFits ==
  ASSUME NEW w \in Reinforceable, NEW a \in [0 .. 6 -> Nat], NEW c \in [0 .. 6 -> Nat],
         Fits(w, a), \A i \in 0 .. 6 : c[i] <= a[i]
  PROVE  Fits(w, c)
  <1>1. \A i \in 0 .. 5 : c[Swap(i)] <= Cap[w][i]
    <2> SUFFICES ASSUME NEW i \in 0 .. 5 PROVE c[Swap(i)] <= Cap[w][i]
      OBVIOUS
    <2>1. Swap(i) \in 0 .. 6
      BY DEF Swap
    <2>2. c[Swap(i)] <= a[Swap(i)] /\ a[Swap(i)] <= Cap[w][i]
      BY <2>1 DEF Fits
    <2>3. c[Swap(i)] \in Nat /\ a[Swap(i)] \in Nat /\ Cap[w][i] \in Nat
      BY <2>1, TableAssumption
    <2> QED
      BY <2>2, <2>3
  <1>2. GetEnhanceLevel(c) <= GetEnhanceLevel(a)
    BY DEF GetEnhanceLevel
  <1>3. TotalMax[w] \in Nat
    BY TableAssumption
  <1> QED
    BY <1>1, <1>2, <1>3, LevelIsNat DEF Fits

\* A new item fits whatever the table says.
LEMMA PlainFits ==
  ASSUME NEW w \in Reinforceable
  PROVE  Plain \in [0 .. 6 -> Nat] /\ Fits(w, Plain)
  <1>1. Plain \in [0 .. 6 -> Nat] /\ \A i \in 0 .. 6 : Plain[i] = 0
    BY DEF Plain
  <1>2. GetEnhanceLevel(Plain) = 0
    BY <1>1 DEF GetEnhanceLevel
  <1>3. \A i \in 0 .. 5 : Swap(i) \in 0 .. 6
    BY DEF Swap
  <1> QED
    BY <1>1, <1>2, <1>3, TableAssumption DEF Fits

\* Raising an attribute that can be drawn keeps all of them within the table.
LEMMA RaiseFits ==
  ASSUME NEW w \in Reinforceable, NEW a \in [0 .. 6 -> Nat], Fits(w, a),
         GetEnhanceLevel(a) < TotalMax[w], NEW i \in Drawn(w, a)
  PROVE  Raise(a, i) \in [0 .. 6 -> Nat] /\ Fits(w, Raise(a, i))
  <1>0. i \in 0 .. 6 /\ HasRoom(w, a, i)
    BY DEF Drawn
  <1>1. Swap(i) \in 0 .. 6 /\ a[Swap(i)] \in Nat /\ (a[Swap(i)] + 1) % 16 \in Nat
    BY <1>0 DEF Swap
  <1>2. Raise(a, i) \in [0 .. 6 -> Nat]
    BY <1>1 DEF Raise
  <1>3. CASE i = 6
    <2>1. GetEnhanceLevel(a) = Finished - 1 /\ Cap[w][6] > 0
      BY <1>3 DEF Drawn, HasRoom
    <2>2. TotalMax[w] >= Finished /\ Finished \in Nat /\ TotalMax[w] \in Nat
      BY <2>1, TableAssumption
    <2>3. \A j \in 0 .. 5 : Raise(a, i)[j] = a[j]
      BY <1>3 DEF Raise, Swap
    <2>4. \A j \in 0 .. 5 : Swap(j) \in 0 .. 5
      BY DEF Swap
    <2>5. GetEnhanceLevel(Raise(a, i)) <= GetEnhanceLevel(a) + 1
      BY <1>2, <2>3 DEF GetEnhanceLevel
    <2>6. GetEnhanceLevel(Raise(a, i)) <= TotalMax[w]
      BY <1>2, <2>1, <2>2, <2>5, LevelIsNat
    <2> QED
      BY <1>2, <2>3, <2>4, <2>6 DEF Fits
  <1>4. CASE i \in 0 .. 5
    <2>1. a[Swap(i)] < Cap[w][i] /\ Cap[w][i] \in 0 .. 15 /\ TotalMax[w] \in Nat
      BY <1>0, <1>4, TableAssumption DEF HasRoom
    <2>2. (a[Swap(i)] + 1) % 16 = a[Swap(i)] + 1
      BY <1>1, <2>1
    <2>3. Raise(a, i) = [a EXCEPT ![Swap(i)] = a[Swap(i)] + 1]
      BY <2>2 DEF Raise
    <2>4. \A j \in 0 .. 5 : j # i => Swap(j) # Swap(i) /\ Swap(j) \in 0 .. 6
      BY <1>4 DEF Swap
    <2>5. \A j \in 0 .. 5 : Raise(a, i)[Swap(j)] <= Cap[w][j]
      BY <1>1, <1>2, <2>1, <2>3, <2>4 DEF Fits
    <2>6. Swap(i) \in 0 .. 5
      BY <1>4 DEF Swap
    <2>7. GetEnhanceLevel(Raise(a, i)) = GetEnhanceLevel(a) + 1
      BY <1>2, <2>3, <2>6 DEF GetEnhanceLevel
    <2>8. GetEnhanceLevel(Raise(a, i)) <= TotalMax[w]
      BY <2>1, <2>7, LevelIsNat
    <2> QED
      BY <1>2, <2>5, <2>8 DEF Fits
  <1> QED
    BY <1>0, <1>3, <1>4

\* An item with a level to go has an attribute that can be drawn.
LEMMA DrawPossible ==
  ASSUME NEW w \in Reinforceable, NEW a \in [0 .. 6 -> Nat], Fits(w, a),
         GetEnhanceLevel(a) < TotalMax[w], GetEnhanceLevel(a) < Finished
  PROVE  Drawn(w, a) # {}
  <1> DEFINE c == Cap[w]
  <1> SUFFICES ASSUME Drawn(w, a) = {} PROVE FALSE
    OBVIOUS
  <1>1. \A i \in 0 .. 5 : ~HasRoom(w, a, i)
    BY DEF Drawn
  <1>2. ~(GetEnhanceLevel(a) = Finished - 1 /\ HasRoom(w, a, 6))
    BY DEF Drawn
  <1>3. /\ c[0] \in Nat /\ c[1] \in Nat /\ c[2] \in Nat /\ c[3] \in Nat /\ c[4] \in Nat
        /\ c[5] \in Nat /\ c[6] \in Nat /\ TotalMax[w] \in Nat /\ Finished \in Nat
        /\ c[0] + c[1] + c[2] + c[3] + c[4] + c[5] + (IF c[6] > 0 THEN 1 ELSE 0) >= TotalMax[w]
        /\ c[6] > 0 => TotalMax[w] >= Finished
    BY TableAssumption
  <1>4. /\ a[1] >= c[0] /\ a[0] >= c[1] /\ a[2] >= c[2]
        /\ a[3] >= c[3] /\ a[4] >= c[4] /\ a[5] >= c[5]
    BY <1>1, <1>3 DEF HasRoom, Swap
  <1>5. c[6] > 0 => (a[6] = 0 => HasRoom(w, a, 6))
    BY <1>3 DEF HasRoom, Swap
  <1>6. /\ a[0] \in Nat /\ a[1] \in Nat /\ a[2] \in Nat /\ a[3] \in Nat /\ a[4] \in Nat
        /\ a[5] \in Nat /\ a[6] \in Nat
    OBVIOUS
  <1> HIDE DEF c
  <1>7. CASE c[6] > 0 /\ a[6] = 0
    <2>1. GetEnhanceLevel(a) + 1 >= TotalMax[w]
      BY <1>3, <1>4, <1>6, <1>7 DEF GetEnhanceLevel
    <2>2. GetEnhanceLevel(a) + 1 >= Finished
      BY <1>3, <1>7, <2>1, LevelIsNat
    <2>3. GetEnhanceLevel(a) = Finished - 1
      BY <1>3, <2>2, LevelIsNat
    <2> QED
      BY <1>2, <1>5, <1>7, <2>3
  <1>8. CASE ~(c[6] > 0 /\ a[6] = 0)
    <2>1. GetEnhanceLevel(a) >= TotalMax[w]
      BY <1>3, <1>4, <1>6, <1>8 DEF GetEnhanceLevel
    <2> QED
      BY <1>3, <2>1, LevelIsNat
  <1> QED
    BY <1>7, <1>8

-----------------------------------------------------------------------------
(* Rows *)

\* A new item, and a free row, are rows.
LEMMA NewIsRow ==
  ASSUME NEW id, NEW n
  PROVE  Row(New(id, n)) /\ New(id, n).id = id
  <1>1. DOMAIN New(id, n) = Columns /\ New(id, n).attr = Plain /\ New(id, n).id = id
    BY DEF New, Columns
  <1>2. Plain \in [0 .. 6 -> Nat]
    BY DEF Plain
  <1> QED
    BY <1>1, <1>2, PlainFits DEF Row

\* Writing a row keeps the table.
LEMMA WriteRow ==
  ASSUME RowsOf(bag), NEW s, NEW r, Row(r)
  PROVE  RowsOf(Write(s, r))
  BY DEF RowsOf, Write

\* Using an item up changes no attribute, and each row keeps its item or loses it.
LEMMA UseKeeps ==
  ASSUME RowsOf(bag), NEW c
  PROVE  /\ RowsOf(OnItemUse(c))
         /\ \A s \in Slot : OnItemUse(c)[s].id \in {bag[s].id, None}
  <1>1. Row(FreeRow) /\ FreeRow.id = None
    BY NewIsRow DEF FreeRow
  <1>2. CASE OnItemUse(c) = bag
    BY <1>2
  <1>3. CASE OnItemUse(c) = Write(c.slot, FreeRow)
    BY <1>1, <1>3, WriteRow DEF Write, RowsOf
  <1>4. CASE OnItemUse(c) = [bag EXCEPT ![c.slot].count = c.row.count - 1]
    <2> SUFFICES ASSUME c.slot \in Slot
        PROVE  RowsOf(OnItemUse(c)) /\ \A s \in Slot : OnItemUse(c)[s].id \in {bag[s].id, None}
      BY <1>4 DEF RowsOf
    <2> DEFINE r == [bag[c.slot] EXCEPT !.count = c.row.count - 1]
    <2>1. OnItemUse(c) = Write(c.slot, r)
      BY <1>4 DEF Write
    <2>2. DOMAIN r = Columns /\ r.id = bag[c.slot].id /\ r.attr = bag[c.slot].attr
      BY DEF RowsOf, Row, Columns
    <2>3. Row(r)
      BY <2>2 DEF RowsOf, Row
    <2> HIDE DEF r
    <2> QED
      BY <2>1, <2>2, <2>3, WriteRow DEF Write, RowsOf
  <1> QED
    BY <1>2, <1>3, <1>4 DEF OnItemUse

\* Writing attributes that fit keeps the table.
LEMMA ResultKeeps ==
  ASSUME RowsOf(bag), NEW s \in Slot, NEW r, Row(r), bag[s].id \in {r.id, None}, NEW l, NEW e
  PROVE  RowsOf([bag EXCEPT ![s].level = l, ![s].exp = e, ![s].attr = r.attr])
  <1> DEFINE q == [bag[s] EXCEPT !.level = l, !.exp = e, !.attr = r.attr]
  <1>1. DOMAIN q = Columns /\ q.id = bag[s].id /\ q.attr = r.attr
    BY DEF RowsOf, Row, Columns
  <1>2. Row(q)
    BY <1>1, NoneAssumption, ReinforceableAssumption DEF Row
  <1>3. [bag EXCEPT ![s].level = l, ![s].exp = e, ![s].attr = r.attr] = Write(s, q)
    BY DEF Write, RowsOf
  <1> QED
    BY <1>2, <1>3, WriteRow

-----------------------------------------------------------------------------
(* The steps *)

LEMMA InitTableInv == GamesInit => TableInv
  <1> SUFFICES ASSUME GamesInit PROVE TableInv
    OBVIOUS
  <1>1. DOMAIN bag = Slot /\ \A s \in Slot : bag[s] = New(bag[s].id, bag[s].count)
    BY StockAssumption DEF GamesInit, Init
  <1>2. RowsOf(bag)
    BY <1>1, NewIsRow DEF RowsOf
  <1>3. CallOf(call, bag)
    BY DEF GamesInit, Init, Idle, CallOf
  <1> QED
    BY <1>2, <1>3 DEF TableInv

\* A handler that goes on with its copy after each row kept its item or lost it.
LEMMA CopyKept ==
  ASSUME NEW t, CopyOf(t, bag), NEW b,
         \A s \in Slot : b[s].id \in {bag[s].id, None}
  PROVE  CopyOf(t, b)
  BY DEF CopyOf

LEMMA RequestTableInv ==
  ASSUME TableInv, Request
  PROVE  TableInv'
  <1>1. RowsOf(bag)
    BY DEF TableInv
  <1>2. ASSUME NEW s \in Owned, NEW q, Enhance(s, q)
        PROVE  TableInv'
    <2>1. bag' = bag /\ s \in Slot /\ bag[s].id \in Reinforceable
      BY <1>2 DEF Enhance, Owned
    <2>2. CopyOf(Copy(s), bag)
      BY <1>1, <2>1 DEF CopyOf, Copy, RowsOf
    <2>3. ToGo(Copy(s).row)
      BY <1>2 DEF Enhance, Copy, ToGo
    <2>4. CallOf(call', bag)
      <3>1. CASE q = <<>>
        <4>1. call' = [op |-> "roll", target |-> Copy(s)]
          BY <1>2, <3>1 DEF Enhance
        <4> QED
          BY <2>2, <2>3, <4>1 DEF CallOf
      <3>2. CASE q # <<>>
        <4>1. call' = [op |-> "insert", target |-> Copy(s),
                       use |-> [k \in DOMAIN q |-> Copy(q[k])], total |-> 0]
          BY <1>2, <3>2 DEF Enhance
        <4> QED
          BY <2>2, <2>3, <4>1 DEF CallOf
      <3> QED
        BY <3>1, <3>2
    <2> QED
      BY <1>1, <2>1, <2>4 DEF TableInv
  <1>3. ASSUME NEW s \in Owned, NEW m \in Owned, Decrease(s, m)
        PROVE  TableInv'
    <2> DEFINE r == bag[s]
    <2>1. s \in Slot /\ r.id \in Reinforceable /\ Row(r) /\ Fits(r.id, r.attr)
      BY <1>1, <1>3 DEF Decrease, Owned, RowsOf, Row
    <2>2. PICK c \in Cleaned(r, bag[m].id) :
            call' = [op |-> "decrease", target |-> [slot |-> s, row |-> c]]
      BY <1>3 DEF Decrease
    <2> DEFINE Lowered == /\ DOMAIN c = Columns /\ c.id = r.id /\ c.attr \in [0 .. 6 -> Nat]
                          /\ \A i \in 0 .. 6 : c.attr[i] <= r.attr[i]
    <2>3. Lowered
      <3> HIDE DEF r
      <3>1. DOMAIN r = Columns /\ r.attr \in [0 .. 6 -> Nat]
        BY <2>1 DEF Row
      <3>2. CASE c = [r EXCEPT !.level = 0]
        BY <3>1, <3>2 DEF Columns
      <3>3. ASSUME NEW i,
                   \/ c = [r EXCEPT !.attr[i] = 0]
                   \/ \E l : c = [r EXCEPT !.level = l, !.attr[i] = 0]
            PROVE  Lowered
        <4> DEFINE a == [r.attr EXCEPT ![i] = 0]
        <4> DEFINE b == r.attr
        <4>0. b \in [0 .. 6 -> Nat] /\ a = [b EXCEPT ![i] = 0]
          BY <3>1
        <4>1. a \in [0 .. 6 -> Nat] /\ \A j \in 0 .. 6 : a[j] <= b[j]
          <5> HIDE DEF a, b
          <5>1. \A j \in 0 .. 6 : a[j] = 0 \/ a[j] = b[j]
            BY <4>0
          <5>2. a \in [0 .. 6 -> Nat]
            BY <4>0
          <5> QED
            BY <4>0, <5>1, <5>2
        <4>2. DOMAIN c = Columns /\ c.id = r.id /\ c.attr = a
          BY <3>1, <3>3 DEF Columns
        <4> HIDE DEF a
        <4> QED
          BY <4>1, <4>2
      <3>4. CASE bag[m].id = ENH_ANTI
        <4>1. c = [r EXCEPT !.level = 0] \/ \E i : c = [r EXCEPT !.attr[i] = 0]
          BY <3>4 DEF Cleaned
        <4> HIDE DEF Lowered
        <4> QED
          BY <3>2, <3>3, <4>1
      <3>5. CASE bag[m].id # ENH_ANTI /\ bag[m].id = ENH_ANIT1GRADE
        <4>1. PICK i : c = [r EXCEPT !.attr[i] = 0]
          BY <3>5 DEF Cleaned
        <4> QED
          BY <3>3, <4>1
      <3>6. CASE bag[m].id # ENH_ANTI /\ bag[m].id # ENH_ANIT1GRADE
        <4> DEFINE i == Clears[bag[m].id]
        <4>1. c = [r EXCEPT !.level = @ - r.attr[i], !.attr[i] = 0]
          BY <3>6 DEF Cleaned
        <4> QED
          BY <3>3, <4>1
      <3> QED
        BY <3>4, <3>5, <3>6
    <2>4. Row(c)
      BY <2>1, <2>3, LowerFits DEF Row
    <2>5. bag' \in {bag, OnItemUse(Copy(m))}
      BY <1>3 DEF Decrease, Store
    <2>6. RowsOf(bag') /\ \A z \in Slot : bag'[z].id \in {bag[z].id, None}
      BY <1>1, <2>5, UseKeeps
    <2>7. CopyOf([slot |-> s, row |-> c], bag')
      BY <2>1, <2>3, <2>4, <2>6 DEF CopyOf
    <2> QED
      BY <2>2, <2>6, <2>7 DEF TableInv, CallOf
  <1>4. ASSUME call = Idle, call' = Idle \/ call'.op = "applied",
               NEW s \in Slot, NEW r, bag' = bag \/ bag' = Write(s, r),
               DOMAIN r = Columns, r.id = bag[s].id, r.attr = bag[s].attr
        PROVE  TableInv'
    <2>1. Row(r)
      BY <1>1, <1>4 DEF RowsOf, Row
    <2>2. RowsOf(bag')
      BY <1>1, <1>4, <2>1, WriteRow
    <2>3. CallOf(call', bag')
      BY <1>4 DEF CallOf, Idle
    <2> QED
      BY <2>2, <2>3 DEF TableInv
  <1>5. ASSUME NEW s \in Owned, NEW p \in Owned, OnWeaponPaint(s, p)
        PROVE  TableInv'
    <2> DEFINE r == [bag[s] EXCEPT !.paint = bag[p].id, !.paints = @ \cup {bag[p].id}]
    <2>1. s \in Slot
      BY DEF Owned
    <2>2. DOMAIN r = Columns /\ r.id = bag[s].id /\ r.attr = bag[s].attr
      BY <1>1, <2>1 DEF RowsOf, Row, Columns
    <2>3. [bag EXCEPT ![s].paint = bag[p].id, ![s].paints = @ \cup {bag[p].id}] = Write(s, r)
      BY <1>1, <2>1 DEF RowsOf, Write
    <2> HIDE DEF r
    <2> QED
      BY <1>4, <1>5, <2>1, <2>2, <2>3 DEF OnWeaponPaint, Store
  <1>6. ASSUME NEW s \in Owned, NEW id \in Item, OnWeaponPaintSwitch(s, id)
        PROVE  TableInv'
    <2> DEFINE v == IF id = Remover THEN None ELSE id
               r == [bag[s] EXCEPT !.paint = v]
    <2>1. s \in Slot
      BY DEF Owned
    <2>2. DOMAIN r = Columns /\ r.id = bag[s].id /\ r.attr = bag[s].attr
      BY <1>1, <2>1 DEF RowsOf, Row, Columns
    <2>3. [bag EXCEPT ![s].paint = v] = Write(s, r)
      BY <1>1, <2>1 DEF RowsOf, Write
    <2> HIDE DEF r
    <2> QED
      BY <1>4, <1>6, <2>1, <2>2, <2>3 DEF OnWeaponPaintSwitch, Store
  <1>7. ASSUME NEW s \in Slot, NEW k, NEW v, call = Idle,
               bag' = bag \/ bag' = [bag EXCEPT ![s].part[k] = v],
               call' = Idle \/ call'.op = "applied"
        PROVE  TableInv'
    <2> DEFINE r == [bag[s] EXCEPT !.part[k] = v]
    <2>1. DOMAIN r = Columns /\ r.id = bag[s].id /\ r.attr = bag[s].attr
      BY <1>1 DEF RowsOf, Row, Columns
    <2>2. [bag EXCEPT ![s].part[k] = v] = Write(s, r)
      BY <1>1 DEF RowsOf, Write
    <2> HIDE DEF r
    <2> QED
      BY <1>4, <1>7, <2>1, <2>2
  <1>8. ASSUME NEW s \in Owned, NEW p \in Owned, NEW k \in 1 .. 2, OnPartEquip(s, p, k)
        PROVE  TableInv'
    BY <1>7, <1>8 DEF OnPartEquip, Store, Owned
  <1>9. ASSUME NEW s \in Owned, NEW k \in 1 .. 2, OnPartRemove(s, k)
        PROVE  TableInv'
    BY <1>7, <1>9 DEF OnPartRemove, Store, Owned
  <1>10. ASSUME NEW s \in Owned, OnLockItem(s)
         PROVE  TableInv'
    <2> DEFINE r == [bag[s] EXCEPT !.lock = ~@]
    <2>1. s \in Slot
      BY DEF Owned
    <2>2. DOMAIN r = Columns /\ r.id = bag[s].id /\ r.attr = bag[s].attr
      BY <1>1, <2>1 DEF RowsOf, Row, Columns
    <2>3. [bag EXCEPT ![s].lock = ~@] = Write(s, r)
      BY <1>1, <2>1 DEF RowsOf, Write
    <2> HIDE DEF r
    <2> QED
      BY <1>4, <1>10, <2>1, <2>2, <2>3 DEF OnLockItem, Store
  <1> QED
    BY <1>2, <1>3, <1>5, <1>6, <1>8, <1>9, <1>10 DEF Request

LEMMA StepTableInv ==
  ASSUME TableInv, Step
  PROVE  TableInv'
  <1>1. RowsOf(bag) /\ CallOf(call, bag)
    BY DEF TableInv
  <1>2. CASE UseMaterial
    <2> DEFINE t == OnItemUse(Head(call.use))
    <2>1. call.op = "insert" /\ bag' \in {bag, t}
      BY <1>2 DEF UseMaterial, Store
    <2>2. /\ call'.op = "insert" /\ call'.target = call.target
          /\ DOMAIN call' = {"op", "target", "use", "total"}
      BY <1>1, <1>2, <2>1 DEF UseMaterial, CallOf
    <2>3. RowsOf(bag') /\ \A z \in Slot : bag'[z].id \in {bag[z].id, None}
      BY <1>1, <2>1, UseKeeps
    <2>4. CopyOf(call.target, bag') /\ ToGo(call.target.row)
      BY <1>1, <2>1, <2>3, CopyKept DEF CallOf
    <2> HIDE DEF t
    <2> QED
      BY <2>2, <2>3, <2>4 DEF TableInv, CallOf
  <1>3. CASE StoreExp
    <2>1. call.op = "insert" /\ CopyOf(call.target, bag) /\ ToGo(call.target.row)
      BY <1>1, <1>3 DEF StoreExp, CallOf
    <2> DEFINE t == call.target
    <2>2. PICK e : /\ bag' = bag \/ bag' = [bag EXCEPT ![t.slot].exp = e]
                   /\ call' = [op |-> "roll", target |-> [t EXCEPT !.row.exp = e]]
      BY <1>3 DEF StoreExp, Store
    <2> DEFINE r == [bag[t.slot] EXCEPT !.exp = e]
               u == [t EXCEPT !.row.exp = e]
    <2>3. /\ DOMAIN u = {"slot", "row"} /\ u.slot = t.slot /\ u.row = [t.row EXCEPT !.exp = e]
      BY <2>1 DEF CopyOf
    <2>4. /\ DOMAIN u.row = Columns /\ u.row.id = t.row.id /\ u.row.attr = t.row.attr
      BY <2>1, <2>3 DEF CopyOf, Row, Columns
    <2>5. DOMAIN r = Columns /\ r.id = bag[t.slot].id /\ r.attr = bag[t.slot].attr
      BY <1>1, <2>1 DEF CopyOf, RowsOf, Row, Columns
    <2>6. [bag EXCEPT ![t.slot].exp = e] = Write(t.slot, r)
      BY <1>1, <2>1 DEF CopyOf, RowsOf, Write
    <2> HIDE DEF r, u, t
    <2>7. Row(r)
      BY <1>1, <2>1, <2>5 DEF CopyOf, RowsOf, Row, t
    <2>8. RowsOf(bag') /\ \A z \in Slot : bag'[z].id = bag[z].id
      BY <1>1, <2>2, <2>5, <2>6, <2>7, WriteRow DEF Write, RowsOf, u
    <2>9. CopyOf(u, bag') /\ ToGo(u.row)
      BY <2>1, <2>3, <2>4, <2>8 DEF CopyOf, Row, ToGo, t
    <2> QED
      BY <2>2, <2>8, <2>9 DEF TableInv, CallOf, u
  <1>4. CASE Roll
    <2> DEFINE t == call.target
               r == t.row
    <2>1. CopyOf(t, bag) /\ ToGo(r) /\ call' = Idle
      BY <1>1, <1>4 DEF Roll, CallOf
    <2>2. /\ t.slot \in Slot /\ r.id \in Reinforceable /\ Row(r) /\ Fits(r.id, r.attr)
          /\ DOMAIN r = Columns /\ r.attr \in [0 .. 6 -> Nat]
          /\ GetEnhanceLevel(r.attr) < TotalMax[r.id] /\ bag[t.slot].id \in {r.id, None}
      BY <2>1 DEF CopyOf, Row, ToGo
    <2>3. PICK q : /\ StoreResult(q)
                   /\ \/ \E i \in Drawn(r.id, r.attr) :
                            q = [r EXCEPT !.level = @ + 1, !.exp = 0, !.attr = Raise(@, i)]
                      \/ q = [r EXCEPT !.exp = 0]
      BY <1>4 DEF Roll
    <2>4. Row(q) /\ q.id = r.id
      <3>1. CASE q = [r EXCEPT !.exp = 0]
        BY <2>2, <3>1 DEF Row, Columns
      <3>2. ASSUME NEW i \in Drawn(r.id, r.attr),
                   q = [r EXCEPT !.level = @ + 1, !.exp = 0, !.attr = Raise(@, i)]
            PROVE  Row(q) /\ q.id = r.id
        <4> HIDE DEF r
        <4>1. DOMAIN q = Columns /\ q.id = r.id /\ q.attr = Raise(r.attr, i)
          BY <2>2, <3>2 DEF Columns
        <4>2. q.attr \in [0 .. 6 -> Nat] /\ Fits(r.id, q.attr)
          BY <2>2, <4>1, RaiseFits
        <4> QED
          BY <4>1, <4>2 DEF Row
      <3> QED
        BY <2>3, <3>1, <3>2
    <2>5. RowsOf(bag')
      <3>1. \/ bag' = bag
            \/ bag' = [bag EXCEPT ![t.slot].level = q.level, ![t.slot].exp = q.exp,
                                  ![t.slot].attr = q.attr]
        BY <2>3 DEF StoreResult, Store
      <3> HIDE DEF t, r
      <3>2. RowsOf([bag EXCEPT ![t.slot].level = q.level, ![t.slot].exp = q.exp,
                               ![t.slot].attr = q.attr])
        BY <1>1, <2>2, <2>4, ResultKeeps
      <3> QED
        BY <1>1, <3>1, <3>2
    <2> QED
      BY <2>1, <2>5 DEF TableInv, CallOf, Idle
  <1>5. CASE StoreDecrease
    <2> DEFINE t == call.target
               q == t.row
    <2>1. CopyOf(t, bag) /\ call' = Idle
      BY <1>1, <1>5 DEF StoreDecrease, CallOf
    <2>2. \/ bag' = bag
          \/ bag' = [bag EXCEPT ![t.slot].level = q.level, ![t.slot].exp = q.exp,
                                ![t.slot].attr = q.attr]
      BY <1>5 DEF StoreDecrease, StoreResult, Store
    <2>3. t.slot \in Slot /\ Row(q) /\ bag[t.slot].id \in {q.id, None}
      BY <2>1 DEF CopyOf
    <2> HIDE DEF t, q
    <2>4. RowsOf([bag EXCEPT ![t.slot].level = q.level, ![t.slot].exp = q.exp,
                             ![t.slot].attr = q.attr])
      BY <1>1, <2>3, ResultKeeps
    <2>5. RowsOf(bag')
      BY <1>1, <2>2, <2>4
    <2> QED
      BY <2>1, <2>5 DEF TableInv, CallOf, Idle
  <1>6. CASE UseApplied
    <2>1. bag' \in {bag, OnItemUse(call.use)} /\ call' = Idle
      BY <1>6 DEF UseApplied, Store
    <2> QED
      BY <1>1, <2>1, UseKeeps DEF TableInv, CallOf, Idle
  <1> QED
    BY <1>2, <1>3, <1>4, <1>5, <1>6 DEF Step

\* The games bring new items, and nothing else of them is in the table.
LEMMA AddItemKeeps ==
  ASSUME RowsOf(bag), NEW id, AddItem(id)
  PROVE  RowsOf(bag')
  <1>1. CASE bag' = bag
    BY <1>1
  <1>2. ASSUME NEW s, bag' = Write(s, New(id, 1)) PROVE RowsOf(bag')
    BY <1>2, NewIsRow, WriteRow
  <1> QED
    BY <1>1, <1>2 DEF AddItem, Store

LEMMA GamesTableInv ==
  ASSUME TableInv, GamesNext
  PROVE  TableInv'
  <1>1. RowsOf(bag) /\ CallOf(call, bag)
    BY DEF TableInv
  <1>2. CASE OnKillEvent
    <2>1. RowsOf(bag') /\ call = Idle /\ call' = call
      BY <1>1, <1>2, AddItemKeeps DEF OnKillEvent
    <2> QED
      BY <2>1 DEF TableInv, CallOf, Idle
  <1>3. ASSUME NEW w \in Word, NEW k \in Positions(w) \cup {0}, NEW c \in Char,
               SetCharacter(w, k, c)
        PROVE  TableInv'
    <2>1. bag' = bag /\ (call' = Idle \/ call' = [op |-> "weapon", word |-> w])
      BY <1>3 DEF SetCharacter
    <2> QED
      BY <1>1, <2>1 DEF TableInv, CallOf, Idle
  <1>4. CASE GiveWeapon
    BY <1>1, <1>4, AddItemKeeps DEF GiveWeapon, TableInv, CallOf, Idle
  <1>5. CASE OnBingoUpdate
    BY <1>1, <1>5 DEF OnBingoUpdate, TableInv, CallOf
  <1>6. CASE InsertSlot \/ InsertPrize
    <2>1. /\ bag' = bag /\ call'.op = call.op /\ DOMAIN call' = {"op", "todo"}
          /\ call.op \in {"slots", "prizes"}
      BY <1>1, <1>6 DEF InsertSlot, InsertPrize, CallOf
    <2> QED
      BY <1>1, <2>1 DEF TableInv, CallOf
  <1>7. CASE ClearPrizes
    BY <1>1, <1>7 DEF ClearPrizes, TableInv, CallOf, Idle
  <1>8. CASE StartBingo
    BY <1>1, <1>8 DEF StartBingo, TableInv, CallOf, Idle
  <1> QED
    BY <1>2, <1>3, <1>4, <1>5, <1>6, <1>7, <1>8 DEF GamesNext

LEMMA NextTableInv ==
  ASSUME TableInv, [Next]_vars
  PROVE  TableInv'
  <1>1. CASE Crash
    BY <1>1 DEF Crash, TableInv, CallOf, Idle
  <1>2. CASE UNCHANGED vars
    BY <1>2 DEF vars, TableInv
  <1> QED
    BY <1>1, <1>2, RequestTableInv, StepTableInv, GamesTableInv DEF Next

LEMMA SpecTableInv == Spec => []TableInv
  BY InitTableInv, NextTableInv, PTL DEF Spec

-----------------------------------------------------------------------------
(* Where handlers go *)

\* A handler of Enhancement goes on with steps of Enhancement only.
LEMMA RequestOp ==
  ASSUME Request
  PROVE  call'.op \in {"idle", "insert", "roll", "decrease", "applied"}
  <1>1. ASSUME NEW s \in Owned, NEW q, Enhance(s, q) PROVE call'.op \in {"insert", "roll"}
    <2>1. CASE q = <<>>
      BY <1>1, <2>1 DEF Enhance
    <2>2. CASE q # <<>>
      BY <1>1, <2>2 DEF Enhance
    <2> QED
      BY <2>1, <2>2
  <1>2. ASSUME NEW s \in Owned, NEW m \in Owned, Decrease(s, m) PROVE call'.op = "decrease"
    BY <1>2 DEF Decrease
  <1>3. ASSUME NEW s \in Owned, NEW p \in Owned,
               OnWeaponPaint(s, p) \/ \E k \in 1 .. 2 : OnPartEquip(s, p, k)
        PROVE  call'.op = "applied"
    <2>1. call' = [op |-> "applied", use |-> Copy(p)]
      BY <1>3 DEF OnWeaponPaint, OnPartEquip
    <2> QED
      BY <2>1
  <1>4. CASE call = Idle /\ call' = call
    BY <1>4 DEF Idle
  <1> QED
    BY <1>1, <1>2, <1>3, <1>4 DEF Request, OnWeaponPaintSwitch, OnPartRemove, OnLockItem

LEMMA StepOp ==
  ASSUME Step
  PROVE  call'.op \in {"idle", "insert", "roll"}
  <1>1. CASE UseMaterial
    <2>1. call.op = "insert" /\ \E u, n : call' = [call EXCEPT !.use = u, !.total = n]
      BY <1>1 DEF UseMaterial
    <2> QED
      BY <2>1
  <1>2. CASE StoreExp
    BY <1>2 DEF StoreExp
  <1>3. CASE Roll \/ StoreDecrease \/ UseApplied
    <2>1. call' = Idle
      BY <1>3 DEF Roll, StoreDecrease, UseApplied
    <2> QED
      BY <2>1 DEF Idle
  <1> QED
    BY <1>1, <1>2, <1>3 DEF Step

-----------------------------------------------------------------------------
(* Letters *)


\* Numbers from one on: one more, and one less.
LEMMA OneMore ==
  ASSUME NEW n \in Nat
  PROVE  1 .. (n + 1) = (1 .. n) \cup {n + 1} /\ n + 1 \notin 1 .. n
  OBVIOUS

\* A letter that is obtained is in hand, or pays for one that was owed.
LEMMA LetterGained ==
  ASSUME \A d \in DOMAIN count : count[d] \in Int, NEW c,
         IsFiniteSet(InHand), IsFiniteSet(Owed), count' = Added(c)
  PROVE  /\ \A d \in DOMAIN count' : count'[d] \in Int
         /\ IsFiniteSet(InHand') /\ IsFiniteSet(Owed')
         /\ Cardinality(InHand') - Cardinality(Owed') = Cardinality(InHand) - Cardinality(Owed) + 1
  <1> DEFINE n == Held(c)
             h == [d \in DOMAIN count |-> 1 .. count[d]]
             hh == [d \in DOMAIN count' |-> 1 .. count'[d]]
             o == [d \in DOMAIN count |-> 1 .. -count[d]]
             oo == [d \in DOMAIN count' |-> 1 .. -count'[d]]
  <1>0. InHand = Pairs(h) /\ InHand' = Pairs(hh) /\ Owed = Pairs(o) /\ Owed' = Pairs(oo)
    BY DEF InHand, Owed
  <1>1. /\ n \in Int /\ DOMAIN count' = DOMAIN count \cup {c} /\ count'[c] = n + 1
        /\ \A d \in DOMAIN count : d # c => count'[d] = count[d]
        /\ c \in DOMAIN count => count[c] = n
        /\ c \notin DOMAIN count => n = 0
    BY DEF Added, Held
  <1> HIDE DEF n
  <1>2. \A d \in DOMAIN count' : count'[d] \in Int
    BY <1>1
  <1>3. \A d : d # c => At(hh, d) = At(h, d) /\ At(oo, d) = At(o, d)
    BY <1>1 DEF At
  <1>4. At(hh, c) = 1 .. (n + 1) /\ At(oo, c) = 1 .. -(n + 1)
    BY <1>1 DEF At
  <1>5. At(h, c) = 1 .. n /\ At(o, c) = 1 .. -n
    BY <1>1 DEF At
  <1> HIDE DEF h, hh, o, oo
  <1>6. IsFiniteSet(Pairs(h)) /\ IsFiniteSet(Pairs(o))
    BY <1>0
  <1>7. CASE n >= 0
    <2>1. At(hh, c) = At(h, c) \cup {n + 1} /\ n + 1 \notin At(h, c)
      BY <1>1, <1>4, <1>5, <1>7, OneMore
    <2>2. At(oo, c) = At(o, c)
      BY <1>1, <1>4, <1>5, <1>7
    <2>3. IsFiniteSet(Pairs(hh)) /\ Cardinality(Pairs(hh)) = Cardinality(Pairs(h)) + 1
      BY <1>3, <1>6, <2>1, PairGained
    <2>4. Pairs(oo) = Pairs(o)
      BY <1>3, <2>2, SamePairs
    <2>5. Cardinality(Pairs(h)) \in Nat /\ Cardinality(Pairs(o)) \in Nat
      BY <1>6, FS_CardinalityType
    <2> QED
      BY <1>0, <1>2, <1>6, <2>3, <2>4, <2>5
  <1>8. CASE n < 0
    <2>1. At(hh, c) = At(h, c)
      BY <1>1, <1>4, <1>5, <1>8
    <2>2. At(oo, c) = At(o, c) \ {-n} /\ -n \in At(o, c)
      BY <1>1, <1>4, <1>5, <1>8
    <2>3. IsFiniteSet(Pairs(oo)) /\ Cardinality(Pairs(oo)) = Cardinality(Pairs(o)) - 1
      BY <1>3, <1>6, <2>2, PairLost
    <2>4. Pairs(hh) = Pairs(h)
      BY <1>3, <2>1, SamePairs
    <2>5. Cardinality(Pairs(h)) \in Nat /\ Cardinality(Pairs(o)) \in Nat
      BY <1>6, FS_CardinalityType
    <2> QED
      BY <1>0, <1>2, <1>6, <2>3, <2>4, <2>5
  <1> QED
    BY <1>1, <1>7, <1>8

\* A letter that is taken leaves the hand, or is owed from then on.
LEMMA LetterTaken ==
  ASSUME \A d \in DOMAIN count : count[d] \in Int, NEW c \in DOMAIN count,
         IsFiniteSet(InHand), IsFiniteSet(Owed), count' = [count EXCEPT ![c] = @ - 1]
  PROVE  /\ \A d \in DOMAIN count' : count'[d] \in Int
         /\ IsFiniteSet(InHand') /\ IsFiniteSet(Owed')
         /\ Cardinality(InHand') - Cardinality(Owed') = Cardinality(InHand) - Cardinality(Owed) - 1
  <1> DEFINE n == count[c]
             h == [d \in DOMAIN count |-> 1 .. count[d]]
             hh == [d \in DOMAIN count' |-> 1 .. count'[d]]
             o == [d \in DOMAIN count |-> 1 .. -count[d]]
             oo == [d \in DOMAIN count' |-> 1 .. -count'[d]]
  <1>0. InHand = Pairs(h) /\ InHand' = Pairs(hh) /\ Owed = Pairs(o) /\ Owed' = Pairs(oo)
    BY DEF InHand, Owed
  <1>1. /\ n \in Int /\ DOMAIN count' = DOMAIN count /\ count'[c] = n - 1
        /\ \A d \in DOMAIN count : d # c => count'[d] = count[d]
    OBVIOUS
  <1>2. \A d \in DOMAIN count' : count'[d] \in Int
    BY <1>1
  <1>3. \A d : d # c => At(hh, d) = At(h, d) /\ At(oo, d) = At(o, d)
    BY <1>1 DEF At
  <1>4. At(hh, c) = 1 .. (n - 1) /\ At(oo, c) = 1 .. -(n - 1)
    BY <1>1 DEF At
  <1>5. At(h, c) = 1 .. n /\ At(o, c) = 1 .. -n
    BY DEF At
  <1> HIDE DEF n, h, hh, o, oo
  <1>6. IsFiniteSet(Pairs(h)) /\ IsFiniteSet(Pairs(o))
    BY <1>0
  <1>7. CASE n > 0
    <2>1. At(hh, c) = At(h, c) \ {n} /\ n \in At(h, c)
      BY <1>1, <1>4, <1>5, <1>7
    <2>2. At(oo, c) = At(o, c)
      BY <1>1, <1>4, <1>5, <1>7
    <2>3. IsFiniteSet(Pairs(hh)) /\ Cardinality(Pairs(hh)) = Cardinality(Pairs(h)) - 1
      BY <1>3, <1>6, <2>1, PairLost
    <2>4. Pairs(oo) = Pairs(o)
      BY <1>3, <2>2, SamePairs
    <2>5. Cardinality(Pairs(h)) \in Nat /\ Cardinality(Pairs(o)) \in Nat
      BY <1>6, FS_CardinalityType
    <2> QED
      BY <1>0, <1>2, <1>6, <2>3, <2>4, <2>5
  <1>8. CASE n <= 0
    <2>1. At(hh, c) = At(h, c)
      BY <1>1, <1>4, <1>5, <1>8
    <2>2. At(oo, c) = At(o, c) \cup {-n + 1} /\ -n + 1 \notin At(o, c)
      BY <1>1, <1>4, <1>5, <1>8
    <2>3. IsFiniteSet(Pairs(oo)) /\ Cardinality(Pairs(oo)) = Cardinality(Pairs(o)) + 1
      BY <1>3, <1>6, <2>2, PairGained
    <2>4. Pairs(hh) = Pairs(h)
      BY <1>3, <2>1, SamePairs
    <2>5. Cardinality(Pairs(h)) \in Nat /\ Cardinality(Pairs(o)) \in Nat
      BY <1>6, FS_CardinalityType
    <2> QED
      BY <1>0, <1>2, <1>6, <2>3, <2>4, <2>5
  <1> QED
    BY <1>1, <1>7, <1>8

-----------------------------------------------------------------------------
(* The letters *)

WordRow(w) ==
  /\ DOMAIN words[w] = {"filled", "opened"}
  /\ words[w].filled \subseteq Positions(w)
  /\ words[w].opened \in BOOLEAN
  /\ words[w].filled = Positions(w) => words[w].opened
  /\ words[w].opened => Cardinality(words[w].filled) + lost[w] >= Len(Letters[w])
  /\ lost[w] \in Nat
  /\ won[w] \in {0, 1} /\ (won[w] = 1 => words[w].opened)

\* Apart from what LettersSpent says: kills are counted, and the word whose weapon is on its
\* way is opened and has brought none.
LettersInv ==
  /\ \A c \in DOMAIN count : count[c] \in Int
  /\ kills \in Nat /\ earned \in Nat
  /\ DOMAIN words = Word /\ DOMAIN won = Word /\ DOMAIN lost = Word
  /\ \A w \in Word : WordRow(w)
  /\ call.op = "weapon" => /\ call.word \in Word
                           /\ words[call.word].opened /\ won[call.word] = 0
  /\ IsFiniteSet(InHand) /\ IsFiniteSet(Owed) /\ IsFiniteSet(Placed) /\ IsFiniteSet(Lost)
  /\ Cardinality(InHand) + Cardinality(Placed) + Cardinality(Lost) = earned + Cardinality(Owed)

\* A step that is none of the letters.
LEMMA ElsewhereLettersInv ==
  ASSUME LettersInv, count' = count, words' = words, kills' = kills, earned' = earned,
         won' = won, lost' = lost, call'.op # "weapon"
  PROVE  LettersInv'
  BY DEF LettersInv, WordRow, InHand, Owed, Placed, Lost

LEMMA KillLettersInv ==
  ASSUME LettersInv, OnKillEvent
  PROVE  LettersInv'
  <1>1. /\ call = Idle /\ call' = call /\ kills' = kills + 1
        /\ words' = words /\ won' = won /\ lost' = lost
    BY DEF OnKillEvent
  <1>2. Placed' = Placed /\ Lost' = Lost /\ \A w \in Word : WordRow(w)'
    BY <1>1 DEF Placed, Lost, WordRow, LettersInv
  <1>3. call'.op # "weapon"
    BY <1>1 DEF Idle
  <1>4. CASE count' = count /\ earned' = earned
    BY <1>1, <1>2, <1>3, <1>4 DEF LettersInv, InHand, Owed
  <1>5. ASSUME NEW c \in Char, count' = Added(c), earned' = earned + 1
        PROVE  LettersInv'
    <2>1. /\ \A d \in DOMAIN count' : count'[d] \in Int
          /\ IsFiniteSet(InHand') /\ IsFiniteSet(Owed')
          /\ Cardinality(InHand') - Cardinality(Owed') = Cardinality(InHand) - Cardinality(Owed) + 1
      BY <1>5, LetterGained DEF LettersInv
    <2>2. /\ Cardinality(InHand) \in Nat /\ Cardinality(Owed) \in Nat /\ Cardinality(Placed) \in Nat
          /\ Cardinality(InHand') \in Nat /\ Cardinality(Owed') \in Nat /\ Cardinality(Lost) \in Nat
      BY <2>1, FS_CardinalityType DEF LettersInv
    <2>3. Cardinality(InHand') + Cardinality(Placed') + Cardinality(Lost')
            = earned' + Cardinality(Owed')
      BY <1>2, <1>5, <2>1, <2>2 DEF LettersInv
    <2> QED
      BY <1>1, <1>2, <1>3, <1>5, <2>1, <2>3 DEF LettersInv
  <1> QED
    BY <1>4, <1>5 DEF OnKillEvent

\* Placing a letter; the bit is the position, or any for a slot past the end of the word.
LEMMA PlaceBit ==
  ASSUME LettersInv, NEW w \in Word, NEW k, NEW c, SetCharacter(w, k, c)
  PROVE  /\ words[w].opened = FALSE /\ Taken(c) \in DOMAIN count
         /\ count' = [count EXCEPT ![Taken(c)] = @ - 1]
         /\ lost' = IF k \in Positions(w) THEN lost ELSE [lost EXCEPT ![w] = @ + 1]
         /\ kills' = kills /\ earned' = earned /\ won' = won
         /\ \E bit \in Bits(w, k) :
              LET done == Complete(w, words[w].filled \cup {bit}) IN
              /\ bit \notin words[w].filled
              /\ words' = [words EXCEPT ![w] = [filled |-> @.filled \cup ({k} \cap Positions(w)),
                                               opened |-> done]]
              /\ call' = IF done THEN [op |-> "weapon", word |-> w] ELSE Idle
  BY DEF SetCharacter, MayPlace, LettersInv, WordRow

\* What a word is and may hold.
LEMMA WordSize ==
  ASSUME NEW w \in Word
  PROVE  /\ IsFiniteSet(Positions(w)) /\ Cardinality(Positions(w)) = Len(Letters[w])
         /\ Positions(w) # {} /\ 0 \notin Positions(w) /\ Len(Letters[w]) \in Nat
  <1>1. Letters[w] \in Seq(Char) /\ Letters[w] # <<>>
    BY LetterAssumption
  <1>2. Len(Letters[w]) \in Nat \ {0} /\ Positions(w) = 1 .. Len(Letters[w])
    BY <1>1, EmptySeq, LenProperties DEF Positions
  <1>3. 1 \in 1 .. Len(Letters[w]) /\ 0 \notin 1 .. Len(Letters[w])
    BY <1>2
  <1>4. /\ IsFiniteSet(1 .. Len(Letters[w]))
        /\ Cardinality(1 .. Len(Letters[w])) = Len(Letters[w]) - 1 + 1
    BY <1>2, FS_Interval
  <1> QED
    BY <1>2, <1>3, <1>4

\* A set that one more element makes complete is short of one at most.
LEMMA OneShort ==
  ASSUME NEW w \in Word, NEW F, F \subseteq Positions(w), NEW x, Complete(w, F \cup {x})
  PROVE  /\ Cardinality(F) + 1 >= Len(Letters[w])
         /\ Cardinality(F) \in Nat
  <1>1. IsFiniteSet(F)
    BY WordSize, FS_Subset
  <1>2. /\ IsFiniteSet(F \cup {x}) /\ Cardinality(F) \in Nat
        /\ Cardinality(F \cup {x}) \in {Cardinality(F), Cardinality(F) + 1}
    BY <1>1, FS_AddElement, FS_CardinalityType
  <1>3. Positions(w) \in SUBSET (F \cup {x})
    BY DEF Complete
  <1>4. Cardinality(Positions(w)) <= Cardinality(F \cup {x})
    BY <1>2, <1>3, FS_Subset
  <1>5. Len(Letters[w]) <= Cardinality(F \cup {x})
    BY <1>4, WordSize
  <1> QED
    BY <1>2, <1>5, WordSize

\* The row of the word, and what is in positions or lost.
LEMMA PlaceRow ==
  ASSUME LettersInv, NEW w \in Word, NEW k \in Positions(w) \cup {0}, NEW c \in Char,
         SetCharacter(w, k, c)
  PROVE  /\ WordRow(w)' /\ IsFiniteSet(Placed') /\ IsFiniteSet(Lost')
         /\ Cardinality(Placed') + Cardinality(Lost') = Cardinality(Placed) + Cardinality(Lost) + 1
  <1> DEFINE F == words[w].filled
  <1>1. /\ DOMAIN words = Word /\ DOMAIN lost = Word /\ WordRow(w) /\ lost[w] \in Nat
        /\ F \subseteq Positions(w) /\ won' = won /\ words[w].opened = FALSE
        /\ won[w] = 0 /\ F # Positions(w)
    BY PlaceBit DEF LettersInv, WordRow
  <1>2. PICK bit \in Bits(w, k) :
          LET done == Complete(w, words[w].filled \cup {bit}) IN
          /\ bit \notin words[w].filled
          /\ words' = [words EXCEPT ![w] = [filled |-> @.filled \cup ({k} \cap Positions(w)),
                                           opened |-> done]]
          /\ call' = IF done THEN [op |-> "weapon", word |-> w] ELSE Idle
    BY PlaceBit
  <1> DEFINE done == Complete(w, F \cup {bit})
             f == [v \in Word |-> words[v].filled]
             g == [v \in Word |-> words'[v].filled]
             l == [v \in Word |-> 1 .. lost[v]]
             m == [v \in Word |-> 1 .. lost'[v]]
  <1>3. /\ words'[w] = [filled |-> F \cup ({k} \cap Positions(w)), opened |-> done]
        /\ \A v \in Word : v # w => words'[v] = words[v]
        /\ done \in BOOLEAN
    BY <1>1, <1>2 DEF Complete
  <1>4. /\ Placed = Pairs(f) /\ Placed' = Pairs(g) /\ Lost = Pairs(l) /\ Lost' = Pairs(m)
        /\ IsFiniteSet(Pairs(f)) /\ IsFiniteSet(Pairs(l))
    BY DEF Placed, Lost, LettersInv
  <1>5. /\ At(f, w) = F /\ At(g, w) = F \cup ({k} \cap Positions(w))
        /\ \A v : v # w => At(g, v) = At(f, v)
    BY <1>3 DEF At
  <1>6. Cardinality(Pairs(f)) \in Nat /\ Cardinality(Pairs(l)) \in Nat
    BY <1>4, FS_CardinalityType
  <1>7. CASE k \in Positions(w)
    <2>1. lost' = lost /\ bit = k /\ {k} \cap Positions(w) = {k}
      BY <1>7, PlaceBit DEF Bits
    <2>2. done <=> F \cup {k} = Positions(w)
      BY <1>1, <1>7, <2>1 DEF Complete
    <2>3. done => Cardinality(F \cup {k}) + lost'[w] >= Len(Letters[w])
      <3>1. lost'[w] \in Nat
        BY <1>1, <2>1
      <3>2. done => Cardinality(F \cup {k}) = Len(Letters[w])
        BY <2>2, WordSize
      <3>3. Len(Letters[w]) \in Nat
        BY WordSize
      <3> HIDE DEF done
      <3> QED
        BY <3>1, <3>2, <3>3
    <2>4. WordRow(w)'
      <3>1. /\ DOMAIN words'[w] = {"filled", "opened"} /\ words'[w].filled = F \cup {k}
            /\ words'[w].opened = done
        BY <1>3, <2>1
      <3>2. F \cup {k} \subseteq Positions(w)
        BY <1>1, <1>7
      <3> QED
        BY <1>1, <1>3, <2>1, <2>2, <2>3, <3>1, <3>2 DEF WordRow
    <2>5. Pairs(m) = Pairs(l)
      BY <2>1
    <2>6. k \notin At(f, w) /\ At(g, w) = At(f, w) \cup {k}
      BY <1>2, <1>5, <2>1
    <2> HIDE DEF f, g, l, m
    <2>7. IsFiniteSet(Pairs(g)) /\ Cardinality(Pairs(g)) = Cardinality(Pairs(f)) + 1
      BY <1>4, <1>5, <2>6, PairGained
    <2> QED
      BY <1>4, <1>6, <2>4, <2>5, <2>7
  <1>8. CASE k = 0
    <2>1. /\ lost' = [lost EXCEPT ![w] = @ + 1] /\ {k} \cap Positions(w) = {}
      BY <1>8, PlaceBit, WordSize
    <2>2. lost'[w] = lost[w] + 1 /\ \A v \in Word : v # w => lost'[v] = lost[v]
      BY <1>1, <2>1
    <2>3. done => Cardinality(F) + 1 >= Len(Letters[w]) /\ Cardinality(F) \in Nat
      BY <1>1, OneShort
    <2>4. WordRow(w)'
      <3>1. /\ DOMAIN words'[w] = {"filled", "opened"} /\ words'[w].filled = F
            /\ words'[w].opened = done
        BY <1>3, <2>1
      <3>2. done => Cardinality(F) + lost'[w] >= Len(Letters[w])
        BY <1>1, <2>2, <2>3, WordSize
      <3>3. lost'[w] \in Nat
        BY <1>1, <2>2
      <3> QED
        BY <1>1, <1>3, <3>1, <3>2, <3>3 DEF WordRow
    <2>5. \A v : At(g, v) = At(f, v)
      BY <1>5, <2>1
    <2>6. /\ lost[w] + 1 \notin At(l, w) /\ At(m, w) = At(l, w) \cup {lost[w] + 1}
          /\ \A v : v # w => At(m, v) = At(l, v)
      <3>1. At(l, w) = 1 .. lost[w] /\ At(m, w) = 1 .. (lost[w] + 1)
        BY <2>2 DEF At
      <3>2. \A v : v # w => At(m, v) = At(l, v)
        BY <2>2 DEF At
      <3> QED
        BY <1>1, <3>1, <3>2
    <2> HIDE DEF f, g, l, m
    <2>7. Pairs(g) = Pairs(f)
      BY <2>5, SamePairs
    <2>8. IsFiniteSet(Pairs(m)) /\ Cardinality(Pairs(m)) = Cardinality(Pairs(l)) + 1
      BY <1>4, <2>6, PairGained
    <2> QED
      BY <1>4, <1>6, <2>4, <2>7, <2>8
  <1> QED
    BY <1>7, <1>8

LEMMA PlaceLettersInv ==
  ASSUME LettersInv, NEW w \in Word, NEW k \in Positions(w) \cup {0}, NEW c \in Char,
         SetCharacter(w, k, c)
  PROVE  LettersInv'
  <1>1. /\ DOMAIN words = Word /\ DOMAIN lost = Word /\ \A v \in Word : WordRow(v)
        /\ words[w].opened = FALSE /\ won[w] = 0
        /\ kills' = kills /\ earned' = earned /\ won' = won
    BY PlaceBit DEF LettersInv, WordRow
  <1>2. PICK bit \in Bits(w, k) :
          LET done == Complete(w, words[w].filled \cup {bit}) IN
          /\ words' = [words EXCEPT ![w] = [filled |-> @.filled \cup ({k} \cap Positions(w)),
                                           opened |-> done]]
          /\ call' = IF done THEN [op |-> "weapon", word |-> w] ELSE Idle
    BY PlaceBit
  <1>3. /\ DOMAIN words' = Word /\ DOMAIN lost' = Word
        /\ \A v \in Word : v # w => words'[v] = words[v] /\ lost'[v] = lost[v]
    BY <1>1, <1>2, PlaceBit
  <1>4. \A v \in Word : WordRow(v)'
    <2>1. ASSUME NEW v \in Word, v # w PROVE WordRow(v)'
      BY <1>1, <1>3, <2>1 DEF WordRow
    <2> QED
      BY <2>1, PlaceRow
  <1>5. call'.op = "weapon" => /\ call'.word \in Word
                               /\ words'[call'.word].opened /\ won'[call'.word] = 0
    <2> DEFINE done == Complete(w, words[w].filled \cup {bit})
    <2>1. CASE done
      <3>1. words'[w].opened = done
        BY <1>1, <1>2
      <3>2. call' = [op |-> "weapon", word |-> w]
        BY <1>2, <2>1
      <3> QED
        BY <1>1, <2>1, <3>1, <3>2
    <2>2. CASE ~done
      BY <1>2, <2>2 DEF Idle
    <2> QED
      BY <2>1, <2>2
  <1>6. /\ \A d \in DOMAIN count' : count'[d] \in Int
        /\ IsFiniteSet(InHand') /\ IsFiniteSet(Owed')
        /\ Cardinality(InHand') - Cardinality(Owed') = Cardinality(InHand) - Cardinality(Owed) - 1
    BY PlaceBit, LetterTaken DEF LettersInv
  <1>7. /\ IsFiniteSet(Placed') /\ IsFiniteSet(Lost')
        /\ Cardinality(InHand') + Cardinality(Placed') + Cardinality(Lost')
             = earned' + Cardinality(Owed')
    <2>1. /\ Cardinality(InHand) \in Nat /\ Cardinality(Owed) \in Nat
          /\ Cardinality(Placed) \in Nat /\ Cardinality(Lost) \in Nat
      BY FS_CardinalityType DEF LettersInv
    <2>2. IsFiniteSet(Placed') /\ IsFiniteSet(Lost')
      BY PlaceRow
    <2>3. /\ Cardinality(InHand') \in Nat /\ Cardinality(Owed') \in Nat
          /\ Cardinality(Placed') \in Nat /\ Cardinality(Lost') \in Nat
      BY <1>6, <2>2, FS_CardinalityType
    <2>4. /\ Cardinality(InHand) + Cardinality(Placed) + Cardinality(Lost)
               = earned + Cardinality(Owed)
          /\ earned \in Nat /\ earned' = earned
      BY <1>1 DEF LettersInv
    <2>5. Cardinality(Placed') + Cardinality(Lost') = Cardinality(Placed) + Cardinality(Lost) + 1
      BY PlaceRow
    <2> DEFINE h == Cardinality(InHand)   hh == Cardinality(InHand')
               o == Cardinality(Owed)     oo == Cardinality(Owed')
               p == Cardinality(Placed)   pp == Cardinality(Placed')
               z == Cardinality(Lost)     zz == Cardinality(Lost')
    <2>6. /\ h + p + z = earned + o /\ hh - oo = h - o - 1 /\ pp + zz = p + z + 1
          /\ earned' = earned
      BY <1>6, <2>4, <2>5
    <2>7. /\ h \in Nat /\ hh \in Nat /\ o \in Nat /\ oo \in Nat /\ p \in Nat /\ pp \in Nat
          /\ z \in Nat /\ zz \in Nat /\ earned \in Nat
      BY <2>1, <2>3, <2>4
    <2> HIDE DEF h, hh, o, oo, p, pp, z, zz
    <2>8. hh + pp + zz = earned' + oo
      BY <2>6, <2>7
    <2> QED
      BY <2>2, <2>8 DEF hh, oo, pp, zz
  <1> QED
    BY <1>1, <1>3, <1>4, <1>5, <1>6, <1>7 DEF LettersInv

LEMMA WeaponLettersInv ==
  ASSUME LettersInv, GiveWeapon
  PROVE  LettersInv'
  <1> DEFINE v == call.word
  <1>1. /\ v \in Word /\ words[v].opened /\ won[v] = 0 /\ call' = Idle
        /\ won' = [won EXCEPT ![v] = @ + 1]
        /\ count' = count /\ words' = words /\ kills' = kills /\ earned' = earned
        /\ lost' = lost
    BY DEF GiveWeapon, LettersInv
  <1>2. DOMAIN won' = Word /\ won'[v] = 1 /\ \A w \in Word : w # v => won'[w] = won[w]
    BY <1>1 DEF LettersInv
  <1>3. \A w \in Word : WordRow(w)'
    BY <1>1, <1>2 DEF LettersInv, WordRow
  <1>4. call'.op # "weapon"
    BY <1>1 DEF Idle
  <1> QED
    BY <1>1, <1>2, <1>3, <1>4 DEF LettersInv, InHand, Owed, Placed, Lost

LEMMA NextLettersInv ==
  ASSUME LettersInv, [Next]_vars
  PROVE  LettersInv'
  <1>1. CASE Request /\ UNCHANGED games
    BY <1>1, RequestOp, ElsewhereLettersInv DEF games
  <1>2. CASE Step /\ UNCHANGED games
    BY <1>2, StepOp, ElsewhereLettersInv DEF games
  <1>3. CASE OnBingoUpdate \/ InsertSlot \/ ClearPrizes \/ InsertPrize \/ StartBingo \/ Crash
    <2>1. call'.op # "weapon"
      <3>1. CASE InsertSlot \/ InsertPrize
        <4>1. call.op # "weapon" /\ \E n : call' = [call EXCEPT !.todo = n]
          BY <3>1 DEF InsertSlot, InsertPrize
        <4> QED
          BY <4>1
      <3>2. CASE OnBingoUpdate \/ ClearPrizes \/ StartBingo \/ Crash
        BY <3>2 DEF OnBingoUpdate, ClearPrizes, StartBingo, Crash, Idle
      <3> QED
        BY <1>3, <3>1, <3>2
    <2>2. /\ count' = count /\ words' = words /\ kills' = kills /\ earned' = earned
          /\ won' = won /\ lost' = lost
      BY <1>3 DEF OnBingoUpdate, InsertSlot, ClearPrizes, InsertPrize, StartBingo, Crash, games
    <2> QED
      BY <2>1, <2>2, ElsewhereLettersInv
  <1>4. CASE UNCHANGED vars
    BY <1>4 DEF vars, games, LettersInv, WordRow, InHand, Owed, Placed, Lost
  <1> QED
    BY <1>1, <1>2, <1>3, <1>4, KillLettersInv, PlaceLettersInv, WeaponLettersInv
    DEF Next, GamesNext

LEMMA InitLettersInv == GamesInit => LettersInv
  <1> SUFFICES ASSUME GamesInit PROVE LettersInv
    OBVIOUS
  <1>1. /\ DOMAIN count = {} /\ words = [w \in Word |-> Closed] /\ won = [w \in Word |-> 0]
        /\ lost = [w \in Word |-> 0] /\ kills = 0 /\ earned = 0 /\ call.op = "idle"
    BY DEF GamesInit, Init, Idle
  <1>2. /\ IsFiniteSet(InHand) /\ Cardinality(InHand) = 0
        /\ IsFiniteSet(Owed) /\ Cardinality(Owed) = 0
    BY <1>1, NoPairs DEF InHand, Owed
  <1>3. IsFiniteSet(Placed) /\ Cardinality(Placed) = 0
    <2>1. \A w \in Word : words[w].filled = {}
      BY <1>1 DEF Closed
    <2> QED
      BY <2>1, NoPairs DEF Placed
  <1>4. \A w \in Word : WordRow(w)
    <2> SUFFICES ASSUME NEW w \in Word PROVE WordRow(w)
      OBVIOUS
    <2>1. words[w] = [filled |-> {}, opened |-> FALSE] /\ won[w] = 0 /\ lost[w] = 0
      BY <1>1 DEF Closed
    <2> QED
      BY <2>1, WordSize DEF WordRow
  <1>5. IsFiniteSet(Lost) /\ Cardinality(Lost) = 0
    <2> DEFINE l == [w \in Word |-> 1 .. lost[w]]
    <2>1. \A w \in DOMAIN l : l[w] = {}
      BY <1>1
    <2>2. Lost = Pairs(l)
      BY DEF Lost
    <2> HIDE DEF l
    <2> QED
      BY <2>1, <2>2, NoPairs
  <1> QED
    BY <1>1, <1>2, <1>3, <1>4, <1>5 DEF LettersInv

-----------------------------------------------------------------------------
(* The bingo desk: while it is laid out, what is stored and what is left to store make up *)
(* the whole desk, and it is not in play. *)

Laying == call.op \in {"slots", "prizes"}

DeskInv ==
  /\ DOMAIN desk = {"slots", "prizes", "started"}
  /\ desk.slots \in Nat /\ desk.prizes \in Nat
  /\ Laying => DOMAIN call = {"op", "todo"} /\ call.todo \in Nat /\ ~desk.started
  /\ ~faulty =>
       /\ call.op = "slots" => desk.slots + call.todo = DeskSize
       /\ call.op = "prizes" => /\ desk.slots = DeskSize
                                /\ desk.prizes + call.todo = PrizeCount
       /\ desk.started => desk.slots = DeskSize /\ desk.prizes = PrizeCount

\* A step that is none of laying out the desk.
LEMMA ElsewhereDeskInv ==
  ASSUME DeskInv, desk' = desk, faulty => faulty', ~Laying'
  PROVE  DeskInv'
  BY DEF DeskInv, Laying

LEMMA NextDeskInv ==
  ASSUME DeskInv, [Next]_vars
  PROVE  DeskInv'
  <1>1. CASE Request /\ UNCHANGED games
    <2>1. desk' = desk
      BY <1>1 DEF games
    <2>2. faulty => faulty'
      BY <1>1 DEF Request, Enhance, Decrease, OnWeaponPaint, OnWeaponPaintSwitch, OnPartEquip,
                  OnPartRemove, OnLockItem, Store
    <2>3. ~Laying'
      BY <1>1, RequestOp DEF Laying
    <2> QED
      BY <2>1, <2>2, <2>3, ElsewhereDeskInv
  <1>2. CASE Step /\ UNCHANGED games
    <2>1. desk' = desk
      BY <1>2 DEF games
    <2>2. faulty => faulty'
      BY <1>2 DEF Step, UseMaterial, StoreExp, Roll, StoreResult, StoreDecrease, UseApplied, Store
    <2>3. ~Laying'
      BY <1>2, StepOp DEF Laying
    <2> QED
      BY <2>1, <2>2, <2>3, ElsewhereDeskInv
  <1>3. CASE OnKillEvent \/ GiveWeapon \/ Crash
    <2>1. faulty => faulty'
      BY <1>3 DEF OnKillEvent, GiveWeapon, Crash, AddItem, Store
    <2>2. desk' = desk /\ ~Laying'
      BY <1>3 DEF OnKillEvent, GiveWeapon, Crash, games, Idle, Laying
    <2> QED
      BY <2>1, <2>2, ElsewhereDeskInv
  <1>4. ASSUME NEW w \in Word, NEW k \in Positions(w) \cup {0}, NEW c \in Char,
               SetCharacter(w, k, c)
        PROVE  DeskInv'
    <2>1. call' = Idle \/ call' = [op |-> "weapon", word |-> w]
      BY <1>4 DEF SetCharacter
    <2>2. desk' = desk /\ faulty' = faulty /\ ~Laying'
      BY <1>4, <2>1 DEF SetCharacter, Idle, Laying
    <2> QED
      BY <2>2, ElsewhereDeskInv
  <1>0. DOMAIN desk = {"slots", "prizes", "started"} /\ desk.slots \in Nat /\ desk.prizes \in Nat
    BY DEF DeskInv
  <1>5. CASE OnBingoUpdate
    <2>1. ~desk.started
      BY <1>5 DEF OnBingoUpdate
    <2>2. CASE /\ desk' = [desk EXCEPT !.slots = 0] /\ call' = [op |-> "slots", todo |-> DeskSize]
               /\ faulty' = faulty
      BY <1>0, <2>1, <2>2, DeskAssumption DEF DeskInv, Laying
    <2>3. CASE desk' = desk /\ call' = [op |-> "slots", todo |-> 0] /\ faulty'
      BY <1>0, <2>1, <2>3 DEF DeskInv, Laying
    <2> QED
      BY <1>5, <2>2, <2>3 DEF OnBingoUpdate
  <1>6. CASE InsertSlot
    <2>1. /\ call.op = "slots" /\ call.todo \in Nat /\ call.todo > 0
          /\ DOMAIN call = {"op", "todo"}
      BY <1>6 DEF InsertSlot, DeskInv, Laying
    <2>2. CASE /\ desk' = [desk EXCEPT !.slots = @ + 1]
               /\ call' = [call EXCEPT !.todo = @ - 1] /\ faulty' = faulty
      <3>1. /\ DOMAIN desk' = {"slots", "prizes", "started"} /\ desk'.slots = desk.slots + 1
            /\ desk'.prizes = desk.prizes /\ (desk'.started => desk.started)
        BY <1>0, <2>2
      <3>2. /\ DOMAIN call' = {"op", "todo"} /\ call'.op = "slots"
            /\ call'.todo = call.todo - 1
        BY <2>1, <2>2
      <3> QED
        BY <2>1, <2>2, <3>1, <3>2 DEF DeskInv, Laying
    <2>3. CASE desk' = desk /\ call' = [call EXCEPT !.todo = 0] /\ faulty'
      <3>1. DOMAIN call' = {"op", "todo"} /\ call'.op = "slots" /\ call'.todo = 0
        BY <2>1, <2>3
      <3> QED
        BY <2>1, <2>3, <3>1 DEF DeskInv, Laying
    <2> QED
      BY <1>6, <2>2, <2>3 DEF InsertSlot
  <1>7. CASE ClearPrizes
    <2>1. call.op = "slots" /\ call.todo = 0
      BY <1>7 DEF ClearPrizes
    <2>2. CASE call' = Idle /\ desk' = desk /\ faulty' = faulty
      <3>1. ~Laying'
        BY <2>2 DEF Laying, Idle
      <3> QED
        BY <2>2, <3>1, ElsewhereDeskInv
    <2>3. CASE /\ desk' = [desk EXCEPT !.prizes = 0] /\ faulty' = faulty
               /\ call' = [op |-> "prizes", todo |-> PrizeCount]
      <3>1. /\ DOMAIN desk' = {"slots", "prizes", "started"} /\ desk'.slots = desk.slots
            /\ desk'.prizes = 0 /\ (desk'.started => desk.started)
        BY <1>0, <2>3
      <3>2. DOMAIN call' = {"op", "todo"} /\ call'.op = "prizes" /\ call'.todo = PrizeCount
        BY <2>3
      <3> QED
        BY <2>1, <2>3, <3>1, <3>2, DeskAssumption DEF DeskInv, Laying
    <2>4. CASE desk' = desk /\ call' = [op |-> "prizes", todo |-> 0] /\ faulty'
      <3>1. DOMAIN call' = {"op", "todo"} /\ call'.op = "prizes" /\ call'.todo = 0
        BY <2>4
      <3> QED
        BY <2>1, <2>4, <3>1 DEF DeskInv, Laying
    <2> QED
      BY <1>7, <2>2, <2>3, <2>4 DEF ClearPrizes
  <1>8. CASE InsertPrize
    <2>1. /\ call.op = "prizes" /\ call.todo \in Nat /\ call.todo > 0
          /\ DOMAIN call = {"op", "todo"}
      BY <1>8 DEF InsertPrize, DeskInv, Laying
    <2>2. CASE /\ desk' = [desk EXCEPT !.prizes = @ + 1]
               /\ call' = [call EXCEPT !.todo = @ - 1] /\ faulty' = faulty
      <3>1. /\ DOMAIN desk' = {"slots", "prizes", "started"} /\ desk'.slots = desk.slots
            /\ desk'.prizes = desk.prizes + 1 /\ (desk'.started => desk.started)
        BY <1>0, <2>2
      <3>2. /\ DOMAIN call' = {"op", "todo"} /\ call'.op = "prizes"
            /\ call'.todo = call.todo - 1
        BY <2>1, <2>2
      <3> QED
        BY <2>1, <2>2, <3>1, <3>2 DEF DeskInv, Laying
    <2>3. CASE desk' = desk /\ call' = [call EXCEPT !.todo = 0] /\ faulty'
      <3>1. DOMAIN call' = {"op", "todo"} /\ call'.op = "prizes" /\ call'.todo = 0
        BY <2>1, <2>3
      <3> QED
        BY <2>1, <2>3, <3>1 DEF DeskInv, Laying
    <2> QED
      BY <1>8, <2>2, <2>3 DEF InsertPrize
  <1>9. CASE StartBingo
    <2>1. ~faulty => desk.slots = DeskSize /\ desk.prizes = PrizeCount
      BY <1>9, <1>0 DEF StartBingo, DeskInv, Laying
    <2>2. /\ DOMAIN desk' = {"slots", "prizes", "started"} /\ desk'.slots = desk.slots
          /\ desk'.prizes = desk.prizes
      BY <1>9, <1>0 DEF StartBingo
    <2>3. ~Laying' /\ call'.op = "idle" /\ faulty' = faulty
      BY <1>9 DEF StartBingo, Idle, Laying
    <2> QED
      BY <1>0, <2>1, <2>2, <2>3 DEF DeskInv
  <1>10. CASE UNCHANGED vars
    BY <1>10 DEF vars, games, DeskInv, Laying
  <1> QED
    BY <1>1, <1>2, <1>3, <1>4, <1>5, <1>6, <1>7, <1>8, <1>9, <1>10 DEF Next, GamesNext

-----------------------------------------------------------------------------
(* What is worn and what is in the bag *)

\* Finitely many things at finitely many keys.
LEMMA PairsFinite ==
  ASSUME NEW f, IsFiniteSet(DOMAIN f), \A k \in DOMAIN f : IsFiniteSet(f[k])
  PROVE  IsFiniteSet(Pairs(f))
  <1> DEFINE g == [k \in DOMAIN f |-> {k} \X f[k]]
             T == {{k} \X f[k] : k \in DOMAIN f}
  <1>1. g \in Surjection(DOMAIN f, T)
    BY DEF Surjection
  <1>2. IsFiniteSet(T)
    BY <1>1, FS_Surjection
  <1>3. ASSUME NEW k \in DOMAIN f PROVE IsFiniteSet({k} \X f[k])
    BY FS_Singleton, FS_Product
  <1>4. \A t \in T : IsFiniteSet(t)
    BY <1>3
  <1>5. IsFiniteSet(UNION T)
    BY <1>2, <1>4, FS_UNION
  <1> QED
    BY <1>5 DEF Pairs

Sheet(id) == {s \in Slot : id \in bag[s].paints}
Fitted(id) == {e \in Slot \X {1, 2} : bag[e[1]].part[e[2]] = id}
RowsWith(id) == [s \in {t \in Slot : bag[t].id = id} |-> 1 .. bag[s].count]

LEMMA WornIs ==
  ASSUME NEW id
  PROVE  /\ IsFiniteSet(Sheet(id)) /\ Cardinality(Sheet(id)) \in Nat
         /\ IsFiniteSet(Fitted(id)) /\ Cardinality(Fitted(id)) \in Nat
         /\ Worn(id) = Cardinality(Sheet(id)) + Cardinality(Fitted(id))
         /\ Worn(id) \in Nat
  <1>1. IsFiniteSet(Sheet(id))
    BY SlotAssumption, FS_Subset DEF Sheet
  <1>2. IsFiniteSet(Slot \X {1, 2})
    <2>1. IsFiniteSet({1, 2})
      <3>1. {1, 2} = {1} \cup {2}
        OBVIOUS
      <3>2. IsFiniteSet({1})
        BY FS_Singleton
      <3>3. IsFiniteSet({1} \cup {2})
        BY <3>2, FS_AddElement
      <3> QED
        BY <3>1, <3>3
    <2> QED
      BY <2>1, SlotAssumption, FS_Product
  <1>3. IsFiniteSet(Fitted(id))
    BY <1>2, FS_Subset DEF Fitted
  <1>4. Cardinality(Sheet(id)) \in Nat /\ Cardinality(Fitted(id)) \in Nat
    BY <1>1, <1>3, FS_CardinalityType
  <1>5. Worn(id) = Cardinality(Sheet(id)) + Cardinality(Fitted(id))
    BY DEF Worn, Sheet, Fitted
  <1> QED
    BY <1>1, <1>3, <1>4, <1>5

\* Every row a user owns counts at least one item.
Counts(b) ==
  \A s \in Slot : /\ DOMAIN b[s].part = 1 .. 2
                  /\ b[s].id # None => b[s].count \in Nat \ {0}

LEMMA InBagIs ==
  ASSUME NEW id, id # None, Counts(bag)
  PROVE  /\ IsFiniteSet(Pairs(RowsWith(id))) /\ InBag(id) = Cardinality(Pairs(RowsWith(id)))
         /\ InBag(id) \in Nat
  <1>1. IsFiniteSet(DOMAIN RowsWith(id))
    BY SlotAssumption, FS_Subset DEF RowsWith
  <1>2. ASSUME NEW s \in DOMAIN RowsWith(id) PROVE IsFiniteSet(RowsWith(id)[s])
    <2>1. bag[s].count \in Int /\ RowsWith(id)[s] = 1 .. bag[s].count
      BY DEF RowsWith, Counts
    <2> QED
      BY <2>1, FS_Interval
  <1>3. IsFiniteSet(Pairs(RowsWith(id)))
    BY <1>1, <1>2, PairsFinite
  <1>4. InBag(id) = Cardinality(Pairs(RowsWith(id)))
    BY DEF InBag, RowsWith
  <1> QED
    BY <1>3, <1>4, FS_CardinalityType

\* A step after which there is nothing of id where there was none before.
NoMore(id) ==
  \A s \in Slot :
    /\ bag'[s].id = id => bag[s].id = id /\ bag'[s].count <= bag[s].count
    /\ id \in bag'[s].paints => id \in bag[s].paints
    /\ \A k \in {1, 2} : bag'[s].part[k] = id => bag[s].part[k] = id

LEMMA NoMoreInBag ==
  ASSUME NEW id, id # None, Counts(bag), Counts(bag'),
         \A s \in Slot : bag'[s].id = id => bag[s].id = id /\ bag'[s].count <= bag[s].count
  PROVE  InBag(id)' <= InBag(id) /\ InBag(id)' \in Nat
  <1> DEFINE f == RowsWith(id)
             g == [s \in {t \in Slot : bag'[t].id = id} |-> 1 .. bag'[s].count]
  <1>1. IsFiniteSet(Pairs(f)) /\ InBag(id) = Cardinality(Pairs(f))
    BY InBagIs
  <1>2. InBag(id)' = Cardinality(Pairs(g))
    BY DEF InBag
  <1>3. ASSUME NEW k PROVE At(g, k) \subseteq At(f, k)
    <2>1. CASE k \in Slot /\ bag'[k].id = id
      <3>1. bag[k].id = id /\ bag'[k].count <= bag[k].count
        BY <2>1
      <3>2. bag[k].count \in Nat /\ bag'[k].count \in Nat
        BY <2>1, <3>1 DEF Counts
      <3>3. At(g, k) = 1 .. bag'[k].count /\ At(f, k) = 1 .. bag[k].count
        BY <2>1, <3>1 DEF At, RowsWith
      <3> QED
        BY <3>1, <3>2, <3>3
    <2>2. CASE ~(k \in Slot /\ bag'[k].id = id)
      BY <2>2 DEF At
    <2> QED
      BY <2>1, <2>2
  <1> HIDE DEF f, g
  <1>4. Pairs(g) \subseteq Pairs(f)
    <2>1. \A k, x : <<k, x>> \in Pairs(g) => <<k, x>> \in Pairs(f)
      BY <1>3, PairsAre
    <2>2. \A p \in Pairs(g) : \E k, x : p = <<k, x>>
      BY PairsAre
    <2> QED
      BY <2>1, <2>2
  <1>5. Cardinality(Pairs(g)) <= Cardinality(Pairs(f)) /\ Cardinality(Pairs(g)) \in Nat
    BY <1>1, <1>4, FS_Subset, FS_CardinalityType
  <1> QED
    BY <1>1, <1>2, <1>5

LEMMA NoMoreWorn ==
  ASSUME NEW id,
         \A s \in Slot : /\ id \in bag'[s].paints => id \in bag[s].paints
                         /\ \A k \in {1, 2} : bag'[s].part[k] = id => bag[s].part[k] = id
  PROVE  Worn(id)' <= Worn(id) /\ Worn(id)' \in Nat
  <1>2. Sheet(id)' \subseteq Sheet(id) /\ Fitted(id)' \subseteq Fitted(id)
    BY DEF Sheet, Fitted
  <1>3. /\ IsFiniteSet(Sheet(id)) /\ IsFiniteSet(Fitted(id))
        /\ Worn(id) = Cardinality(Sheet(id)) + Cardinality(Fitted(id))
        /\ Cardinality(Sheet(id)) \in Nat /\ Cardinality(Fitted(id)) \in Nat
    BY WornIs
  <1>4. /\ Cardinality(Sheet(id)') <= Cardinality(Sheet(id)) /\ Cardinality(Sheet(id)') \in Nat
        /\ Cardinality(Fitted(id)') <= Cardinality(Fitted(id)) /\ Cardinality(Fitted(id)') \in Nat
    BY <1>2, <1>3, FS_Subset, FS_CardinalityType
  <1>5. Worn(id)' = Cardinality(Sheet(id)') + Cardinality(Fitted(id)')
    BY DEF Worn, Sheet, Fitted
  <1> QED
    BY <1>3, <1>4, <1>5

-----------------------------------------------------------------------------
(* Items that are used up *)

\* The copy of a row that is used up as a material: what became of the row since then took
\* at most one from it.
Material(c, b) ==
  /\ c.slot \in Slot /\ c.row.count \in Nat \ {0}
  /\ b[c.slot].id # None => b[c.slot].count >= c.row.count - 1

\* The item applied is still in its row, all of it; materials that are the same row are
\* copies of one count.
UseOf(c, b) ==
  /\ c.op = "applied" =>
       /\ c.use.slot \in Slot /\ c.use.row.id # None
       /\ b[c.use.slot].id = c.use.row.id /\ b[c.use.slot].count = c.use.row.count
  /\ c.op = "insert" =>
       /\ \E S : c.use \in Seq(S)
       /\ \A k \in 1 .. Len(c.use) : Material(c.use[k], b)
       /\ \A j, k \in 1 .. Len(c.use) :
            c.use[j].slot = c.use[k].slot => c.use[j].row.count = c.use[k].row.count

BagInv == Counts(bag) /\ UseOf(call, bag)

\* Rows that differ from those of the bag in other columns only.
Keeps(b) ==
  \A s \in Slot : /\ b[s].id = bag[s].id /\ b[s].count = bag[s].count
                  /\ b[s].paints = bag[s].paints /\ b[s].part = bag[s].part

LEMMA OtherColumns ==
  ASSUME RowsOf(bag), NEW s \in Slot, NEW v, NEW l, NEW e
  PROVE  /\ Keeps(bag)
         /\ Keeps([bag EXCEPT ![s].paint = v])
         /\ Keeps([bag EXCEPT ![s].lock = v])
         /\ Keeps([bag EXCEPT ![s].exp = v])
         /\ Keeps([bag EXCEPT ![s].level = l, ![s].exp = e, ![s].attr = v])
  <1>1. DOMAIN bag = Slot /\ \A z \in Slot : DOMAIN bag[z] = Columns
    BY DEF RowsOf, Row
  <1>2. Keeps(bag)
    BY DEF Keeps
  <1>3. Keeps([bag EXCEPT ![s].paint = v])
    BY <1>1 DEF Keeps, Columns
  <1>4. Keeps([bag EXCEPT ![s].lock = v])
    BY <1>1 DEF Keeps, Columns
  <1>5. Keeps([bag EXCEPT ![s].exp = v])
    BY <1>1 DEF Keeps, Columns
  <1>6. Keeps([bag EXCEPT ![s].level = l, ![s].exp = e, ![s].attr = v])
    <2> DEFINE r == [bag[s] EXCEPT !.level = l, !.exp = e, !.attr = v]
    <2>1. /\ r.id = bag[s].id /\ r.count = bag[s].count
          /\ r.paints = bag[s].paints /\ r.part = bag[s].part
      BY <1>1 DEF Columns
    <2>2. [bag EXCEPT ![s].level = l, ![s].exp = e, ![s].attr = v] = [bag EXCEPT ![s] = r]
      BY <1>1
    <2> HIDE DEF r
    <2> QED
      BY <1>1, <2>1, <2>2 DEF Keeps
  <1> QED
    BY <1>2, <1>3, <1>4, <1>5, <1>6

\* What keeps the rows in these columns keeps the invariant and brings nothing.
LEMMA KeptRows ==
  ASSUME BagInv, Keeps(bag')
  PROVE  Counts(bag') /\ \A c : UseOf(c, bag) => UseOf(c, bag')
  <1>1. Counts(bag')
    BY DEF BagInv, Counts, Keeps
  <1>2. ASSUME NEW c, Material(c, bag) PROVE Material(c, bag')
    BY <1>2 DEF Keeps, Material
  <1>3. ASSUME NEW c, UseOf(c, bag) PROVE UseOf(c, bag')
    <2>1. c.op = "applied" =>
            /\ c.use.slot \in Slot /\ c.use.row.id # None
            /\ bag'[c.use.slot].id = c.use.row.id /\ bag'[c.use.slot].count = c.use.row.count
      BY <1>3 DEF Keeps, UseOf
    <2>2. c.op = "insert" => \A k \in 1 .. Len(c.use) : Material(c.use[k], bag')
      BY <1>2, <1>3 DEF UseOf
    <2> QED
      BY <1>3, <2>1, <2>2 DEF UseOf
  <1> QED
    BY <1>1, <1>3

\* Using up one of a row.
LEMMA UseRows ==
  ASSUME RowsOf(bag), Counts(bag), NEW c, Material(c, bag)
  PROVE  /\ Counts(OnItemUse(c))
         /\ \A s \in Slot : s # c.slot => OnItemUse(c)[s] = bag[s]
         /\ \A s \in Slot : /\ OnItemUse(c)[s].id # None =>
                                 /\ OnItemUse(c)[s].id = bag[s].id
                                 /\ OnItemUse(c)[s].count <= bag[s].count
                            /\ OnItemUse(c)[s].paints \subseteq bag[s].paints
                            /\ \A k \in {1, 2} : OnItemUse(c)[s].part[k] \in {bag[s].part[k], None}
         /\ c.row.count = 1 => OnItemUse(c)[c.slot].id = None
         /\ c.row.count > 1 => /\ OnItemUse(c)[c.slot].id = bag[c.slot].id
                               /\ OnItemUse(c)[c.slot].count = c.row.count - 1
  <1> DEFINE z == c.slot   n == c.row.count
  <1>1. /\ DOMAIN bag = Slot /\ \A s \in Slot : DOMAIN bag[s] = Columns
        /\ z \in Slot /\ n \in Nat \ {0}
        /\ bag[z].id # None => bag[z].count >= n - 1 /\ bag[z].count \in Nat
    BY DEF RowsOf, Row, Material, Counts
  <1>2. CASE n = 1
    <2>1. OnItemUse(c) = [bag EXCEPT ![z] = FreeRow]
      BY <1>2 DEF OnItemUse, Write
    <2>2. /\ FreeRow.id = None /\ FreeRow.paints = {} /\ FreeRow.part = <<None, None>>
      BY DEF FreeRow, New
    <2>3. /\ OnItemUse(c)[z].id = None /\ OnItemUse(c)[z].paints = {}
          /\ OnItemUse(c)[z].part = <<None, None>>
          /\ \A s \in Slot : s # z => OnItemUse(c)[s] = bag[s]
      BY <1>1, <2>1, <2>2
    <2> HIDE DEF n, z
    <2>4. Counts(OnItemUse(c))
      BY <2>3 DEF Counts
    <2>5. \A s \in Slot : s # z =>
            /\ OnItemUse(c)[s].count <= bag[s].count \/ OnItemUse(c)[s].id = None
            /\ \A k \in {1, 2} : OnItemUse(c)[s].part[k] \in {bag[s].part[k], None}
      BY <2>3 DEF Counts
    <2>6. \A k \in {1, 2} : OnItemUse(c)[z].part[k] = None
      BY <2>3
    <2> QED
      BY <1>1, <1>2, <2>3, <2>4, <2>5, <2>6 DEF n, z
  <1>3. CASE n > 1
    <2> DEFINE r == [bag[z] EXCEPT !.count = n - 1]
    <2>1. OnItemUse(c) = [bag EXCEPT ![z] = r]
      BY <1>1, <1>3 DEF OnItemUse
    <2>2. /\ r.id = bag[z].id /\ r.count = n - 1
          /\ r.paints = bag[z].paints /\ r.part = bag[z].part
      BY <1>1 DEF Columns
    <2> HIDE DEF r, n, z
    <2>3. OnItemUse(c)[z] = r /\ \A s \in Slot : s # z => OnItemUse(c)[s] = bag[s]
      BY <1>1, <2>1
    <2>4. Counts(OnItemUse(c))
      BY <1>1, <1>3, <2>2, <2>3 DEF Counts
    <2>5. \A s \in Slot : OnItemUse(c)[s].id # None => OnItemUse(c)[s].count <= bag[s].count
      BY <1>1, <1>3, <2>2, <2>3 DEF Counts
    <2> QED
      BY <1>1, <1>3, <2>2, <2>3, <2>4, <2>5 DEF n, z
  <1> QED
    BY <1>1, <1>2, <1>3

LEMMA InitBagInv == GamesInit => BagInv
  <1> SUFFICES ASSUME GamesInit PROVE BagInv
    OBVIOUS
  <1>1. call.op = "idle"
    BY DEF GamesInit, Init, Idle
  <1>2. ASSUME NEW s \in Slot
        PROVE  DOMAIN bag[s].part = 1 .. 2 /\ (bag[s].id # None => bag[s].count \in Nat \ {0})
    <2>1. bag[s] = New(bag[s].id, bag[s].count) /\ (bag[s].id # None => bag[s].count \in Nat \ {0})
      BY StockAssumption DEF GamesInit, Init
    <2>2. New(bag[s].id, bag[s].count).part = <<None, None>>
      BY DEF New
    <2> QED
      BY <2>1, <2>2
  <1> QED
    BY <1>1, <1>2 DEF BagInv, Counts, UseOf

\* A paint or a part that is put on a row.
Painted(s, v) == [bag EXCEPT ![s].paint = v, ![s].paints = @ \cup {v}]
WithPart(s, k, v) == [bag EXCEPT ![s].part[k] = v]

LEMMA Dressing ==
  ASSUME RowsOf(bag), NEW s \in Slot, NEW v
  PROVE  LET b == Painted(s, v) IN
         /\ \A z \in Slot : /\ b[z].id = bag[z].id /\ b[z].count = bag[z].count
                            /\ b[z].part = bag[z].part
         /\ \A z \in Slot : z # s => b[z].paints = bag[z].paints
         /\ b[s].paints = bag[s].paints \cup {v}
  <1>1. DOMAIN bag = Slot /\ \A z \in Slot : DOMAIN bag[z] = Columns
    BY DEF RowsOf, Row
  <1> DEFINE r == [bag[s] EXCEPT !.paint = v, !.paints = @ \cup {v}]
  <1>2. /\ r.id = bag[s].id /\ r.count = bag[s].count
        /\ r.paints = bag[s].paints \cup {v} /\ r.part = bag[s].part
    BY <1>1 DEF Columns
  <1>3. Painted(s, v) = [bag EXCEPT ![s] = r]
    BY <1>1 DEF Painted
  <1> HIDE DEF r
  <1> QED
    BY <1>1, <1>2, <1>3

LEMMA Fitting ==
  ASSUME RowsOf(bag), Counts(bag), NEW s \in Slot, NEW k \in 1 .. 2, NEW v
  PROVE  LET b == WithPart(s, k, v) IN
         /\ \A z \in Slot : /\ b[z].id = bag[z].id /\ b[z].count = bag[z].count
                            /\ b[z].paints = bag[z].paints /\ DOMAIN b[z].part = 1 .. 2
         /\ \A z \in Slot, j \in 1 .. 2 : <<z, j>> # <<s, k>> => b[z].part[j] = bag[z].part[j]
         /\ b[s].part[k] = v
  <1>1. DOMAIN bag = Slot /\ \A z \in Slot : DOMAIN bag[z] = Columns /\ DOMAIN bag[z].part = 1 .. 2
    BY DEF RowsOf, Row, Counts
  <1> DEFINE r == [bag[s] EXCEPT !.part[k] = v]
             p == [bag[s].part EXCEPT ![k] = v]
  <1>2. /\ r.id = bag[s].id /\ r.count = bag[s].count
        /\ r.paints = bag[s].paints /\ r.part = p
    BY <1>1 DEF Columns
  <1>3. DOMAIN p = 1 .. 2 /\ p[k] = v /\ \A j \in 1 .. 2 : j # k => p[j] = bag[s].part[j]
    BY <1>1
  <1>4. WithPart(s, k, v) = [bag EXCEPT ![s] = r]
    BY <1>1 DEF WithPart
  <1> HIDE DEF r, p
  <1>5. WithPart(s, k, v)[s] = r /\ \A z \in Slot : z # s => WithPart(s, k, v)[z] = bag[z]
    BY <1>1, <1>4
  <1> QED
    BY <1>1, <1>2, <1>3, <1>5

\* A row the user owns is a material.
LEMMA OwnedMaterial ==
  ASSUME Counts(bag), NEW s \in Owned
  PROVE  Material(Copy(s), bag) /\ Copy(s).slot = s /\ Copy(s).row = bag[s]
  BY DEF Owned, Counts, Material, Copy

LEMMA RequestBagInv ==
  ASSUME TableInv, BagInv, Request
  PROVE  BagInv'
  <1>0. RowsOf(bag) /\ Counts(bag)
    BY DEF TableInv, BagInv
  <1>1. ASSUME NEW s \in Owned, NEW n \in 0 .. MaxMaterials, NEW q \in [1 .. n -> Owned],
               Enhance(s, q)
        PROVE  BagInv'
    <2>1. bag' = bag
      BY <1>1 DEF Enhance
    <2>2. CASE q = <<>>
      <3>1. call'.op = "roll"
        BY <1>1, <2>2 DEF Enhance
      <3> QED
        BY <1>0, <2>1, <3>1 DEF BagInv, UseOf
    <2>3. CASE q # <<>>
      <3> DEFINE u == [k \in DOMAIN q |-> Copy(q[k])]
      <3>1. call'.op = "insert" /\ call'.use = u
        BY <1>1, <2>3 DEF Enhance
      <3>2. n \in Nat
        BY SlotAssumption
      <3>3. u = [k \in 1 .. n |-> Copy(q[k])]
        OBVIOUS
      <3>4. u \in [1 .. n -> {Copy(z) : z \in Slot}]
        BY <3>3 DEF Owned
      <3> HIDE DEF u
      <3>5. u \in Seq({Copy(z) : z \in Slot}) /\ Len(u) = n
        BY <3>2, <3>4
      <3>6. \A k \in 1 .. n : /\ Material(u[k], bag) /\ u[k].slot = q[k] /\ u[k].row = bag[q[k]]
        BY <1>0, <3>3, OwnedMaterial
      <3>7. \A j, k \in 1 .. n : u[j].slot = u[k].slot => u[j].row.count = u[k].row.count
        BY <3>6
      <3> QED
        BY <1>0, <2>1, <3>1, <3>5, <3>6, <3>7 DEF BagInv, UseOf
    <2> QED
      BY <2>2, <2>3
  <1>2. ASSUME NEW s \in Owned, NEW m \in Owned, Decrease(s, m)
        PROVE  BagInv'
    <2>1. call'.op = "decrease" /\ bag' \in {bag, OnItemUse(Copy(m))}
      BY <1>2 DEF Decrease, Store
    <2>2. Counts(bag')
      BY <1>0, <2>1, OwnedMaterial, UseRows
    <2> QED
      BY <2>1, <2>2 DEF BagInv, UseOf
  <1>3. ASSUME NEW p \in Owned, call' = [op |-> "applied", use |-> Copy(p)], Counts(bag'),
               \A z \in Slot : bag'[z].id = bag[z].id /\ bag'[z].count = bag[z].count
        PROVE  BagInv'
    <2>1. call'.op = "applied" /\ call'.use.slot = p /\ call'.use.row = bag[p]
      BY <1>3 DEF Copy
    <2> QED
      BY <1>3, <2>1 DEF BagInv, UseOf, Owned
  <1>4. ASSUME NEW s \in Owned, NEW p \in Owned, OnWeaponPaint(s, p)
        PROVE  BagInv'
    <2>1. s \in Slot /\ call' = [op |-> "applied", use |-> Copy(p)]
      BY <1>4 DEF OnWeaponPaint, Owned
    <2>2. \/ bag' = bag
          \/ bag' = [bag EXCEPT ![s].paint = bag[p].id, ![s].paints = @ \cup {bag[p].id}]
      BY <1>4 DEF OnWeaponPaint, Store
    <2>3. \A z \in Slot : /\ bag'[z].id = bag[z].id /\ bag'[z].count = bag[z].count
                          /\ bag'[z].part = bag[z].part
      <3>1. bag' \in {bag, Painted(s, bag[p].id)}
        BY <2>2 DEF Painted
      <3> QED
        BY <1>0, <2>1, <3>1, Dressing
    <2>4. Counts(bag')
      BY <1>0, <2>3 DEF Counts
    <2> QED
      BY <1>3, <2>1, <2>3, <2>4
  <1>5. ASSUME NEW s \in Owned, NEW p \in Owned, NEW k \in 1 .. 2, OnPartEquip(s, p, k)
        PROVE  BagInv'
    <2>1. s \in Slot /\ call' = [op |-> "applied", use |-> Copy(p)]
      BY <1>5 DEF OnPartEquip, Owned
    <2>2. bag' = bag \/ bag' = [bag EXCEPT ![s].part[k] = bag[p].id]
      BY <1>5 DEF OnPartEquip, Store
    <2>3. \A z \in Slot : /\ bag'[z].id = bag[z].id /\ bag'[z].count = bag[z].count
                          /\ DOMAIN bag'[z].part = 1 .. 2
      <3>1. CASE bag' = bag
        BY <1>0, <3>1 DEF Counts
      <3>2. CASE bag' = WithPart(s, k, bag[p].id)
        BY <1>0, <2>1, <3>2, Fitting
      <3> QED
        BY <2>2, <3>1, <3>2 DEF WithPart
    <2>4. Counts(bag')
      BY <1>0, <2>3 DEF Counts
    <2> QED
      BY <1>3, <2>1, <2>3, <2>4
  <1>6. ASSUME NEW s \in Owned, NEW k \in 1 .. 2, OnPartRemove(s, k)
        PROVE  BagInv'
    <2>1. s \in Slot /\ call = Idle /\ call' = call
      BY <1>6 DEF OnPartRemove, Owned
    <2>2. bag' = bag \/ bag' = [bag EXCEPT ![s].part[k] = None]
      BY <1>6 DEF OnPartRemove, Store
    <2>3. \A z \in Slot : /\ bag'[z].id = bag[z].id /\ bag'[z].count = bag[z].count
                          /\ DOMAIN bag'[z].part = 1 .. 2
      <3>1. CASE bag' = bag
        BY <1>0, <3>1 DEF Counts
      <3>2. CASE bag' = WithPart(s, k, None)
        BY <1>0, <2>1, <3>2, Fitting
      <3> QED
        BY <2>2, <3>1, <3>2 DEF WithPart
    <2> QED
      BY <1>0, <2>1, <2>3 DEF BagInv, Counts, UseOf, Idle
  <1>7. CASE Keeps(bag') /\ call = Idle /\ call' = call
    BY <1>7, KeptRows DEF BagInv
  <1>8. ASSUME NEW s \in Owned, NEW id \in Item, OnWeaponPaintSwitch(s, id)
        PROVE  BagInv'
    <2> DEFINE v == IF id = Remover THEN None ELSE id
    <2>1. /\ call = Idle /\ call' = call
          /\ bag' = bag \/ bag' = [bag EXCEPT ![s].paint = v]
      BY <1>8 DEF OnWeaponPaintSwitch, Store
    <2>2. Keeps(bag) /\ Keeps([bag EXCEPT ![s].paint = v])
      BY <1>0, OtherColumns DEF Owned
    <2> HIDE DEF v
    <2> QED
      BY <1>7, <2>1, <2>2
  <1>9. ASSUME NEW s \in Owned, OnLockItem(s)
        PROVE  BagInv'
    <2>1. /\ call = Idle /\ call' = call
          /\ bag' = bag \/ bag' = [bag EXCEPT ![s].lock = ~@]
      BY <1>9 DEF OnLockItem, Store
    <2>2. bag' = bag \/ bag' = [bag EXCEPT ![s].lock = ~bag[s].lock]
      BY <1>0, <2>1 DEF RowsOf, Row, Columns
    <2>3. Keeps(bag) /\ Keeps([bag EXCEPT ![s].lock = ~bag[s].lock])
      BY <1>0, OtherColumns DEF Owned
    <2> QED
      BY <1>7, <2>1, <2>2, <2>3
  <1> QED
    BY <1>1, <1>2, <1>4, <1>5, <1>6, <1>8, <1>9 DEF Request

\* What the steps of enhancing and cleaning write after the materials are used up.
LEMMA ResultsKeep ==
  ASSUME TableInv, StoreExp \/ Roll \/ StoreDecrease
  PROVE  Keeps(bag')
  <1>1. RowsOf(bag) /\ call.op \in {"insert", "roll", "decrease"}
    BY DEF TableInv, StoreExp, Roll, StoreDecrease
  <1>2. call.target.slot \in Slot
    BY <1>1 DEF TableInv, CallOf, CopyOf
  <1>3. ASSUME NEW r, StoreResult(r) PROVE Keeps(bag')
    <2>1. /\ Keeps(bag)
          /\ Keeps([bag EXCEPT ![call.target.slot].level = r.level,
                               ![call.target.slot].exp = r.exp, ![call.target.slot].attr = r.attr])
      BY <1>1, <1>2, OtherColumns
    <2> QED
      BY <1>3, <2>1 DEF StoreResult, Store
  <1>4. CASE StoreExp
    <2>1. PICK v : bag' = bag \/ bag' = [bag EXCEPT ![call.target.slot].exp = v]
      BY <1>4 DEF StoreExp, Store
    <2>2. Keeps(bag) /\ Keeps([bag EXCEPT ![call.target.slot].exp = v])
      BY <1>1, <1>2, OtherColumns
    <2> QED
      BY <2>1, <2>2
  <1>5. CASE Roll
    BY <1>3, <1>5 DEF Roll
  <1>6. CASE StoreDecrease
    BY <1>3, <1>6 DEF StoreDecrease
  <1> QED
    BY <1>4, <1>5, <1>6

LEMMA StepBagInv ==
  ASSUME TableInv, BagInv, Step
  PROVE  BagInv'
  <1>0. RowsOf(bag) /\ Counts(bag)
    BY DEF TableInv, BagInv
  <1>1. CASE UseMaterial
    <2> DEFINE u == call.use   m == Head(u)
    <2>1. call.op = "insert" /\ u # <<>> /\ bag' \in {bag, OnItemUse(m)}
      BY <1>1 DEF UseMaterial, Store
    <2>2. PICK S : u \in Seq(S)
      BY <2>1 DEF BagInv, UseOf
    <2>3. /\ \A k \in 1 .. Len(u) : Material(u[k], bag)
          /\ \A j, k \in 1 .. Len(u) : u[j].slot = u[k].slot => u[j].row.count = u[k].row.count
      BY <2>1 DEF BagInv, UseOf
    <2>4. call'.op = "insert" /\ call'.use = Tail(u)
      <3>1. DOMAIN call = {"op", "target", "use", "total"}
        BY <2>1 DEF TableInv, CallOf
      <3>2. \E n : call' = [call EXCEPT !.use = Tail(u), !.total = n]
        BY <1>1 DEF UseMaterial
      <3> QED
        BY <2>1, <3>1, <3>2
    <2> HIDE DEF u, m
    <2>5. /\ Len(u) \in Nat \ {0} /\ m = u[1] /\ Tail(u) \in Seq(S)
          /\ Len(Tail(u)) = Len(u) - 1
          /\ \A k \in 1 .. Len(Tail(u)) : Tail(u)[k] = u[k + 1]
      <3>1. u \in Seq(S) /\ u # <<>>
        BY <2>1, <2>2
      <3>2. Len(u) \in Nat \ {0} /\ Head(u) = u[1]
        BY <3>1, EmptySeq
      <3> QED
        BY <3>1, <3>2, HeadTailProperties DEF m
    <2>6. Material(m, bag)
      BY <2>3, <2>5
    <2>7. Counts(bag')
      BY <1>0, <2>1, <2>6, UseRows
    <2>8. ASSUME NEW k \in 1 .. Len(Tail(u))
          PROVE  Material(Tail(u)[k], bag')
      <3> DEFINE c == Tail(u)[k]
      <3>1. k + 1 \in 1 .. Len(u) /\ c = u[k + 1] /\ 1 \in 1 .. Len(u)
        BY <2>5
      <3>2. Material(c, bag)
        BY <2>3, <3>1
      <3>3. c.slot = m.slot => c.row.count = m.row.count
        BY <2>3, <2>5, <3>1
      <3> SUFFICES Material(c, bag')
        OBVIOUS
      <3> HIDE DEF c
      <3>4. CASE bag' = bag
        BY <3>2, <3>4
      <3>5. CASE bag' = OnItemUse(m) /\ c.slot # m.slot
        <4>1. bag'[c.slot] = bag[c.slot]
          BY <1>0, <2>6, <3>2, <3>5, UseRows DEF Material
        <4> QED
          BY <3>2, <4>1 DEF Material
      <3>6. CASE bag' = OnItemUse(m) /\ c.slot = m.slot
        <4>1. /\ m.row.count = 1 => bag'[c.slot].id = None
              /\ m.row.count > 1 => bag'[c.slot].count = m.row.count - 1
          BY <1>0, <2>6, <3>6, UseRows
        <4> QED
          BY <3>2, <3>3, <3>6, <4>1 DEF Material
      <3> QED
        BY <2>1, <3>4, <3>5, <3>6
    <2>9. \A j, k \in 1 .. Len(Tail(u)) :
            Tail(u)[j].slot = Tail(u)[k].slot => Tail(u)[j].row.count = Tail(u)[k].row.count
      <3> SUFFICES ASSUME NEW j \in 1 .. Len(Tail(u)), NEW k \in 1 .. Len(Tail(u)),
                          Tail(u)[j].slot = Tail(u)[k].slot
          PROVE  Tail(u)[j].row.count = Tail(u)[k].row.count
        OBVIOUS
      <3>1. j + 1 \in 1 .. Len(u) /\ k + 1 \in 1 .. Len(u)
        BY <2>5
      <3> QED
        BY <2>3, <2>5, <3>1
    <2> QED
      BY <2>4, <2>5, <2>7, <2>8, <2>9 DEF BagInv, UseOf
  <1>2. CASE StoreExp \/ Roll \/ StoreDecrease
    <2>1. Counts(bag')
      BY <1>2, ResultsKeep, KeptRows
    <2>2. call'.op \in {"idle", "roll"}
      <3>1. CASE StoreExp
        BY <3>1 DEF StoreExp
      <3>2. CASE Roll \/ StoreDecrease
        <4>1. call' = Idle
          BY <3>2 DEF Roll, StoreDecrease
        <4> QED
          BY <4>1 DEF Idle
      <3> QED
        BY <1>2, <3>1, <3>2
    <2> QED
      BY <2>1, <2>2 DEF BagInv, UseOf
  <1>3. CASE UseApplied
    <2>1. call.op = "applied" /\ call'.op = "idle" /\ bag' \in {bag, OnItemUse(call.use)}
      BY <1>3 DEF UseApplied, Store, Idle
    <2>2. Material(call.use, bag)
      BY <2>1 DEF BagInv, UseOf, Counts, Material
    <2>3. Counts(bag')
      BY <1>0, <2>1, <2>2, UseRows
    <2> QED
      BY <2>1, <2>3 DEF BagInv, UseOf
  <1> QED
    BY <1>1, <1>2, <1>3 DEF Step

LEMMA NextBagInv ==
  ASSUME TableInv, BagInv, [Next]_vars
  PROVE  BagInv'
  <1>1. ASSUME Counts(bag'), call'.op \notin {"insert", "applied"}
        PROVE  BagInv'
    BY <1>1 DEF BagInv, UseOf
  <1>2. ASSUME NEW id, AddItem(id) PROVE Counts(bag')
    <2>1. CASE bag' = bag
      BY <2>1 DEF BagInv
    <2>2. ASSUME NEW s, bag' = Write(s, New(id, 1)) PROVE Counts(bag')
      <3>1. New(id, 1).part = <<None, None>> /\ New(id, 1).count = 1
        BY DEF New
      <3>2. \A z \in Slot : bag'[z] = bag[z] \/ bag'[z] = New(id, 1)
        BY <2>2 DEF Write, TableInv, RowsOf
      <3> QED
        BY <3>1, <3>2 DEF BagInv, Counts
    <2> QED
      BY <1>2, <2>1, <2>2 DEF AddItem, Store
  <1>3. CASE OnKillEvent \/ GiveWeapon
    <2>1. Counts(bag')
      BY <1>2, <1>3 DEF OnKillEvent, GiveWeapon, BagInv
    <2>2. call'.op = "idle"
      BY <1>3 DEF OnKillEvent, GiveWeapon, Idle
    <2> QED
      BY <1>1, <2>1, <2>2
  <1>4. ASSUME NEW w \in Word, NEW k \in Positions(w) \cup {0}, NEW c \in Char,
               SetCharacter(w, k, c)
        PROVE  BagInv'
    <2>1. bag' = bag /\ (call' = Idle \/ call' = [op |-> "weapon", word |-> w])
      BY <1>4 DEF SetCharacter
    <2> QED
      BY <1>1, <2>1 DEF BagInv, Idle
  <1>5. CASE OnBingoUpdate \/ ClearPrizes \/ StartBingo \/ Crash
    <2>1. bag' = bag /\ call'.op \notin {"insert", "applied"}
      BY <1>5 DEF OnBingoUpdate, ClearPrizes, StartBingo, Crash, Idle
    <2> QED
      BY <1>1, <2>1 DEF BagInv
  <1>6. CASE InsertSlot \/ InsertPrize
    <2>1. bag' = bag /\ call.op \in {"slots", "prizes"} /\ \E n : call' = [call EXCEPT !.todo = n]
      BY <1>6 DEF InsertSlot, InsertPrize
    <2>2. call'.op \in {"slots", "prizes"}
      BY <2>1
    <2> QED
      BY <1>1, <2>1, <2>2 DEF BagInv
  <1>7. CASE UNCHANGED vars
    BY <1>7 DEF vars, BagInv
  <1> QED
    BY <1>3, <1>4, <1>5, <1>6, <1>7, RequestBagInv, StepBagInv DEF Next, GamesNext

-----------------------------------------------------------------------------
(* Applying an item *)

Potential(id) == InBag(id) + Worn(id) - Due(id)

\* A step that brings nothing, with nothing due before it and nothing after it.
LEMMA QuietApplied ==
  ASSUME BagInv, BagInv', NEW id, id # None, NoMore(id), Due(id) = 0, Due(id)' = 0
  PROVE  Potential(id)' <= Potential(id)
  <1>1. InBag(id)' <= InBag(id) /\ InBag(id)' \in Nat /\ InBag(id) \in Nat
    BY NoMoreInBag, InBagIs DEF BagInv, NoMore
  <1>2. Worn(id)' <= Worn(id) /\ Worn(id)' \in Nat /\ Worn(id) \in Nat
    BY NoMoreWorn, WornIs DEF NoMore
  <1>3. Potential(id)' = InBag(id)' + Worn(id)' - Due(id)'
    BY DEF Potential
  <1> HIDE DEF Due
  <1> QED
    BY <1>1, <1>2, <1>3 DEF Potential

\* A paint or a part is put on, and its row is due.
LEMMA PutOn ==
  ASSUME BagInv, BagInv', NEW id, id # None, Due(id) = 0, Due(id)' = 1,
         \A s \in Slot : bag'[s].id = bag[s].id /\ bag'[s].count = bag[s].count,
         NEW s \in Slot, NEW k \in {1, 2},
         \/ /\ \A z \in Slot : z # s => bag'[z].paints = bag[z].paints
            /\ \A z \in Slot : bag'[z].part = bag[z].part
         \/ /\ \A z \in Slot : bag'[z].paints = bag[z].paints
            /\ \A z \in Slot, j \in {1, 2} :
                 <<z, j>> # <<s, k>> => bag'[z].part[j] = bag[z].part[j]
  PROVE  Potential(id)' <= Potential(id)
  <1>1. InBag(id)' <= InBag(id) /\ InBag(id)' \in Nat /\ InBag(id) \in Nat
    <2>1. \A z \in Slot : bag'[z].id = id => bag[z].id = id /\ bag'[z].count <= bag[z].count
      BY DEF BagInv, Counts
    <2> QED
      BY <2>1, NoMoreInBag, InBagIs DEF BagInv
  <1>2. /\ IsFiniteSet(Sheet(id)) /\ IsFiniteSet(Fitted(id))
        /\ Worn(id) = Cardinality(Sheet(id)) + Cardinality(Fitted(id))
        /\ Cardinality(Sheet(id)) \in Nat /\ Cardinality(Fitted(id)) \in Nat
    BY WornIs
  <1>3. Worn(id)' = Cardinality(Sheet(id)') + Cardinality(Fitted(id)')
    BY DEF Worn, Sheet, Fitted
  <1>4. /\ IsFiniteSet(Sheet(id) \cup {s})
        /\ Cardinality(Sheet(id) \cup {s}) <= Cardinality(Sheet(id)) + 1
    <2>1. /\ IsFiniteSet(Sheet(id) \cup {s})
          /\ Cardinality(Sheet(id) \cup {s})
               = IF s \in Sheet(id) THEN Cardinality(Sheet(id)) ELSE Cardinality(Sheet(id)) + 1
      BY <1>2, FS_AddElement
    <2> QED
      BY <1>2, <2>1
  <1>5. /\ IsFiniteSet(Fitted(id) \cup {<<s, k>>})
        /\ Cardinality(Fitted(id) \cup {<<s, k>>}) <= Cardinality(Fitted(id)) + 1
    <2>1. /\ IsFiniteSet(Fitted(id) \cup {<<s, k>>})
          /\ Cardinality(Fitted(id) \cup {<<s, k>>})
               = IF <<s, k>> \in Fitted(id) THEN Cardinality(Fitted(id))
                 ELSE Cardinality(Fitted(id)) + 1
      BY <1>2, FS_AddElement
    <2> QED
      BY <1>2, <2>1
  <1>6. /\ Cardinality(Sheet(id)') \in Nat /\ Cardinality(Fitted(id)') \in Nat
        /\ Cardinality(Sheet(id)') + Cardinality(Fitted(id)')
             <= Cardinality(Sheet(id)) + Cardinality(Fitted(id)) + 1
    <2>1. CASE /\ \A z \in Slot : z # s => bag'[z].paints = bag[z].paints
               /\ \A z \in Slot : bag'[z].part = bag[z].part
      <3>1. Sheet(id)' \subseteq Sheet(id) \cup {s} /\ Fitted(id)' \subseteq Fitted(id)
        BY <2>1 DEF Sheet, Fitted
      <3>2. /\ Cardinality(Sheet(id)') <= Cardinality(Sheet(id) \cup {s})
            /\ Cardinality(Sheet(id)') \in Nat /\ Cardinality(Sheet(id) \cup {s}) \in Nat
        BY <1>4, <3>1, FS_Subset, FS_CardinalityType
      <3>3. /\ Cardinality(Fitted(id)') <= Cardinality(Fitted(id))
            /\ Cardinality(Fitted(id)') \in Nat
        BY <1>2, <3>1, FS_Subset, FS_CardinalityType
      <3> QED
        BY <1>2, <1>4, <3>2, <3>3
    <2>2. CASE /\ \A z \in Slot : bag'[z].paints = bag[z].paints
               /\ \A z \in Slot, j \in {1, 2} :
                    <<z, j>> # <<s, k>> => bag'[z].part[j] = bag[z].part[j]
      <3>1. Sheet(id)' \subseteq Sheet(id)
        BY <2>2 DEF Sheet
      <3>2. Fitted(id)' \subseteq Fitted(id) \cup {<<s, k>>}
        <4> SUFFICES ASSUME NEW e \in Slot \X {1, 2}, bag'[e[1]].part[e[2]] = id, e # <<s, k>>
            PROVE  bag[e[1]].part[e[2]] = id
          BY DEF Fitted
        <4>1. e[1] \in Slot /\ e[2] \in {1, 2} /\ <<e[1], e[2]>> # <<s, k>>
          OBVIOUS
        <4> QED
          BY <2>2, <4>1
      <3>3. /\ Cardinality(Fitted(id)') <= Cardinality(Fitted(id) \cup {<<s, k>>})
            /\ Cardinality(Fitted(id)') \in Nat /\ Cardinality(Fitted(id) \cup {<<s, k>>}) \in Nat
        BY <1>5, <3>2, FS_Subset, FS_CardinalityType
      <3>4. Cardinality(Sheet(id)') <= Cardinality(Sheet(id)) /\ Cardinality(Sheet(id)') \in Nat
        BY <1>2, <3>1, FS_Subset, FS_CardinalityType
      <3> QED
        BY <1>2, <1>5, <3>3, <3>4
    <2> QED
      BY <2>1, <2>2
  <1>7. Worn(id)' <= Worn(id) + 1 /\ Worn(id)' \in Nat /\ Worn(id) \in Nat
    BY <1>2, <1>3, <1>6
  <1>8. Potential(id)' = InBag(id)' + Worn(id)' - Due(id)'
    BY DEF Potential
  <1> HIDE DEF Due
  <1> QED
    BY <1>1, <1>7, <1>8 DEF Potential

\* The item applied is taken from its row.
LEMMA AppliedTaken ==
  ASSUME TableInv, BagInv, BagInv', NEW id, id # None, UseApplied, bag' = OnItemUse(call.use)
  PROVE  Potential(id)' <= Potential(id)
  <1> DEFINE c == call.use   z == c.slot   n == c.row.count
  <1>1. call.op = "applied" /\ call' = Idle
    BY DEF UseApplied
  <1>2. /\ z \in Slot /\ c.row.id # None /\ bag[z].id = c.row.id /\ bag[z].count = n
        /\ n \in Nat \ {0}
    BY <1>1 DEF BagInv, UseOf, Counts
  <1>3. Material(c, bag)
    BY <1>2 DEF Material
  <1>4. /\ \A s \in Slot : s # z => bag'[s] = bag[s]
        /\ \A s \in Slot : /\ bag'[s].id # None =>
                                bag'[s].id = bag[s].id /\ bag'[s].count <= bag[s].count
                           /\ bag'[s].paints \subseteq bag[s].paints
                           /\ \A k \in {1, 2} : bag'[s].part[k] \in {bag[s].part[k], None}
        /\ n = 1 => bag'[z].id = None
        /\ n > 1 => bag'[z].id = bag[z].id /\ bag'[z].count = n - 1
    BY <1>3, UseRows DEF TableInv, BagInv
  <1>5. Worn(id)' <= Worn(id) /\ Worn(id)' \in Nat /\ Worn(id) \in Nat
    BY <1>4, NoMoreWorn, WornIs
  <1>6. Due(id)' = 0 /\ Due(id) = (IF c.row.id = id THEN 1 ELSE 0)
    BY <1>1 DEF Due, Idle
  <1> HIDE DEF c
  <1>7. CASE c.row.id # id
    <2>1. NoMore(id)
      BY <1>4 DEF NoMore
    <2>2. Due(id) = 0 /\ Due(id)' = 0
      BY <1>6, <1>7
    <2> QED
      BY <2>1, <2>2, QuietApplied
  <1>8. CASE c.row.id = id
    <2> DEFINE f == RowsWith(id)
               g == [s \in {t \in Slot : bag'[t].id = id} |-> 1 .. bag'[s].count]
    <2>1. IsFiniteSet(Pairs(f)) /\ InBag(id) = Cardinality(Pairs(f)) /\ InBag(id) \in Nat
      BY InBagIs DEF BagInv
    <2>2. InBag(id)' = Cardinality(Pairs(g))
      BY DEF InBag
    <2>3. At(f, z) = 1 .. n
      BY <1>2, <1>8 DEF At, RowsWith
    <2>4. At(g, z) = 1 .. (n - 1)
      <3>1. CASE n = 1
        <4>1. bag'[z].id # id
          BY <1>4, <3>1
        <4>2. At(g, z) = {}
          BY <4>1 DEF At
        <4> QED
          BY <3>1, <4>2
      <3>2. CASE n > 1
        <4>1. bag'[z].id = id /\ bag'[z].count = n - 1
          BY <1>2, <1>4, <1>8, <3>2
        <4> QED
          BY <1>2, <4>1 DEF At
      <3> QED
        BY <1>2, <3>1, <3>2
    <2>5. ASSUME NEW s, s # z PROVE At(g, s) = At(f, s)
      BY <1>4, <2>5 DEF At, RowsWith
    <2> HIDE DEF f, g, z
    <2>6. At(g, z) = At(f, z) \ {n} /\ n \in At(f, z)
      BY <1>2, <2>3, <2>4
    <2>7. IsFiniteSet(Pairs(g)) /\ Cardinality(Pairs(g)) = Cardinality(Pairs(f)) - 1
      BY <2>1, <2>5, <2>6, PairLost
    <2>8. InBag(id)' = InBag(id) - 1
      BY <2>1, <2>2, <2>7
    <2>9. Due(id)' = 0 /\ Due(id) = 1
      BY <1>6, <1>8
    <2>10. Potential(id)' = InBag(id)' + Worn(id)' - Due(id)'
      BY DEF Potential
    <2> QED
      BY <1>5, <2>1, <2>8, <2>9, <2>10 DEF Potential
  <1> QED
    BY <1>7, <1>8

\* What keeps the rows in the columns that count brings nothing.
LEMMA KeepsNoMore ==
  ASSUME BagInv, Keeps(bag'), NEW id, id # None
  PROVE  NoMore(id)
  BY DEF BagInv, Counts, Keeps, NoMore

\* Nothing is due unless an item was applied.
LEMMA DueIs ==
  ASSUME NEW id
  PROVE  /\ call.op # "applied" => Due(id) = 0
         /\ call'.op # "applied" => Due(id)' = 0
  BY DEF Due

LEMMA RequestApplied ==
  ASSUME TableInv, BagInv, BagInv', NEW id, id # None, ~faulty', Request
  PROVE  Potential(id)' <= Potential(id)
  <1>0. RowsOf(bag) /\ Counts(bag)
    BY DEF TableInv, BagInv
  <1>1. call = Idle
    BY DEF Request, Enhance, Decrease, OnWeaponPaint, OnWeaponPaintSwitch, OnPartEquip,
           OnPartRemove, OnLockItem
  <1>2. Due(id) = 0
    BY <1>1, DueIs DEF Idle
  <1>3. ASSUME NoMore(id), call'.op # "applied" PROVE Potential(id)' <= Potential(id)
    BY <1>2, <1>3, QuietApplied, DueIs
  <1>4. ASSUME Keeps(bag'), call'.op # "applied" PROVE Potential(id)' <= Potential(id)
    BY <1>3, <1>4, KeepsNoMore
  <1>5. call'.op = "applied" \/ call'.op # "applied"
    OBVIOUS
  <1>6. ASSUME NEW s \in Owned, NEW q, Enhance(s, q) PROVE Potential(id)' <= Potential(id)
    <2>1. bag' = bag
      BY <1>6 DEF Enhance
    <2>2. call'.op # "applied"
      <3>1. CASE q = <<>>
        BY <1>6, <3>1 DEF Enhance
      <3>2. CASE q # <<>>
        BY <1>6, <3>2 DEF Enhance
      <3> QED
        BY <3>1, <3>2
    <2> QED
      BY <1>4, <2>1, <2>2 DEF Keeps
  <1>7. ASSUME NEW s \in Owned, NEW m \in Owned, Decrease(s, m)
        PROVE  Potential(id)' <= Potential(id)
    <2>1. call'.op = "decrease" /\ bag' \in {bag, OnItemUse(Copy(m))}
      BY <1>7 DEF Decrease, Store
    <2>2. CASE bag' = bag
      BY <1>4, <2>1, <2>2 DEF Keeps
    <2>3. CASE bag' = OnItemUse(Copy(m))
      <3>1. NoMore(id)
        BY <1>0, <2>3, OwnedMaterial, UseRows DEF NoMore
      <3> QED
        BY <1>3, <2>1, <3>1
    <2> QED
      BY <2>1, <2>2, <2>3
  <1>8. ASSUME NEW p \in Owned, call' = [op |-> "applied", use |-> Copy(p)]
        PROVE  Due(id)' = IF bag[p].id = id THEN 1 ELSE 0
    BY <1>8 DEF Due, Copy
  <1>9. ASSUME NEW s \in Owned, NEW p \in Owned, OnWeaponPaint(s, p)
        PROVE  Potential(id)' <= Potential(id)
    <2> DEFINE v == bag[p].id
    <2>1. s \in Slot /\ call' = [op |-> "applied", use |-> Copy(p)]
      BY <1>9 DEF OnWeaponPaint, Owned
    <2>2. bag' = Painted(s, v)
      BY <1>9 DEF OnWeaponPaint, Store, Painted
    <2>3. /\ \A z \in Slot : /\ bag'[z].id = bag[z].id /\ bag'[z].count = bag[z].count
                             /\ bag'[z].part = bag[z].part
          /\ \A z \in Slot : z # s => bag'[z].paints = bag[z].paints
          /\ bag'[s].paints = bag[s].paints \cup {v}
      BY <1>0, <2>1, <2>2, Dressing
    <2>4. CASE v = id
      <3>1. Due(id)' = 1
        BY <1>8, <2>1, <2>4
      <3>2. 1 \in {1, 2}
        OBVIOUS
      <3> HIDE DEF v
      <3> QED
        BY <1>2, <2>1, <2>3, <3>1, <3>2, PutOn
    <2>5. CASE v # id
      <3>1. Due(id)' = 0
        BY <1>8, <2>1, <2>5
      <3> HIDE DEF v
      <3>2. NoMore(id)
        <4>1. \A z \in Slot : bag'[z].id = id => bag'[z].count <= bag[z].count
          BY <1>0, <2>3 DEF Counts
        <4> QED
          BY <2>3, <2>5, <4>1 DEF NoMore
      <3> QED
        BY <1>2, <3>1, <3>2, QuietApplied
    <2> QED
      BY <2>4, <2>5
  <1>10. ASSUME NEW s \in Owned, NEW p \in Owned, NEW k \in 1 .. 2, OnPartEquip(s, p, k)
        PROVE  Potential(id)' <= Potential(id)
    <2> DEFINE v == bag[p].id
    <2>1. s \in Slot /\ call' = [op |-> "applied", use |-> Copy(p)]
      BY <1>10 DEF OnPartEquip, Owned
    <2>2. bag' = WithPart(s, k, v)
      BY <1>10 DEF OnPartEquip, Store, WithPart
    <2>3. /\ \A z \in Slot : /\ bag'[z].id = bag[z].id /\ bag'[z].count = bag[z].count
                             /\ bag'[z].paints = bag[z].paints
          /\ \A z \in Slot, j \in 1 .. 2 : <<z, j>> # <<s, k>> => bag'[z].part[j] = bag[z].part[j]
          /\ bag'[s].part[k] = v
      BY <1>0, <2>1, <2>2, Fitting
    <2>4. k \in {1, 2} /\ \A j \in {1, 2} : j \in 1 .. 2
      OBVIOUS
    <2>5. CASE v = id
      <3>1. Due(id)' = 1
        BY <1>8, <2>1, <2>5
      <3> HIDE DEF v
      <3> QED
        BY <1>2, <2>1, <2>3, <2>4, <3>1, PutOn
    <2>6. CASE v # id
      <3>1. Due(id)' = 0
        BY <1>8, <2>1, <2>6
      <3> HIDE DEF v
      <3>2. NoMore(id)
        <4>1. \A z \in Slot : bag'[z].id = id => bag'[z].count <= bag[z].count
          BY <1>0, <2>3 DEF Counts
        <4>2. ASSUME NEW z \in Slot, NEW j \in {1, 2}, bag'[z].part[j] = id
              PROVE  bag[z].part[j] = id
          <5>1. CASE z = s /\ j = k
            BY <2>3, <2>6, <4>2, <5>1
          <5>2. CASE ~(z = s /\ j = k)
            <6>1. <<z, j>> # <<s, k>>
              BY <5>2
            <6> QED
              BY <2>3, <2>4, <4>2, <6>1
          <5> QED
            BY <5>1, <5>2
        <4> QED
          BY <2>3, <4>1, <4>2 DEF NoMore
      <3> QED
        BY <1>2, <3>1, <3>2, QuietApplied
    <2> QED
      BY <2>5, <2>6
  <1>11. ASSUME NEW s \in Owned, NEW k \in 1 .. 2, OnPartRemove(s, k)
        PROVE  Potential(id)' <= Potential(id)
    <2>1. s \in Slot /\ call'.op # "applied"
      BY <1>11 DEF OnPartRemove, Owned, Idle
    <2>2. bag' = WithPart(s, k, None)
      BY <1>11 DEF OnPartRemove, Store, WithPart
    <2>3. /\ \A z \in Slot : /\ bag'[z].id = bag[z].id /\ bag'[z].count = bag[z].count
                             /\ bag'[z].paints = bag[z].paints
          /\ \A z \in Slot, j \in 1 .. 2 : <<z, j>> # <<s, k>> => bag'[z].part[j] = bag[z].part[j]
          /\ bag'[s].part[k] = None
      BY <1>0, <2>1, <2>2, Fitting
    <2>4. NoMore(id)
      <3>1. \A z \in Slot : bag'[z].id = id => bag'[z].count <= bag[z].count
        BY <1>0, <2>3 DEF Counts
      <3>2. ASSUME NEW z \in Slot, NEW j \in {1, 2}, bag'[z].part[j] = id
            PROVE  bag[z].part[j] = id
        <4>1. CASE z = s /\ j = k
          BY <2>3, <3>2, <4>1
        <4>2. CASE ~(z = s /\ j = k)
          <5>1. <<z, j>> # <<s, k>> /\ j \in 1 .. 2
            BY <4>2
          <5> QED
            BY <2>3, <3>2, <5>1
        <4> QED
          BY <4>1, <4>2
      <3> QED
        BY <2>3, <3>1, <3>2 DEF NoMore
    <2> QED
      BY <1>3, <2>1, <2>4
  <1>12. ASSUME NEW s \in Owned, NEW t \in Item, OnWeaponPaintSwitch(s, t)
        PROVE  Potential(id)' <= Potential(id)
    <2> DEFINE v == IF t = Remover THEN None ELSE t
    <2>1. call'.op # "applied" /\ bag' = [bag EXCEPT ![s].paint = v]
      BY <1>12 DEF OnWeaponPaintSwitch, Store, Idle
    <2>2. Keeps([bag EXCEPT ![s].paint = v])
      BY <1>0, OtherColumns DEF Owned
    <2> HIDE DEF v
    <2> QED
      BY <1>4, <2>1, <2>2
  <1>13. ASSUME NEW s \in Owned, OnLockItem(s)
        PROVE  Potential(id)' <= Potential(id)
    <2>1. call'.op # "applied" /\ bag' = [bag EXCEPT ![s].lock = ~@]
      BY <1>13 DEF OnLockItem, Store, Idle
    <2>2. bag' = [bag EXCEPT ![s].lock = ~bag[s].lock]
      BY <1>0, <2>1 DEF RowsOf, Row, Columns
    <2>3. Keeps([bag EXCEPT ![s].lock = ~bag[s].lock])
      BY <1>0, OtherColumns DEF Owned
    <2> QED
      BY <1>4, <2>1, <2>2, <2>3
  <1> QED
    BY <1>6, <1>7, <1>9, <1>10, <1>11, <1>12, <1>13 DEF Request

LEMMA StepApplied ==
  ASSUME TableInv, BagInv, BagInv', NEW id, id # None, ~faulty', Step
  PROVE  Potential(id)' <= Potential(id)
  <1>1. call'.op # "applied"
    BY StepOp
  <1>2. CASE UseMaterial
    <2> DEFINE m == Head(call.use)
    <2>1. call.op = "insert" /\ call.use # <<>> /\ bag' = OnItemUse(m)
      BY <1>2 DEF UseMaterial, Store
    <2>2. Material(m, bag)
      <3>1. PICK S : call.use \in Seq(S)
        BY <2>1 DEF BagInv, UseOf
      <3>2. Len(call.use) \in Nat \ {0} /\ m = call.use[1]
        BY <2>1, <3>1, EmptySeq
      <3> QED
        BY <2>1, <3>2 DEF BagInv, UseOf
    <2> HIDE DEF m
    <2>3. NoMore(id)
      BY <2>1, <2>2, UseRows DEF TableInv, BagInv, NoMore
    <2> QED
      BY <1>1, <2>1, <2>3, DueIs, QuietApplied
  <1>3. CASE StoreExp \/ Roll \/ StoreDecrease
    <2>1. call.op # "applied"
      BY <1>3 DEF StoreExp, Roll, StoreDecrease
    <2>2. NoMore(id)
      BY <1>3, ResultsKeep, KeepsNoMore
    <2> QED
      BY <1>1, <2>1, <2>2, DueIs, QuietApplied
  <1>4. CASE UseApplied
    <2>1. bag' = OnItemUse(call.use)
      BY <1>4 DEF UseApplied, Store
    <2> QED
      BY <1>4, <2>1, AppliedTaken
  <1> QED
    BY <1>2, <1>3, <1>4 DEF Step

\* The games bring no item that is counted, as long as they do not move on.
LEMMA GamesApplied ==
  ASSUME LettersInv, BagInv, BagInv', NEW id, id # None, GamesNext, UNCHANGED games
  PROVE  Potential(id)' <= Potential(id)
  <1>1. ~OnKillEvent
    BY DEF OnKillEvent, games, LettersInv
  <1>2. ~GiveWeapon
    <2> SUFFICES ASSUME GiveWeapon PROVE FALSE
      OBVIOUS
    <2>1. call.word \in Word /\ won[call.word] = 0 /\ DOMAIN won = Word
      BY DEF GiveWeapon, LettersInv
    <2>2. won' = [won EXCEPT ![call.word] = @ + 1] /\ won' = won
      BY DEF GiveWeapon, games
    <2> QED
      BY <2>1, <2>2
  <1>3. bag' = bag /\ call.op # "applied" /\ call'.op # "applied"
    <2>1. ASSUME NEW w \in Word, NEW k \in Positions(w) \cup {0}, NEW c \in Char,
                 SetCharacter(w, k, c)
          PROVE  bag' = bag /\ call.op # "applied" /\ call'.op # "applied"
      <3>1. bag' = bag /\ call = Idle /\ (call' = Idle \/ call' = [op |-> "weapon", word |-> w])
        BY <2>1 DEF SetCharacter
      <3> QED
        BY <3>1 DEF Idle
    <2>2. CASE InsertSlot \/ InsertPrize
      <3>1. bag' = bag /\ call.op \in {"slots", "prizes"} /\ \E n : call' = [call EXCEPT !.todo = n]
        BY <2>2 DEF InsertSlot, InsertPrize
      <3> QED
        BY <3>1
    <2>3. CASE OnBingoUpdate \/ ClearPrizes \/ StartBingo
      BY <2>3 DEF OnBingoUpdate, ClearPrizes, StartBingo, Idle
    <2> QED
      BY <1>1, <1>2, <2>1, <2>2, <2>3 DEF GamesNext
  <1>4. Keeps(bag')
    BY <1>3 DEF Keeps
  <1> QED
    BY <1>3, <1>4, KeepsNoMore, DueIs, QuietApplied

-----------------------------------------------------------------------------
(* The properties *)

\* Whatever was done to an item, no attribute of it is above its cap in ReinforceMaxLv, and
\* their total is within TotalMaxLv.
THEOREM EnhancedWithinTable == Spec => []WithinTable
  <1>1. TableInv => WithinTable
    BY DEF TableInv, RowsOf, Row, Fits, WithinTable
  <1> QED
    BY <1>1, SpecTableInv, PTL

\* The loop of OnEnhancementRequest that draws until it meets an attribute with room is never
\* entered without one.
THEOREM DrawingEnds == Spec => []DrawEnds
  <1>1. TableInv => DrawEnds
    <2> SUFFICES ASSUME TableInv, call.op = "roll"
        PROVE  Drawn(call.target.row.id, call.target.row.attr) # {}
      BY DEF DrawEnds
    <2> DEFINE r == call.target.row
    <2>1. Row(r) /\ r.id \in Reinforceable /\ ToGo(r)
      BY DEF TableInv, CallOf, CopyOf
    <2> QED
      BY <2>1, DrawPossible DEF Row, ToGo
  <1> QED
    BY <1>1, SpecTableInv, PTL

\* A bingo desk that is in play has all its numbers and prizes, however often the process
\* ended while OnBingoUpdateRequest laid it out, unless a statement failed.
THEOREM DeskInPlayComplete == Spec => []DeskComplete
  <1>1. GamesInit => DeskInv
    <2> SUFFICES ASSUME GamesInit PROVE DeskInv
      OBVIOUS
    <2>1. /\ DOMAIN desk = {"slots", "prizes", "started"}
          /\ desk.slots = 0 /\ desk.prizes = 0 /\ ~desk.started
      BY DEF GamesInit
    <2>2. call.op = "idle" /\ ~faulty
      BY DEF GamesInit, Init, Idle
    <2> QED
      BY <2>1, <2>2 DEF DeskInv, Laying
  <1>2. DeskInv /\ [Next]_vars => DeskInv'
    BY NextDeskInv
  <1>3. DeskInv => DeskComplete
    BY DEF DeskInv, DeskComplete
  <1> QED
    BY <1>1, <1>2, <1>3, PTL DEF Spec

\* Every letter a kill brought is still in the user's rows, fills one position of one word, or
\* was taken for a slot past the end of a word, less those a joker row with a count of 0 was
\* taken for.  A word that is full is opened, a word that is opened has taken as many letters
\* as it is long, and its weapon is given at most once.
THEOREM LettersAccounted == Spec => []LettersSpent
  <1>1. LettersInv => LettersSpent
    BY DEF LettersInv, WordRow, LettersSpent
  <1> QED
    BY <1>1, InitLettersInv, NextLettersInv, PTL DEF Spec

\* As long as no statement fails and the process does not end in between, OnWeaponPaintRequest,
\* OnWeaponPartEquip and their relatives never multiply a paint or a part: those worn and those
\* in the inventory, less the one that is about to be taken, never grow.
THEOREM NothingMultiplied == Spec => AppliedOnce
  <1> DEFINE Things == Parts \cup UNION {Paints[i] : i \in Item}
             Inv == TableInv /\ BagInv /\ LettersInv
  <1>1. \A id \in Things : id # None
    BY PaintAssumption, NoneAssumption
  <1>2. Inv /\ Inv' /\ [Next]_vars =>
          [\A id \in Things : (~faulty' /\ ~Crash /\ UNCHANGED games)
             => (InBag(id) + Worn(id) - Due(id))' <= InBag(id) + Worn(id) - Due(id)]_vars
    <2> SUFFICES ASSUME Inv, Inv', [Next]_vars, ~(UNCHANGED vars), NEW id \in Things,
                        ~faulty', ~Crash, UNCHANGED games
        PROVE  (InBag(id) + Worn(id) - Due(id))' <= InBag(id) + Worn(id) - Due(id)
      OBVIOUS
    <2>1. Potential(id)' <= Potential(id)
      BY <1>1, RequestApplied, StepApplied, GamesApplied DEF Next
    <2> QED
      BY <2>1 DEF Potential
  <1>3. GamesInit => Inv
    BY InitTableInv, InitBagInv, InitLettersInv
  <1>4. Inv /\ [Next]_vars => Inv'
    BY NextTableInv, NextBagInv, NextLettersInv
  <1> HIDE DEF Inv
  <1> QED
    BY <1>2, <1>3, <1>4, PTL DEF Spec, AppliedOnce

-----------------------------------------------------------------------------
(* Quests: what the tables and the queue of calls hold *)

\* What a match counts of a task.
Count == [units : Nat, finished : {FALSE}, streak : Nat]

\* The calls a handler may still have to make.
Job ==
  [do : {"event"}, user : User, cond : {k \in DOMAIN Conditions : Conditions[k].event \in Event},
   how : How]
  \cup [do : {"login", "levelup"}, user : User, task : {t \in Tasks : ~MatchOnly(t)}, count : Nat]
  \cup [do : {"reward"}, user : User, task : Tasks]
  \cup [do : {"exp"}, user : User, exp : Nat]
  \cup [do : {"store"}, user : User, char : [exp : Int, level : Int]]
  \cup [do : {"leave"}, user : User]
  \cup [do : {"apply"}, user : User, task : {t \in Tasks : ~UserOnly(t)},
        progress : [units : Nat, finished : {FALSE}]]
  \cup [do : {"next", "reset"}, period : {"day", "week"}]

QuestTyped ==
  /\ row \in [User -> [Tasks -> [units : Nat, finished : BOOLEAN]]]
  /\ char \in [User -> [exp : Int, level : Int]]
  /\ match \in [User -> Mode \cup {NoMatch}]
  /\ DOMAIN temp = User
  /\ \A u \in User : /\ DOMAIN temp[u] \subseteq {t \in Tasks : ~UserOnly(t)}
                     /\ \A t \in DOMAIN temp[u] : temp[u][t] \in Count
  /\ todo \in Seq(Job)
  /\ paid \in [User -> [Tasks -> Nat]]
  /\ counted \in [User -> [Tasks -> Nat]]

\* The order of the calls.
RewardIsNext == ~Ready => \A j \in Range(Rest) : j.do # "reward"
InMatch ==
  /\ \A u \in User : match[u] = NoMatch => DOMAIN temp[u] = {}
  /\ \A a \in Range(todo) : /\ a.do = "event" => match[a.user] # NoMatch
                            /\ a.do = "apply" => match[a.user] = NoMatch
OneAfterAnother ==
  \A a, b \in Range(todo) :
    /\ a.do = "event" => b.do # "leave"
    /\ a.do = "next" => b.do \notin {"leave", "apply"}
    /\ a.do = "apply" /\ b.do = "apply" /\ a.user = b.user /\ a.task = b.task
         => a.progress = b.progress

\* The units.
UpToGoal ==
  /\ \A u \in User, t \in Tasks : /\ row[u][t].units <= Goal[t]
                                  /\ row[u][t].finished => row[u][t].units = Goal[t]
  /\ \A u \in User : \A t \in DOMAIN temp[u] : temp[u][t].units <= Goal[t]
  /\ \A a \in Range(todo) : a.do = "apply" => a.progress.units <= Goal[a.task]
OnlyGrows ==
  /\ \A u \in User : \A t \in DOMAIN temp[u] : MatchOnly(t) => row[u][t].units <= temp[u][t].units
  /\ \A a \in Range(todo) :
       a.do = "apply" /\ MatchOnly(a.task) => row[a.user][a.task].units <= a.progress.units
Somewhere(u, t) ==
  \/ counted[u][t] <= row[u][t].units
  \/ t \in DOMAIN temp[u] /\ counted[u][t] <= temp[u][t].units
  \/ \E a \in Range(todo) : /\ a.do = "apply" /\ a.user = u /\ a.task = t
                            /\ counted[u][t] <= a.progress.units
NothingMissing == \A u \in User, t \in Tasks : MatchOnly(t) => Somewhere(u, t)
PaidAtGoal ==
  \A u \in User, t \in Tasks : MatchOnly(t) \/ UserOnly(t) =>
    /\ row[u][t].units < Goal[t] => paid[u][t] = 0
    /\ paid[u][t] <= 1
    /\ \A a \in Range(todo) : a.do = "reward" /\ a.user = u /\ a.task = t =>
         paid[u][t] = 0 /\ row[u][t].units = Goal[t]

QuestInv == /\ QuestTyped /\ RewardIsNext /\ InMatch /\ OneAfterAnother
            /\ UpToGoal /\ OnlyGrows /\ NothingMissing /\ PaidAtGoal


-----------------------------------------------------------------------------
(* Calls *)

\* What the kind of a call says of it.
LEMMA JobKinds ==
  ASSUME NEW j \in Job
  PROVE  /\ j.do \in {"event", "login", "levelup", "reward", "exp", "store", "leave", "apply",
                      "next", "reset"}
         /\ j.do = "event" => /\ j.user \in User /\ j.how \in How /\ j.cond \in DOMAIN Conditions
                              /\ Conditions[j.cond].event \in Event
         /\ j.do \in {"login", "levelup"} =>
              j.user \in User /\ j.task \in Tasks /\ ~MatchOnly(j.task) /\ j.count \in Nat
         /\ j.do = "reward" => j.user \in User /\ j.task \in Tasks /\ j = Reward(j.user, j.task)
         /\ j.do = "exp" => j.user \in User /\ j.exp \in Nat
         /\ j.do = "store" => j.user \in User /\ j.char \in [exp : Int, level : Int]
         /\ j.do = "leave" => j.user \in User
         /\ j.do = "apply" => /\ j.user \in User /\ j.task \in Tasks /\ ~UserOnly(j.task)
                              /\ j.progress \in [units : Nat, finished : {FALSE}]
         /\ j.do \in {"next", "reset"} => j.period \in {"day", "week"}
  BY DEF Job, Reward

\* The running call and the calls that are left when it is done.
LEMMA Popped ==
  ASSUME QuestInv, ~Ready
  PROVE  /\ First \in Job /\ First \in Range(todo)
         /\ Rest \in Seq(Job) /\ Range(todo) = {First} \cup Range(Rest)
         /\ \A j \in Range(Rest) : j \in Job /\ j.do # "reward"
  <1>1. todo \in Seq(Job) /\ todo # <<>>
    BY DEF QuestInv, QuestTyped, Ready
  <1>2. /\ First \in Job /\ Rest \in Seq(Job) /\ Len(Rest) = Len(todo) - 1
        /\ \A i \in 1..Len(Rest) : Rest[i] = todo[i + 1]
    BY <1>1, HeadTailProperties DEF First, Rest
  <1>3. DOMAIN todo = 1..Len(todo) /\ Len(todo) \in Nat /\ Len(todo) >= 1 /\ First = todo[1]
    BY <1>1, LenProperties, EmptySeq DEF First
  <1>4. DOMAIN Rest = 1..Len(Rest)
    BY <1>2, LenProperties
  <1>5. First \in Range(todo)
    BY <1>3 DEF Range
  <1>6. Range(Rest) \subseteq Range(todo)
    <2> SUFFICES ASSUME NEW i \in DOMAIN Rest PROVE Rest[i] \in Range(todo)
      BY DEF Range
    <2>1. i + 1 \in DOMAIN todo /\ Rest[i] = todo[i + 1]
      BY <1>2, <1>3, <1>4
    <2> QED BY <2>1 DEF Range
  <1>7. Range(todo) \subseteq {First} \cup Range(Rest)
    <2> SUFFICES ASSUME NEW i \in DOMAIN todo, i # 1 PROVE todo[i] \in Range(Rest)
      BY <1>3 DEF Range
    <2>1. i - 1 \in DOMAIN Rest /\ Rest[i - 1] = todo[i]
      BY <1>2, <1>3, <1>4
    <2> QED BY <2>1 DEF Range
  <1>8. \A j \in Range(Rest) : j \in Job
    BY <1>2, ElementOfSeq, <1>4 DEF Range
  <1> QED BY <1>2, <1>5, <1>6, <1>7, <1>8 DEF QuestInv, RewardIsNext

\* Calls that are made before the rest.
LEMMA Pushed ==
  ASSUME NEW P \in Seq(Job), NEW Q \in Seq(Job)
  PROVE  P \o Q \in Seq(Job) /\ Range(P \o Q) = Range(P) \cup Range(Q)
  BY ConcatProperties, RangeConcatenation

LEMMA PushedOne ==
  ASSUME NEW j \in Job, NEW Q \in Seq(Job)
  PROVE  /\ <<j>> \in Seq(Job) /\ Range(<<j>>) = {j}
         /\ <<j>> \o Q \in Seq(Job) /\ <<j>> \o Q # <<>>
         /\ Range(<<j>> \o Q) = {j} \cup Range(Q)
         /\ Head(<<j>> \o Q) = j /\ Tail(<<j>> \o Q) = Q
  <1>1. <<j>> \in Seq(Job) /\ Range(<<j>>) = {j}
    BY DEF Range
  <1>2. <<j>> \o Q \in Seq(Job) /\ Range(<<j>> \o Q) = {j} \cup Range(Q)
    BY <1>1, Pushed
  <1> QED BY <1>1, <1>2

LEMMA PushedNone == ASSUME NEW Q \in Seq(Job) PROVE <<>> \o Q = Q
  BY ConcatEmptySeq

LEMMA TailOf ==
  ASSUME NEW Q \in Seq(Job), Q # <<>>
  PROVE  Range(Tail(Q)) \subseteq Range(Q)
  <1>1. /\ Tail(Q) \in Seq(Job) /\ Len(Tail(Q)) = Len(Q) - 1
        /\ \A i \in 1..Len(Tail(Q)) : Tail(Q)[i] = Q[i + 1]
    BY HeadTailProperties
  <1>2. DOMAIN Q = 1..Len(Q) /\ Len(Q) \in Nat /\ DOMAIN Tail(Q) = 1..Len(Tail(Q))
    BY <1>1, LenProperties
  <1> SUFFICES ASSUME NEW i \in DOMAIN Tail(Q) PROVE Tail(Q)[i] \in Range(Q)
    BY DEF Range
  <1>3. i + 1 \in DOMAIN Q /\ Tail(Q)[i] = Q[i + 1]
    BY <1>1, <1>2
  <1> QED BY <1>3 DEF Range

\* No calls but rewards keep the order when none is a reward.
LEMMA NoRewards ==
  ASSUME todo' \in Seq(Job), \A j \in Range(todo') : j.do # "reward"
  PROVE  RewardIsNext'
  <1>1. CASE todo' = <<>>
    BY <1>1 DEF RewardIsNext, Ready
  <1>2. CASE todo' # <<>>
    BY <1>2, TailOf DEF RewardIsNext, Rest
  <1> QED BY <1>1, <1>2

-----------------------------------------------------------------------------
(* Steps that count nothing *)

\* A step that leaves the units alone, and the calls that write them, keeps the invariant.
LEMMA QuietStep ==
  ASSUME QuestInv, UNCHANGED <<row, match, temp, paid, counted>>,
         char' \in [User -> [exp : Int, level : Int]], todo' \in Seq(Job),
         \A j \in Range(todo') : j \in Range(todo) \/ j.do \notin {"reward", "apply"},
         \A j \in Range(todo) : j.do = "apply" => j \in Range(todo'),
         \A j \in Range(todo') : j.do = "event" => match[j.user] # NoMatch,
         RewardIsNext',
         \A a, b \in Range(todo') : /\ a.do = "event" => b.do # "leave"
                                    /\ a.do = "next" => b.do \notin {"leave", "apply"}
  PROVE  QuestInv'
  <1>1. QuestTyped'
    BY DEF QuestInv, QuestTyped
  <1>2. \A a \in Range(todo') : a.do \in {"reward", "apply"} => a \in Range(todo)
    OBVIOUS
  <1>3. InMatch' /\ OneAfterAnother'
    BY <1>2 DEF QuestInv, InMatch, OneAfterAnother
  <1>4. UpToGoal' /\ OnlyGrows'
    BY <1>2 DEF QuestInv, UpToGoal, OnlyGrows
  <1>5. NothingMissing'
    BY DEF QuestInv, NothingMissing, Somewhere, MatchOnly
  <1>6. PaidAtGoal'
    BY <1>2 DEF QuestInv, PaidAtGoal, MatchOnly, UserOnly
  <1> QED BY <1>1, <1>3, <1>4, <1>5, <1>6 DEF QuestInv

\* The next call is done, and calls that only announce or store something are made.
LEMMA QuietCall ==
  ASSUME QuestInv, ~Ready, UNCHANGED <<row, match, temp, paid, counted>>,
         char' \in [User -> [exp : Int, level : Int]], First.do # "apply",
         NEW P \in Seq(Job), todo' = P \o Rest,
         \A j \in Range(P) : j.do \in {"login", "levelup", "exp", "store"}
  PROVE  QuestInv'
  <1>1. /\ Rest \in Seq(Job) /\ Range(todo) = {First} \cup Range(Rest)
        /\ \A j \in Range(Rest) : j \in Job /\ j.do # "reward"
    BY Popped
  <1>2. todo' \in Seq(Job) /\ Range(todo') = Range(P) \cup Range(Rest)
    BY <1>1, Pushed
  <1>3. \A j \in Range(todo') : j \in Range(todo) \/ j.do \in {"login", "levelup", "exp", "store"}
    BY <1>1, <1>2
  <1>4. RewardIsNext'
    BY <1>1, <1>2, NoRewards
  <1>5. ASSUME NEW a \in Range(todo'), NEW b \in Range(todo')
        PROVE  /\ a.do = "event" => b.do # "leave"
               /\ a.do = "next" => b.do \notin {"leave", "apply"}
    <2>1. \A c, d \in Range(todo) : /\ c.do = "event" => d.do # "leave"
                                    /\ c.do = "next" => d.do \notin {"leave", "apply"}
      BY DEF QuestInv, OneAfterAnother
    <2>2. \/ a \in Range(todo) /\ b \in Range(todo)
          \/ a.do \in {"login", "levelup", "exp", "store"}
          \/ b.do \in {"login", "levelup", "exp", "store"}
      BY <1>3
    <2> QED
      BY <2>1, <2>2
  <1>6. \A j \in Range(todo') : j.do = "event" => match[j.user] # NoMatch
    BY <1>3 DEF QuestInv, InMatch
  <1> QED BY <1>1, <1>2, <1>3, <1>4, <1>5, <1>6, QuietStep

\* A handler begins: its calls write no units and leave no reward to give.
LEMMA QuietBegin ==
  ASSUME QuestInv, Ready, UNCHANGED <<row, match, temp, paid, counted>>,
         char' \in [User -> [exp : Int, level : Int]], todo' \in Seq(Job),
         \A j \in Range(todo') : j.do \notin {"reward", "apply"},
         \A j \in Range(todo') : j.do = "event" => match[j.user] # NoMatch,
         \A a, b \in Range(todo') : /\ a.do = "event" => b.do # "leave"
                                    /\ a.do = "next" => b.do # "leave"
  PROVE  QuestInv'
  <1>1. Range(todo) = {}
    BY DEF Ready, Range
  <1> QED BY <1>1, NoRewards, QuietStep

\* Ascending numbers are a sequence of them.
LEMMA AscendingSeq ==
  ASSUME NEW n \in Nat, NEW I \in SUBSET (1..n), NEW w \in Ascending(I)
  PROVE  /\ w \in Seq(I) /\ DOMAIN w = 1..Len(w) /\ Len(w) \in Nat
         /\ \A x \in I : \E k \in DOMAIN w : w[k] = x
  <1>1. IsFiniteSet(I) /\ Cardinality(I) \in Nat
    <2>1. IsFiniteSet(1..n)
      BY FS_Interval
    <2>2. IsFiniteSet(I)
      BY <2>1, FS_Subset
    <2> QED BY <2>2, FS_CardinalityType
  <1>2. w \in [1..Cardinality(I) -> I] /\ \A x \in I : \E k \in DOMAIN w : w[k] = x
    BY DEF Ascending
  <1>3. w \in Seq(I)
    BY <1>1, <1>2, IsASeq
  <1> QED BY <1>2, <1>3, LenProperties

\* The places of the conditions that wait for an event.
LEMMA WaitingSeq ==
  ASSUME NEW event, NEW w \in Waiting(event)
  PROVE  /\ DOMAIN w = 1..Len(w) /\ Len(w) \in Nat
         /\ \A k \in DOMAIN w : /\ w[k] \in DOMAIN Conditions
                                /\ Conditions[w[k]].event = event
                                /\ Conditions[w[k]] \in Range(Conditions)
                                /\ Conditions[w[k]].task \in Tasks
  <1> DEFINE I == {k \in DOMAIN Conditions : Conditions[k].event = event}
  <1>1. DOMAIN Conditions = 1..Len(Conditions) /\ Len(Conditions) \in Nat
    BY ConditionAssumption, LenProperties
  <1>2. w \in Ascending(I) /\ I \in SUBSET (1..Len(Conditions))
    BY <1>1 DEF Waiting
  <1>3. w \in Seq(I) /\ DOMAIN w = 1..Len(w) /\ Len(w) \in Nat
    BY <1>1, <1>2, AscendingSeq
  <1>4. \A k \in DOMAIN w : w[k] \in I
    BY <1>3, ElementOfSeq
  <1>5. \A i \in DOMAIN Conditions : Conditions[i] \in Range(Conditions) /\ Conditions[i].task \in Tasks
    <2> SUFFICES ASSUME NEW i \in DOMAIN Conditions
                 PROVE  Conditions[i] \in Range(Conditions) /\ Conditions[i].task \in Tasks
      OBVIOUS
    <2>1. Conditions[i] \in Range(Conditions)
      BY DEF Range
    <2>2. Conditions[i] \in [task : Range(Task), event : STRING, modes : SUBSET Mode,
                             points : Nat, streak : Nat, how : SUBSET How]
      BY <1>1, ConditionAssumption, ElementOfSeq
    <2> QED BY <2>1, <2>2 DEF Tasks
  <1> QED BY <1>3, <1>4, <1>5

LEMMA Notified ==
  ASSUME NEW u \in User, NEW event \in Event, NEW how \in How, NEW s \in Notify(u, event, how)
  PROVE  s \in Seq(Job) /\ \A j \in Range(s) : j.do = "event" /\ j.user = u
  <1>1. PICK w \in Waiting(event) :
          s = [k \in DOMAIN w |-> [do |-> "event", user |-> u, cond |-> w[k], how |-> how]]
    BY DEF Notify
  <1>2. /\ DOMAIN w = 1..Len(w) /\ Len(w) \in Nat
        /\ \A k \in DOMAIN w : w[k] \in DOMAIN Conditions /\ Conditions[w[k]].event = event
    BY WaitingSeq
  <1>3. \A k \in DOMAIN w : [do |-> "event", user |-> u, cond |-> w[k], how |-> how] \in Job
    BY <1>2 DEF Job
  <1>4. s \in Seq(Job)
    BY <1>1, <1>2, <1>3, IsASeq
  <1> QED BY <1>1, <1>4 DEF Range

LEMMA NotifiedUser ==
  ASSUME NEW u \in User, NEW event \in {"login", "levelup"}, NEW amount \in Nat,
         NEW s \in NotifyUser(u, event, amount)
  PROVE  s \in Seq(Job) /\ \A j \in Range(s) : j.do = event /\ j.user = u
  <1> DEFINE announce(i) == [do |-> event, user |-> u, task |-> Conditions[i].task, count |-> amount]
  <1>1. PICK w \in Waiting(event) : s = [k \in DOMAIN w |-> announce(w[k])]
    BY DEF NotifyUser
  <1>2. /\ DOMAIN w = 1..Len(w) /\ Len(w) \in Nat
        /\ \A k \in DOMAIN w : /\ w[k] \in DOMAIN Conditions /\ Conditions[w[k]].event = event
                               /\ Conditions[w[k]] \in Range(Conditions)
                               /\ Conditions[w[k]].task \in Tasks
    BY WaitingSeq
  <1>3. \A k \in DOMAIN w : ~MatchOnly(Conditions[w[k]].task)
    BY <1>2, ConditionAssumption DEF MatchOnly
  <1>4. \A k \in DOMAIN w : announce(w[k]) \in Job
    BY <1>2, <1>3 DEF Job
  <1>5. s \in Seq(Job)
    BY <1>1, <1>2, <1>4, IsASeq
  <1> QED BY <1>1, <1>5 DEF Range

\* Levels are counted.
LEMMA LevelIsNumber == ASSUME NEW exp PROVE LevelOf(exp) \in Nat
  <1> DEFINE reached == {k \in DOMAIN ExpToLvlUp : exp >= ExpToLvlUp[k]}
  <1>1. DOMAIN ExpToLvlUp = 1..Len(ExpToLvlUp) /\ Len(ExpToLvlUp) \in Nat
    BY LevelAssumption, LenProperties
  <1>2. IsFiniteSet(1..Len(ExpToLvlUp))
    BY <1>1, FS_Interval
  <1>3. IsFiniteSet(reached)
    BY <1>1, <1>2, FS_Subset
  <1>4. Cardinality(reached) \in Nat
    BY <1>3, FS_CardinalityType
  <1> QED BY <1>4 DEF LevelOf

LEMMA LeastOf ==
  ASSUME NEW a \in Int, NEW b \in Int
  PROVE  Least(a, b) \in {a, b} /\ Least(a, b) <= a /\ Least(a, b) <= b
  BY DEF Least

LEMMA UpdateExpStep == ASSUME QuestInv, UpdateExp PROVE QuestInv'
  <1> DEFINE u == First.user
             old == char[u]
             exp == Least(old.exp + First.exp, MaxExp)
             level == IF LevelOf(exp) > old.level THEN LevelOf(exp) ELSE old.level
             announced == IF level = old.level THEN {<<>>}
                          ELSE NotifyUser(u, "levelup", level - old.level)
             store == [do |-> "store", user |-> u, char |-> [exp |-> exp, level |-> level]]
  <1>1. /\ ~Ready /\ First.do = "exp"
        /\ UNCHANGED <<row, char, match, temp, paid, counted>>
        /\ IF old.exp >= MaxExp THEN todo' = Rest
           ELSE \E announce \in announced : todo' = announce \o <<store>> \o Rest
    BY DEF UpdateExp, tables
  <1>2. First \in Job /\ Rest \in Seq(Job)
    BY <1>1, Popped
  <1>3. u \in User /\ First.exp \in Nat
    BY <1>1, <1>2, JobKinds
  <1>4. char \in [User -> [exp : Int, level : Int]] /\ old.exp \in Int /\ old.level \in Int
    BY <1>3 DEF QuestInv, QuestTyped
  <1>5. exp \in Int /\ LevelOf(exp) \in Nat /\ level \in Int
    <2>1. old.exp + First.exp \in Int /\ MaxExp \in Int
      BY <1>3, <1>4, LevelAssumption
    <2>2. exp \in Int
      BY <2>1, LeastOf
    <2>3. LevelOf(exp) \in Nat
      BY LevelIsNumber
    <2> HIDE DEF exp
    <2> QED BY <2>2, <2>3, <1>4
  <1>6. store \in Job
    <2> HIDE DEF u, exp, level
    <2> QED BY <1>3, <1>5 DEF Job
  <1>7. level # old.level => level - old.level \in Nat
    <2> HIDE DEF exp, old
    <2> QED BY <1>4, <1>5
  <1>8. CASE old.exp >= MaxExp
    <2>1. todo' = <<>> \o Rest
      BY <1>1, <1>2, <1>8, PushedNone
    <2>2. <<>> \in Seq(Job) /\ Range(<<>>) = {}
      BY DEF Range
    <2>3. char' \in [User -> [exp : Int, level : Int]]
      BY <1>1, <1>4
    <2> HIDE DEF u, old
    <2> QED BY <1>1, <2>1, <2>2, <2>3, QuietCall
  <1>9. CASE ~(old.exp >= MaxExp)
    <2>1. PICK announce \in announced : todo' = announce \o <<store>> \o Rest
      BY <1>1, <1>9
    <2> HIDE DEF store, exp, level, old, u
    <2>2. announce \in Seq(Job) /\ \A j \in Range(announce) : j.do = "levelup"
      <3>1. CASE announce = <<>>
        BY <3>1 DEF Range
      <3>2. CASE announce \in NotifyUser(u, "levelup", level - old.level) /\ level # old.level
        BY <3>2, <1>3, <1>7, NotifiedUser
      <3> QED BY <2>1, <3>1, <3>2
    <2>3. <<store>> \in Seq(Job) /\ Range(<<store>>) = {store}
      BY <1>6 DEF Range
    <2>4. announce \o <<store>> \in Seq(Job) /\ Range(announce \o <<store>>) = Range(announce) \cup {store}
      BY <2>2, <2>3, Pushed
    <2>5. store.do = "store"
      BY DEF store
    <2>6. \A j \in Range(announce \o <<store>>) : j.do \in {"login", "levelup", "exp", "store"}
      BY <2>2, <2>4, <2>5
    <2>7. char' \in [User -> [exp : Int, level : Int]]
      BY <1>1, <1>4
    <2>8. todo' = (announce \o <<store>>) \o Rest
      BY <2>1, <2>2, <2>3, <1>2, ConcatAssociative
    <2> QED BY <1>1, <2>4, <2>6, <2>7, <2>8, QuietCall
  <1> QED BY <1>8, <1>9

LEMMA UpdateCharacterStep == ASSUME QuestInv, UpdateCharacter PROVE QuestInv'
  <1>1. First \in Job /\ Rest \in Seq(Job) /\ ~Ready /\ First.do = "store" /\ todo' = Rest
    BY Popped DEF UpdateCharacter
  <1>2. First.char \in [exp : Int, level : Int]
    BY <1>1, JobKinds
  <1>3. char' \in [User -> [exp : Int, level : Int]]
    BY <1>2 DEF UpdateCharacter, QuestInv, QuestTyped
  <1>4. todo' = <<>> \o Rest /\ <<>> \in Seq(Job) /\ Range(<<>>) = {}
    BY <1>1, PushedNone DEF Range
  <1>5. UNCHANGED <<row, match, temp, paid, counted>>
    BY DEF UpdateCharacter
  <1> QED BY <1>1, <1>3, <1>4, <1>5, QuietCall

LEMMA NextResetTimeStep == ASSUME QuestInv, NextResetTime PROVE QuestInv'
  <1>1. /\ First \in Job /\ Rest \in Seq(Job) /\ ~Ready /\ First.do = "next" /\ First \in Range(todo)
        /\ UNCHANGED <<row, char, match, temp, paid, counted>>
    BY Popped DEF NextResetTime
  <1>2. char' \in [User -> [exp : Int, level : Int]]
    BY <1>1 DEF QuestInv, QuestTyped
  <1>3. CASE todo' = Rest
    <2>1. todo' = <<>> \o Rest /\ <<>> \in Seq(Job) /\ Range(<<>>) = {}
      BY <1>1, <1>3, PushedNone DEF Range
    <2> QED BY <1>1, <1>2, <2>1, QuietCall
  <1>4. CASE todo' = <<>>
    <2>1. todo' \in Seq(Job) /\ Range(todo') = {} /\ RewardIsNext'
      BY <1>4 DEF Range, RewardIsNext, Ready
    <2>2. \A j \in Range(todo) : j.do # "apply"
      BY <1>1 DEF QuestInv, OneAfterAnother
    <2> QED BY <1>1, <1>2, <2>1, <2>2, QuietStep
  <1> QED BY <1>3, <1>4 DEF NextResetTime

LEMMA OnUserLoginStep == ASSUME QuestInv, NEW u \in User, OnUserLogin(u) PROVE QuestInv'
  <1>1. /\ Ready /\ UNCHANGED <<row, char, match, temp, paid, counted>>
        /\ IF char[u] = NoChar THEN todo' = <<>> ELSE todo' \in NotifyUser(u, "login", 0)
    BY DEF OnUserLogin, tables
  <1>2. char' \in [User -> [exp : Int, level : Int]]
    BY <1>1 DEF QuestInv, QuestTyped
  <1>3. todo' \in Seq(Job) /\ \A j \in Range(todo') : j.do = "login"
    <2>1. CASE todo' = <<>>
      BY <2>1 DEF Range
    <2>2. CASE todo' \in NotifyUser(u, "login", 0)
      BY <2>2, NotifiedUser
    <2> QED BY <1>1, <2>1, <2>2
  <1> QED BY <1>1, <1>2, <1>3, QuietBegin

LEMMA CreateCharacterStep == ASSUME QuestInv, NEW u \in User, CreateCharacter(u) PROVE QuestInv'
  <1>1. Ready /\ UNCHANGED <<row, match, temp, paid, counted>>
    BY DEF CreateCharacter
  <1>2. char' \in [User -> [exp : Int, level : Int]]
    BY DEF CreateCharacter, QuestInv, QuestTyped
  <1>3. PICK levelup \in NotifyUser(u, "levelup", 0), login \in NotifyUser(u, "login", 0) :
          todo' = levelup \o login
    BY DEF CreateCharacter
  <1>4. /\ levelup \in Seq(Job) /\ \A j \in Range(levelup) : j.do = "levelup"
        /\ login \in Seq(Job) /\ \A j \in Range(login) : j.do = "login"
    BY NotifiedUser
  <1>5. todo' \in Seq(Job) /\ Range(todo') = Range(levelup) \cup Range(login)
    BY <1>3, <1>4, Pushed
  <1>6. \A j \in Range(todo') : j.do \in {"login", "levelup"}
    BY <1>4, <1>5
  <1> QED BY <1>1, <1>2, <1>5, <1>6, QuietBegin

LEMMA OnMatchEventStep ==
  ASSUME QuestInv, NEW u \in User, NEW event \in Event, NEW how \in How, OnMatchEvent(u, event, how)
  PROVE  QuestInv'
  <1>1. /\ Ready /\ UNCHANGED <<row, char, match, temp, paid, counted>> /\ match[u] # NoMatch
        /\ todo' \in Notify(u, event, how)
    BY DEF OnMatchEvent, tables
  <1>2. char' \in [User -> [exp : Int, level : Int]]
    BY <1>1 DEF QuestInv, QuestTyped
  <1>3. todo' \in Seq(Job) /\ \A j \in Range(todo') : j.do = "event" /\ j.user = u
    BY <1>1, Notified
  <1> QED BY <1>1, <1>2, <1>3, QuietBegin

LEMMA DisconnectStep == ASSUME QuestInv, NEW u \in User, Disconnect(u) PROVE QuestInv'
  <1> DEFINE leave == [do |-> "leave", user |-> u]
  <1>1. Ready /\ UNCHANGED <<row, char, match, temp, paid, counted>> /\ todo' = <<leave>>
    BY DEF Disconnect, tables
  <1>2. char' \in [User -> [exp : Int, level : Int]]
    BY <1>1 DEF QuestInv, QuestTyped
  <1>3. leave \in Job
    BY DEF Job
  <1>4. todo' \in Seq(Job) /\ \A j \in Range(todo') : j.do = "leave"
    BY <1>1, <1>3 DEF Range
  <1> QED BY <1>1, <1>2, <1>4, QuietBegin

LEMMA UnmovedStep ==
  ASSUME QuestInv, UNCHANGED <<row, char, match, temp, todo, paid, counted>>
  PROVE  QuestInv'
  <1>1. QuestTyped' /\ RewardIsNext' /\ InMatch' /\ OneAfterAnother' /\ UpToGoal' /\ OnlyGrows'
    BY DEF QuestInv, QuestTyped, RewardIsNext, Ready, Rest, InMatch, OneAfterAnother, UpToGoal, OnlyGrows
  <1>2. NothingMissing' /\ PaidAtGoal'
    BY DEF QuestInv, NothingMissing, Somewhere, PaidAtGoal, MatchOnly, UserOnly
  <1> QED BY <1>1, <1>2 DEF QuestInv

LEMMA EndGameStep == ASSUME QuestInv, NEW mode, EndGame(mode) PROVE QuestInv'
  <1> DEFINE users == {u \in User : match[u] = mode}
  <1>1. Ready /\ UNCHANGED <<row, char, match, temp, paid, counted>>
    BY DEF EndGame, tables
  <1>2. PICK order \in SetToSeqs(users), exp \in [users -> MatchExp] :
          todo' = [k \in DOMAIN order |-> [do |-> "exp", user |-> order[k], exp |-> exp[order[k]]]]
                  \o [k \in DOMAIN order |-> [do |-> "leave", user |-> order[k]]]
    BY DEF EndGame
  <1> DEFINE paying == [k \in DOMAIN order |-> [do |-> "exp", user |-> order[k], exp |-> exp[order[k]]]]
             leaving == [k \in DOMAIN order |-> [do |-> "leave", user |-> order[k]]]
             n == Cardinality(users)
  <1>3. n \in Nat
    <2>1. IsFiniteSet(users)
      BY UserAssumption, FS_Subset
    <2> QED BY <2>1, FS_CardinalityType
  <1>4. DOMAIN order = 1..n /\ \A k \in 1..n : order[k] \in users
    BY DEF SetToSeqs
  <1>5. \A k \in 1..n : order[k] \in User /\ exp[order[k]] \in Nat
    BY <1>4, LevelAssumption
  <1> HIDE DEF n
  <1>6. paying \in Seq(Job) /\ \A j \in Range(paying) : j.do = "exp"
    <2>1. \A k \in 1..n : [do |-> "exp", user |-> order[k], exp |-> exp[order[k]]] \in Job
      BY <1>5 DEF Job
    <2>2. paying \in Seq(Job)
      BY <1>3, <1>4, <2>1, IsASeq
    <2> QED BY <1>4, <2>2 DEF Range
  <1>7. leaving \in Seq(Job) /\ \A j \in Range(leaving) : j.do = "leave"
    <2>1. \A k \in 1..n : [do |-> "leave", user |-> order[k]] \in Job
      BY <1>5 DEF Job
    <2>2. leaving \in Seq(Job)
      BY <1>3, <1>4, <2>1, IsASeq
    <2> QED BY <1>4, <2>2 DEF Range
  <1>8. todo' = paying \o leaving
    BY <1>2
  <1> HIDE DEF paying, leaving
  <1>9. todo' \in Seq(Job) /\ Range(todo') = Range(paying) \cup Range(leaving)
    BY <1>6, <1>7, <1>8, Pushed
  <1>10. \A j \in Range(todo') : j.do \in {"exp", "leave"}
    BY <1>6, <1>7, <1>9
  <1>11. char' \in [User -> [exp : Int, level : Int]]
    BY <1>1 DEF QuestInv, QuestTyped
  <1> QED BY <1>1, <1>9, <1>10, <1>11, QuietBegin

LEMMA OnMinuteTickStep == ASSUME QuestInv, OnMinuteTick PROVE QuestInv'
  <1> DEFINE Renewal(period) ==
               IF period \in due
               THEN <<[do |-> "next", period |-> period], [do |-> "reset", period |-> period]>> ELSE <<>>
  <1>1. /\ Ready /\ UNCHANGED <<row, char, match, temp, paid, counted>>
        /\ todo' = Renewal("day") \o Renewal("week")
    BY DEF OnMinuteTick, tables
  <1>2. ASSUME NEW period \in {"day", "week"}
        PROVE  Renewal(period) \in Seq(Job) /\ \A j \in Range(Renewal(period)) : j.do \in {"next", "reset"}
    <2>1. [do |-> "next", period |-> period] \in Job /\ [do |-> "reset", period |-> period] \in Job
      BY DEF Job
    <2>2. CASE period \notin due
      BY <2>2 DEF Range
    <2>3. CASE period \in due
      BY <2>1, <2>3 DEF Range
    <2> QED BY <2>2, <2>3
  <1> HIDE DEF Renewal
  <1>3. todo' \in Seq(Job) /\ Range(todo') = Range(Renewal("day")) \cup Range(Renewal("week"))
    BY <1>1, <1>2, Pushed
  <1>4. \A j \in Range(todo') : j.do \in {"next", "reset"}
    BY <1>2, <1>3
  <1>5. char' \in [User -> [exp : Int, level : Int]]
    BY <1>1 DEF QuestInv, QuestTyped
  <1> QED BY <1>1, <1>3, <1>4, <1>5, QuietBegin

-----------------------------------------------------------------------------
(* Steps that count *)

\* What an increment stores and the reward it calls for.
LEMMA IncrementFacts ==
  ASSUME QuestInv, ~Ready, NEW u \in User, NEW t \in Tasks, NEW amount \in Nat, NEW force \in BOOLEAN,
         Open(u, t), Increment(u, t, amount, force)
  PROVE  /\ row' \in [User -> [Tasks -> [units : Nat, finished : BOOLEAN]]]
         /\ counted' \in [User -> [Tasks -> Nat]]
         /\ \A v \in User, s \in Tasks : v # u \/ s # t =>
              row'[v][s] = row[v][s] /\ counted'[v][s] = counted[v][s]
         /\ row'[u][t].units <= Goal[t] /\ (row'[u][t].finished => row'[u][t].units = Goal[t])
         /\ \/ row'[u][t].units < Goal[t] /\ todo' = Rest
            \/ row'[u][t].units = Goal[t] /\ todo' = <<Reward(u, t)>> \o Rest
         /\ \/ counted' = counted
            \/ counted'[u][t] <= row'[u][t].units
         /\ amount = Goal[t] /\ force =>
              (row' = row /\ counted'[u][t] <= row[u][t].units) \/ row'[u][t].units = Goal[t]
  <1>1. /\ row \in [User -> [Tasks -> [units : Nat, finished : BOOLEAN]]]
        /\ counted \in [User -> [Tasks -> Nat]]
    BY DEF QuestInv, QuestTyped
  <1>2. row[u][t] \in [units : Nat, finished : BOOLEAN] /\ row[u][t].units \in Nat /\ counted[u][t] \in Nat
    BY <1>1
  <1>3. Goal[t] \in Nat \ {0} /\ row[u][t].units < Goal[t]
    BY TaskAssumption DEF Open, Progress, Tasks
  <1>4. ~row[u][t].finished
    BY <1>3 DEF QuestInv, UpToGoal
  <1>5. Rest \in Seq(Job)
    BY Popped
  <1>6. CASE NotStored(u, t) /\ todo' = Rest
    <2>1. row' = row /\ counted' = [counted EXCEPT ![u][t] = Least(@, row[u][t].units)]
      BY <1>6 DEF NotStored
    <2>2. Least(counted[u][t], row[u][t].units) \in Nat
          /\ Least(counted[u][t], row[u][t].units) <= row[u][t].units
      BY <1>2 DEF Least
    <2>3. counted' \in [User -> [Tasks -> Nat]] /\ counted'[u][t] = Least(counted[u][t], row[u][t].units)
      BY <1>1, <2>1, <2>2
    <2>4. \A v \in User, s \in Tasks : v # u \/ s # t => counted'[v][s] = counted[v][s]
      BY <1>1, <2>1
    <2> QED BY <1>1, <1>3, <1>4, <1>6, <2>1, <2>2, <2>3, <2>4
  <1>7. CASE Stored(u, t, Counted(u, t, amount, force))
             /\ todo' = (IF Counted(u, t, amount, force).units >= Goal[t] THEN <<Reward(u, t)>> ELSE <<>>) \o Rest
    <2> DEFINE units == IF amount = 0 THEN row[u][t].units + 1
                        ELSE IF force THEN row[u][t].units + amount ELSE amount
               p == Counted(u, t, amount, force)
    <2>1. units \in Nat
      BY <1>2
    <2>2. p = IF units >= Goal[t] THEN [units |-> Goal[t], finished |-> TRUE]
                                  ELSE [row[u][t] EXCEPT !.units = units]
      BY DEF Counted, Progress
    <2>3. amount = Goal[t] /\ force => units >= Goal[t]
      BY <1>2, <1>3
    <2> HIDE DEF units, p
    <2>4. /\ p \in [units : Nat, finished : BOOLEAN] /\ p.units <= Goal[t]
          /\ p.finished => p.units = Goal[t]
          /\ p.units >= Goal[t] => p.units = Goal[t]
          /\ units >= Goal[t] => p.units = Goal[t]
      <3>1. CASE units >= Goal[t]
        BY <1>3, <2>2, <3>1
      <3>2. CASE ~(units >= Goal[t])
        <4>1. p = [row[u][t] EXCEPT !.units = units]
          BY <2>2, <3>2
        <4>2. p \in [units : Nat, finished : BOOLEAN] /\ p.units = units /\ p.finished = row[u][t].finished
          BY <4>1, <1>2, <2>1
        <4> QED BY <4>2, <3>2, <1>3, <1>4, <2>1
      <3> QED BY <3>1, <3>2
    <2>5. row' = [row EXCEPT ![u][t] = p] /\ counted' = counted
      BY <1>7 DEF Stored, p
    <2>6. row' \in [User -> [Tasks -> [units : Nat, finished : BOOLEAN]]] /\ row'[u][t] = p
      BY <1>1, <2>4, <2>5
    <2>7. \A v \in User, s \in Tasks : v # u \/ s # t => row'[v][s] = row[v][s]
      BY <1>1, <2>5
    <2>8. todo' = (IF p.units >= Goal[t] THEN <<Reward(u, t)>> ELSE <<>>) \o Rest
      BY <1>7 DEF p
    <2>9. CASE p.units >= Goal[t]
      BY <1>1, <2>3, <2>4, <2>5, <2>6, <2>7, <2>8, <2>9
    <2>10. CASE ~(p.units >= Goal[t])
      <3>1. p.units < Goal[t]
        BY <1>3, <2>4, <2>10
      <3>2. todo' = Rest
        BY <1>5, <2>8, <2>10, PushedNone
      <3> QED BY <1>1, <2>3, <2>4, <2>5, <2>6, <2>7, <2>10, <3>1, <3>2
    <2> QED BY <2>9, <2>10
  <1> QED BY <1>6, <1>7 DEF Increment

\* An increment of an open task keeps the rewards in order: none was given for it.
LEMMA IncrementRewards ==
  ASSUME QuestInv, ~Ready, NEW u \in User, NEW t \in Tasks, NEW amount \in Nat, NEW force \in BOOLEAN,
         Open(u, t), Increment(u, t, amount, force), UNCHANGED paid
  PROVE  /\ todo' \in Seq(Job) /\ Range(Rest) \subseteq Range(todo')
         /\ \A j \in Range(todo') : j \in Range(Rest) \/ j = Reward(u, t)
         /\ RewardIsNext' /\ PaidAtGoal'
         /\ \A v \in User, s \in Tasks : /\ row'[v][s].units <= Goal[s]
                                         /\ row'[v][s].finished => row'[v][s].units = Goal[s]
  <1>1. /\ \A v \in User, s \in Tasks : v # u \/ s # t => row'[v][s] = row[v][s]
        /\ row'[u][t].units <= Goal[t] /\ (row'[u][t].finished => row'[u][t].units = Goal[t])
        /\ \/ row'[u][t].units < Goal[t] /\ todo' = Rest
           \/ row'[u][t].units = Goal[t] /\ todo' = <<Reward(u, t)>> \o Rest
    BY IncrementFacts
  <1>2. Rest \in Seq(Job) /\ \A j \in Range(Rest) : j.do # "reward"
    BY Popped
  <1>3. Reward(u, t) \in Job /\ Reward(u, t).do = "reward" /\ Reward(u, t).user = u /\ Reward(u, t).task = t
    BY DEF Job, Reward
  <1>4. /\ todo' \in Seq(Job) /\ RewardIsNext' /\ Range(Rest) \subseteq Range(todo')
        /\ \A j \in Range(todo') : j \in Range(Rest) \/ (j = Reward(u, t) /\ row'[u][t].units = Goal[t])
    <2>1. CASE todo' = Rest
      <3>1. todo' \in Seq(Job) /\ \A j \in Range(todo') : j.do # "reward"
        BY <1>2, <2>1
      <3>2. RewardIsNext'
        BY <3>1, NoRewards
      <3>3. Range(Rest) = Range(todo')
        BY <2>1
      <3> QED BY <3>1, <3>2, <3>3
    <2>2. CASE row'[u][t].units = Goal[t] /\ todo' = <<Reward(u, t)>> \o Rest
      <3>1. todo' \in Seq(Job) /\ Range(todo') = {Reward(u, t)} \cup Range(Rest) /\ Tail(todo') = Rest
        BY <1>2, <1>3, <2>2, PushedOne
      <3>2. RewardIsNext'
        BY <3>1, <1>2 DEF RewardIsNext, Rest
      <3> QED BY <3>1, <3>2, <2>2
    <2> QED BY <1>1, <2>1, <2>2
  <1>5. row[u][t].units < Goal[t]
    BY DEF Open, Progress
  <1>6. PaidAtGoal'
    <2> SUFFICES ASSUME NEW v \in User, NEW s \in Tasks, MatchOnly(s) \/ UserOnly(s)
                 PROVE  /\ row'[v][s].units < Goal[s] => paid[v][s] = 0
                        /\ paid[v][s] <= 1
                        /\ \A a \in Range(todo') : a.do = "reward" /\ a.user = v /\ a.task = s =>
                             paid[v][s] = 0 /\ row'[v][s].units = Goal[s]
      BY DEF PaidAtGoal, MatchOnly, UserOnly
    <2>1. row[v][s].units < Goal[s] => paid[v][s] = 0
      BY DEF QuestInv, PaidAtGoal
    <2>2. paid[v][s] <= 1
      BY DEF QuestInv, PaidAtGoal
    <2>3. \A a \in Range(todo') : a.do = "reward" => a = Reward(u, t) /\ row'[u][t].units = Goal[t]
      BY <1>2, <1>4
    <2>4. CASE v # u \/ s # t
      BY <1>1, <1>3, <2>1, <2>2, <2>3, <2>4
    <2>5. CASE v = u /\ s = t
      BY <1>5, <2>1, <2>2, <2>3, <2>5
    <2> QED BY <2>4, <2>5
  <1>7. \A v \in User, s \in Tasks : /\ row'[v][s].units <= Goal[s]
                                     /\ row'[v][s].finished => row'[v][s].units = Goal[s]
    BY <1>1 DEF QuestInv, UpToGoal
  <1> QED BY <1>4, <1>6, <1>7

\* The calls after the running one, with or without a reward, keep the order.
LEMMA RestInOrder ==
  ASSUME QuestInv, ~Ready,
         \A j \in Range(todo') : j \in Range(Rest) \/ j.do \in {"reward", "exp"}
  PROVE  /\ OneAfterAnother'
         /\ \A a \in Range(todo') : /\ a.do = "event" => match[a.user] # NoMatch
                                    /\ a.do = "apply" => match[a.user] = NoMatch
  <1>1. Range(todo) = {First} \cup Range(Rest)
    BY Popped
  <1>2. \A j \in Range(todo') : j.do \in {"event", "leave", "next", "apply"} => j \in Range(todo)
    BY <1>1
  <1> QED BY <1>2 DEF QuestInv, OneAfterAnother, InMatch

LEMMA OnUserConditionStep == ASSUME QuestInv, OnUserCondition PROVE QuestInv'
  <1> DEFINE u == First.user  t == First.task
  <1>1. /\ ~Ready /\ First.do \in {"login", "levelup"}
        /\ IF Open(u, t) THEN Increment(u, t, First.count, FALSE)
           ELSE todo' = Rest /\ UNCHANGED <<row, counted>>
        /\ UNCHANGED <<char, match, temp, paid>>
    BY DEF OnUserCondition
  <1>2. /\ First \in Job /\ Rest \in Seq(Job) /\ Range(todo) = {First} \cup Range(Rest)
        /\ \A j \in Range(Rest) : j.do # "reward"
    BY <1>1, Popped
  <1>3. u \in User /\ t \in Tasks /\ ~MatchOnly(t) /\ First.count \in Nat
    BY <1>1, <1>2, JobKinds
  <1> HIDE DEF u, t
  <1>4. CASE ~Open(u, t)
    <2>1. todo' = <<>> \o Rest /\ <<>> \in Seq(Job) /\ Range(<<>>) = {}
      BY <1>1, <1>2, <1>4, PushedNone DEF Range
    <2>2. char' \in [User -> [exp : Int, level : Int]]
      BY <1>1 DEF QuestInv, QuestTyped
    <2> QED BY <1>1, <1>4, <2>1, <2>2, QuietCall
  <1>5. CASE Open(u, t)
    <2>1. Increment(u, t, First.count, FALSE)
      BY <1>1, <1>5
    <2>2. /\ row' \in [User -> [Tasks -> [units : Nat, finished : BOOLEAN]]]
          /\ counted' \in [User -> [Tasks -> Nat]]
          /\ \A v \in User, s \in Tasks : v # u \/ s # t =>
               row'[v][s] = row[v][s] /\ counted'[v][s] = counted[v][s]
      BY <1>1, <1>3, <1>5, <2>1, IncrementFacts
    <2>3. /\ todo' \in Seq(Job) /\ Range(Rest) \subseteq Range(todo')
          /\ \A j \in Range(todo') : j \in Range(Rest) \/ j = Reward(u, t)
          /\ RewardIsNext' /\ PaidAtGoal'
          /\ \A v \in User, s \in Tasks : /\ row'[v][s].units <= Goal[s]
                                          /\ row'[v][s].finished => row'[v][s].units = Goal[s]
      BY <1>1, <1>3, <1>5, <2>1, IncrementRewards
    <2>4. QuestTyped'
      BY <1>1, <2>2, <2>3 DEF QuestInv, QuestTyped, UserOnly
    <2>5. \A j \in Range(todo') : j \in Range(Rest) \/ j.do = "reward"
      BY <2>3 DEF Reward
    <2>6. OneAfterAnother' /\ InMatch'
      BY <1>1, <2>5, RestInOrder DEF QuestInv, InMatch
    <2>7. \A a : a.do = "apply" => (a \in Range(todo') <=> a \in Range(todo))
      BY <1>1, <1>2, <2>3, <2>5
    <2>8. UpToGoal'
      BY <1>1, <2>3, <2>7 DEF QuestInv, UpToGoal
    <2>9. \A v \in User, s \in Tasks : MatchOnly(s) => row'[v][s] = row[v][s] /\ counted'[v][s] = counted[v][s]
      BY <1>3, <2>2
    <2>10. \A a \in Range(todo) : a.do = "apply" => a.user \in User /\ a.task \in Tasks
      <3>1. \A j \in Range(Rest) : j \in Job
        BY <1>1, Popped
      <3> QED BY <1>2, <3>1, JobKinds
    <2>11. OnlyGrows'
      <3>1. \A v \in User : DOMAIN temp[v] \subseteq Tasks
        BY DEF QuestInv, QuestTyped
      <3>2. \A v \in User : \A s \in DOMAIN temp'[v] : MatchOnly(s) => row'[v][s].units <= temp'[v][s].units
        BY <1>1, <2>9, <3>1 DEF QuestInv, OnlyGrows
      <3>3. \A a \in Range(todo') :
              a.do = "apply" /\ MatchOnly(a.task) => row'[a.user][a.task].units <= a.progress.units
        BY <2>7, <2>9, <2>10 DEF QuestInv, OnlyGrows
      <3> QED BY <3>2, <3>3 DEF OnlyGrows, MatchOnly
    <2>12. NothingMissing'
      <3> SUFFICES ASSUME NEW v \in User, NEW s \in Tasks, MatchOnly(s) PROVE Somewhere(v, s)'
        BY DEF NothingMissing, MatchOnly
      <3>1. Somewhere(v, s)
        BY DEF QuestInv, NothingMissing
      <3> QED BY <1>1, <2>7, <2>9, <3>1 DEF Somewhere
    <2> QED BY <2>3, <2>4, <2>6, <2>8, <2>11, <2>12 DEF QuestInv
  <1> QED BY <1>4, <1>5

LEMMA GiveRewardStep == ASSUME QuestInv, GiveReward PROVE QuestInv'
  <1> DEFINE u == First.user  t == First.task
             exp == [do |-> "exp", user |-> u, exp |-> RewardExp[t]]
  <1>1. /\ ~Ready /\ First.do = "reward"
        /\ paid' = [paid EXCEPT ![u][t] = Least(@ + 1, 2)]
        /\ todo' = (IF RewardExp[t] = 0 THEN <<>> ELSE <<exp>>) \o Rest
        /\ UNCHANGED <<row, char, match, temp, counted>>
    BY DEF GiveReward, tables
  <1>2. /\ First \in Job /\ First \in Range(todo)
        /\ Rest \in Seq(Job) /\ Range(todo) = {First} \cup Range(Rest)
        /\ \A j \in Range(Rest) : j.do # "reward"
    BY <1>1, Popped
  <1>3. u \in User /\ t \in Tasks
    BY <1>1, <1>2, JobKinds
  <1>4. RewardExp[t] \in Nat
    BY <1>3, TaskAssumption DEF Tasks
  <1>5. MatchOnly(t) \/ UserOnly(t) => paid[u][t] = 0 /\ row[u][t].units = Goal[t]
    BY <1>1, <1>2, <1>3 DEF QuestInv, PaidAtGoal
  <1> HIDE DEF u, t
  <1>6. exp \in Job /\ exp.do = "exp"
    BY <1>3, <1>4 DEF Job
  <1> HIDE DEF exp
  <1>7. /\ todo' \in Seq(Job) /\ Range(Rest) \subseteq Range(todo')
        /\ \A j \in Range(todo') : j \in Range(Rest) \/ j.do = "exp"
    <2>1. CASE todo' = <<>> \o Rest
      BY <1>2, <2>1, PushedNone
    <2>2. CASE todo' = <<exp>> \o Rest
      BY <1>2, <1>6, <2>2, PushedOne
    <2> QED BY <1>1, <2>1, <2>2
  <1>8. RewardIsNext' /\ \A j \in Range(todo') : j.do # "reward"
    BY <1>2, <1>7, NoRewards
  <1>9. paid \in [User -> [Tasks -> Nat]]
    BY DEF QuestInv, QuestTyped
  <1>10. paid' \in [User -> [Tasks -> Nat]]
    BY <1>1, <1>3, <1>9 DEF Least
  <1>11. QuestTyped'
    BY <1>1, <1>7, <1>10 DEF QuestInv, QuestTyped, UserOnly
  <1>12. OneAfterAnother' /\ InMatch'
    BY <1>1, <1>7, RestInOrder DEF QuestInv, InMatch
  <1>13. \A a : a.do = "apply" => (a \in Range(todo') <=> a \in Range(todo))
    BY <1>1, <1>2, <1>7
  <1>14. UpToGoal' /\ OnlyGrows'
    BY <1>1, <1>13 DEF QuestInv, UpToGoal, OnlyGrows, MatchOnly
  <1>15. NothingMissing'
    <2> SUFFICES ASSUME NEW v \in User, NEW s \in Tasks, MatchOnly(s) PROVE Somewhere(v, s)'
      BY DEF NothingMissing, MatchOnly
    <2>1. Somewhere(v, s)
      BY DEF QuestInv, NothingMissing
    <2> QED BY <1>1, <1>13, <2>1 DEF Somewhere
  <1>16. PaidAtGoal'
    <2> SUFFICES ASSUME NEW v \in User, NEW s \in Tasks, MatchOnly(s) \/ UserOnly(s)
                 PROVE  /\ row[v][s].units < Goal[s] => paid'[v][s] = 0
                        /\ paid'[v][s] <= 1
      BY <1>1, <1>8 DEF PaidAtGoal, MatchOnly, UserOnly
    <2>1. (row[v][s].units < Goal[s] => paid[v][s] = 0) /\ paid[v][s] <= 1
      BY DEF QuestInv, PaidAtGoal
    <2>2. CASE v = u /\ s = t
      <3>1. paid'[v][s] = Least(paid[v][s] + 1, 2)
        BY <1>1, <1>9, <2>2
      <3>2. paid'[v][s] = 1
        BY <1>5, <2>2, <3>1 DEF Least
      <3>3. ~(row[v][s].units < Goal[s])
        <4>1. Goal[s] \in Nat
          BY TaskAssumption DEF Tasks
        <4> QED BY <1>5, <2>2, <4>1
      <3> QED BY <3>2, <3>3
    <2>3. CASE ~(v = u /\ s = t)
      <3>1. paid'[v][s] = paid[v][s]
        BY <1>1, <1>9, <2>3
      <3> QED BY <2>1, <3>1
    <2> QED BY <2>2, <2>3
  <1> QED BY <1>8, <1>11, <1>12, <1>14, <1>15, <1>16 DEF QuestInv

\* What leaving a match writes back: every task it counted.
LEMMA WrittenBackAll ==
  ASSUME QuestInv, NEW u \in User, NEW s \in Leave(u)
  PROVE  /\ s \in Seq(Job)
         /\ \A j \in Range(s) : /\ j.do = "apply" /\ j.user = u /\ j.task \in DOMAIN temp[u]
                                /\ j.progress.units = temp[u][j.task].units
                                /\ j.progress = [units |-> temp[u][j.task].units,
                                                 finished |-> temp[u][j.task].finished]
         /\ \A t \in DOMAIN temp[u] :
              \E j \in Range(s) : j.do = "apply" /\ j.user = u /\ j.task = t
  <1> DEFINE I == {k \in DOMAIN Task : Task[k] \in {t \in DOMAIN temp[u] : ~temp[u][t].finished}}
             apply(t) == [do |-> "apply", user |-> u, task |-> t,
                          progress |-> [units |-> temp[u][t].units, finished |-> temp[u][t].finished]]
  <1>1. PICK c \in Rests(Task, I) : s = [k \in DOMAIN c |-> apply(c[k])]
    BY DEF Leave, WrittenBack
  <1>2. PICK f \in Ascending(I) : c = [k \in 1..Cardinality(I) |-> Task[f[k]]]
    BY <1>1 DEF Rests
  <1>3. DOMAIN Task = 1..Len(Task) /\ Len(Task) \in Nat
    BY TaskAssumption, LenProperties
  <1>4. /\ f \in Seq(I) /\ DOMAIN f = 1..Len(f) /\ Len(f) \in Nat
        /\ \A x \in I : \E k \in DOMAIN f : f[k] = x
    <2>1. I \in SUBSET (1..Len(Task))
      BY <1>3
    <2> HIDE DEF I
    <2> QED BY <1>2, <1>3, <2>1, AscendingSeq
  <1>5. DOMAIN f = 1..Cardinality(I)
    BY DEF Ascending
  <1>6. \A k \in DOMAIN f : f[k] \in I
    BY <1>4, ElementOfSeq
  <1>7. DOMAIN c = 1..Len(f) /\ \A k \in 1..Len(f) : c[k] = Task[f[k]] /\ c[k] \in DOMAIN temp[u]
    BY <1>2, <1>4, <1>5, <1>6
  <1>8. \A t \in DOMAIN temp[u] : t \in Tasks /\ ~UserOnly(t) /\ temp[u][t] \in Count
    BY DEF QuestInv, QuestTyped
  <1>9. \A t \in DOMAIN temp[u] : apply(t) \in Job
    <2> SUFFICES ASSUME NEW t \in DOMAIN temp[u] PROVE apply(t) \in Job
      OBVIOUS
    <2>1. [units |-> temp[u][t].units, finished |-> temp[u][t].finished] \in [units : Nat, finished : {FALSE}]
      BY <1>8 DEF Count
    <2> QED BY <1>8, <2>1 DEF Job
  <1>10. s \in Seq(Job) /\ DOMAIN s = 1..Len(f) /\ \A k \in 1..Len(f) : s[k] = apply(c[k])
    <2>1. \A k \in 1..Len(f) : apply(c[k]) \in Job
      BY <1>7, <1>9
    <2>2. s = [k \in 1..Len(f) |-> apply(c[k])]
      BY <1>1, <1>7
    <2> HIDE DEF apply
    <2>3. s \in Seq(Job)
      BY <1>4, <2>1, <2>2, IsASeq
    <2> QED BY <2>2, <2>3
  <1>11. \A j \in Range(s) : \E t \in DOMAIN temp[u] : j = apply(t)
    <2> HIDE DEF apply
    <2> QED BY <1>7, <1>10 DEF Range
  <1>12. \A t \in DOMAIN temp[u] : apply(t) \in Range(s)
    <2> SUFFICES ASSUME NEW t \in DOMAIN temp[u] PROVE apply(t) \in Range(s)
      OBVIOUS
    <2>1. PICK x \in DOMAIN Task : Task[x] = t
      BY <1>8 DEF Tasks, Range
    <2>2. x \in I
      BY <1>8, <2>1 DEF Count
    <2>3. PICK k \in DOMAIN f : f[k] = x
      BY <1>4, <2>2
    <2>4. c[k] = t /\ k \in DOMAIN s
      BY <1>4, <1>7, <1>10, <2>1, <2>3
    <2>5. s[k] = apply(t)
      BY <1>4, <1>10, <2>3, <2>4
    <2> HIDE DEF apply
    <2> QED BY <2>4, <2>5 DEF Range
  <1>13. \A t \in DOMAIN temp[u] : \E j \in Range(s) : j.do = "apply" /\ j.user = u /\ j.task = t
    BY <1>12
  <1> QED BY <1>10, <1>11, <1>13

LEMMA LeaveMatchStep == ASSUME QuestInv, LeaveMatch PROVE QuestInv'
  <1> DEFINE u == First.user
  <1>1. /\ ~Ready /\ First.do = "leave"
        /\ match' = [match EXCEPT ![u] = NoMatch]
        /\ temp' = [temp EXCEPT ![u] = NoTemp]
        /\ UNCHANGED <<row, char, paid, counted>>
    BY DEF LeaveMatch, tables
  <1>2. PICK applied \in Leave(u) : todo' = applied \o Rest
    BY DEF LeaveMatch
  <1>3. /\ First \in Job /\ First \in Range(todo)
        /\ Rest \in Seq(Job) /\ Range(todo) = {First} \cup Range(Rest)
        /\ \A j \in Range(Rest) : j \in Job /\ j.do # "reward"
    BY <1>1, Popped
  <1>4. u \in User
    BY <1>1, <1>3, JobKinds
  <1> HIDE DEF u
  <1>5. /\ applied \in Seq(Job)
        /\ \A j \in Range(applied) : /\ j.do = "apply" /\ j.user = u /\ j.task \in DOMAIN temp[u]
                                     /\ j.progress.units = temp[u][j.task].units
                                     /\ j.progress = [units |-> temp[u][j.task].units,
                                                      finished |-> temp[u][j.task].finished]
        /\ \A t \in DOMAIN temp[u] :
             \E j \in Range(applied) : j.do = "apply" /\ j.user = u /\ j.task = t
    BY <1>2, <1>4, WrittenBackAll
  <1>6. todo' \in Seq(Job) /\ Range(todo') = Range(applied) \cup Range(Rest)
    BY <1>2, <1>3, <1>5, Pushed
  <1>7. \A j \in Range(todo') : j.do # "reward"
    BY <1>3, <1>5, <1>6
  <1>8. RewardIsNext'
    BY <1>6, <1>7, NoRewards
  <1>9. /\ DOMAIN temp = User /\ match \in [User -> Mode \cup {NoMatch}]
        /\ \A v \in User : DOMAIN temp[v] \subseteq Tasks
    BY DEF QuestInv, QuestTyped
  <1>10. /\ DOMAIN temp' = User /\ match' \in [User -> Mode \cup {NoMatch}]
         /\ DOMAIN temp'[u] = {} /\ match'[u] = NoMatch
         /\ \A v \in User : v # u => temp'[v] = temp[v] /\ match'[v] = match[v]
    BY <1>1, <1>4, <1>9 DEF NoTemp
  <1>11. QuestTyped'
    <2>1. \A v \in User : /\ DOMAIN temp'[v] \subseteq {t \in Tasks : ~UserOnly(t)}
                          /\ \A t \in DOMAIN temp'[v] : temp'[v][t] \in Count
      BY <1>10 DEF QuestInv, QuestTyped
    <2> QED BY <1>1, <1>6, <1>10, <2>1 DEF QuestInv, QuestTyped, UserOnly
  \* The calls that were waiting already are those of a match that ends.
  <1>12. \A j \in Range(Rest) : j.do \notin {"event", "next"}
    BY <1>1, <1>3 DEF QuestInv, OneAfterAnother
  <1>13. \A j \in Range(Rest) : j.do = "apply" => match[j.user] = NoMatch /\ j.user \in User
    <2>1. \A j \in Range(Rest) : j.do = "apply" => j.user \in User
      BY <1>3, JobKinds
    <2> QED BY <1>3, <2>1 DEF QuestInv, InMatch
  <1>14. InMatch'
    <2>1. \A v \in User : match'[v] = NoMatch => DOMAIN temp'[v] = {}
      BY <1>10 DEF QuestInv, InMatch
    <2>2. \A a \in Range(todo') : a.do # "event"
      BY <1>5, <1>6, <1>12
    <2>3. \A a \in Range(todo') : a.do = "apply" => match'[a.user] = NoMatch
      BY <1>5, <1>6, <1>10, <1>13
    <2> QED BY <2>1, <2>2, <2>3 DEF InMatch
  \* Nothing of the user is written back already.
  <1>15. \A j \in Range(applied) : \A a \in Range(Rest) : a.do = "apply" => a.user # u
    <2> SUFFICES ASSUME NEW j \in Range(applied), NEW a \in Range(Rest), a.do = "apply", a.user = u
                 PROVE  FALSE
      OBVIOUS
    <2>1. DOMAIN temp[u] = {}
      BY <1>4, <1>13 DEF QuestInv, InMatch
    <2> QED BY <1>5, <2>1
  <1>16. OneAfterAnother'
    <2> SUFFICES ASSUME NEW a \in Range(todo'), NEW b \in Range(todo')
                 PROVE  /\ a.do \notin {"event", "next"}
                        /\ a.do = "apply" /\ b.do = "apply" /\ a.user = b.user /\ a.task = b.task
                             => a.progress = b.progress
      BY DEF OneAfterAnother
    <2>1. a.do \notin {"event", "next"}
      BY <1>5, <1>6, <1>12
    <2> SUFFICES ASSUME a.do = "apply", b.do = "apply", a.user = b.user, a.task = b.task
                 PROVE  a.progress = b.progress
      BY <2>1
    <2>2. CASE a \in Range(applied) /\ b \in Range(applied)
      <3>1. a.progress = [units |-> temp[u][a.task].units, finished |-> temp[u][a.task].finished]
        BY <1>5, <2>2
      <3>2. b.progress = [units |-> temp[u][b.task].units, finished |-> temp[u][b.task].finished]
        BY <1>5, <2>2
      <3>3. a.task = b.task
        OBVIOUS
      <3> QED BY <3>1, <3>2, <3>3
    <2>3. CASE a \in Range(Rest) /\ b \in Range(Rest)
      BY <1>3, <2>3 DEF QuestInv, OneAfterAnother
    <2>4. ~(a \in Range(applied) /\ b \in Range(Rest)) /\ ~(b \in Range(applied) /\ a \in Range(Rest))
      BY <1>5, <1>15
    <2> QED BY <1>6, <2>2, <2>3, <2>4
  <1>17. UpToGoal'
    <2>1. \A v \in User : \A t \in DOMAIN temp'[v] : temp'[v][t].units <= Goal[t]
      BY <1>10 DEF QuestInv, UpToGoal
    <2>2. \A a \in Range(todo') : a.do = "apply" => a.progress.units <= Goal[a.task]
      BY <1>3, <1>4, <1>5, <1>6 DEF QuestInv, UpToGoal
    <2> QED BY <1>1, <2>1, <2>2 DEF QuestInv, UpToGoal
  <1>18. OnlyGrows'
    <2>1. \A v \in User : \A t \in DOMAIN temp'[v] : MatchOnly(t) => row[v][t].units <= temp'[v][t].units
      BY <1>10 DEF QuestInv, OnlyGrows
    <2>2. \A a \in Range(todo') :
            a.do = "apply" /\ MatchOnly(a.task) => row[a.user][a.task].units <= a.progress.units
      BY <1>3, <1>4, <1>5, <1>6 DEF QuestInv, OnlyGrows
    <2> QED BY <1>1, <2>1, <2>2 DEF OnlyGrows, MatchOnly
  <1>19. NothingMissing'
    <2> SUFFICES ASSUME NEW v \in User, NEW t \in Tasks, MatchOnly(t) PROVE Somewhere(v, t)'
      BY DEF NothingMissing, MatchOnly
    <2>1. Somewhere(v, t)
      BY DEF QuestInv, NothingMissing
    <2>2. CASE counted[v][t] <= row[v][t].units
      BY <1>1, <2>2 DEF Somewhere
    <2>3. CASE t \in DOMAIN temp[v] /\ counted[v][t] <= temp[v][t].units
      <3>1. CASE v = u
        <4>1. PICK j \in Range(applied) : j.do = "apply" /\ j.user = u /\ j.task = t
          BY <1>5, <2>3, <3>1
        <4>2. counted'[v][t] <= j.progress.units /\ j \in Range(todo')
          BY <1>1, <1>5, <1>6, <2>3, <3>1, <4>1
        <4> QED BY <3>1, <4>1, <4>2 DEF Somewhere
      <3>2. CASE v # u
        BY <1>1, <1>10, <2>3, <3>2 DEF Somewhere
      <3> QED BY <3>1, <3>2
    <2>4. CASE \E a \in Range(todo) : /\ a.do = "apply" /\ a.user = v /\ a.task = t
                                      /\ counted[v][t] <= a.progress.units
      <3>1. PICK a \in Range(todo) : /\ a.do = "apply" /\ a.user = v /\ a.task = t
                                     /\ counted[v][t] <= a.progress.units
        BY <2>4
      <3>2. a \in Range(todo')
        BY <1>1, <1>3, <1>6, <3>1
      <3> QED BY <1>1, <3>1, <3>2 DEF Somewhere
    <2> QED BY <2>1, <2>2, <2>3, <2>4 DEF Somewhere
  <1>20. PaidAtGoal'
    BY <1>1, <1>7 DEF QuestInv, PaidAtGoal, MatchOnly, UserOnly
  <1> QED BY <1>8, <1>11, <1>14, <1>16, <1>17, <1>18, <1>19, <1>20 DEF QuestInv

LEMMA ApplyProgressStep == ASSUME QuestInv, ApplyProgress PROVE QuestInv'
  <1> DEFINE u == First.user  t == First.task  p == First.progress
  <1>1. /\ ~Ready /\ First.do = "apply" /\ todo' = Rest
        /\ Stored(u, t, p) \/ NotStored(u, t)
        /\ UNCHANGED <<char, match, temp, paid>>
    BY DEF ApplyProgress
  <1>2. /\ First \in Job /\ First \in Range(todo)
        /\ Rest \in Seq(Job) /\ Range(todo) = {First} \cup Range(Rest)
        /\ \A j \in Range(Rest) : j \in Job /\ j.do # "reward"
    BY <1>1, Popped
  <1>3. u \in User /\ t \in Tasks /\ ~UserOnly(t) /\ p \in [units : Nat, finished : {FALSE}]
    BY <1>1, <1>2, JobKinds
  <1>4. p.units <= Goal[t] /\ (MatchOnly(t) => row[u][t].units <= p.units)
    BY <1>1, <1>2 DEF QuestInv, UpToGoal, OnlyGrows
  <1>5. DOMAIN temp[u] = {}
    BY <1>1, <1>2, <1>3 DEF QuestInv, InMatch
  <1>6. \A a \in Range(Rest) : a.do = "apply" /\ a.user = u /\ a.task = t => a.progress = p
    BY <1>1, <1>2 DEF QuestInv, OneAfterAnother
  <1>7. /\ row \in [User -> [Tasks -> [units : Nat, finished : BOOLEAN]]]
        /\ counted \in [User -> [Tasks -> Nat]]
        /\ \A v \in User : DOMAIN temp[v] \subseteq Tasks
    BY DEF QuestInv, QuestTyped
  <1> HIDE DEF u, t, p
  <1>8. row[u][t].units \in Nat /\ counted[u][t] \in Nat /\ p.units \in Nat /\ ~p.finished
    BY <1>3, <1>7
  \* What is stored, and what has been counted, afterwards.
  <1>9. /\ row' \in [User -> [Tasks -> [units : Nat, finished : BOOLEAN]]]
        /\ counted' \in [User -> [Tasks -> Nat]]
        /\ \A v \in User, s \in Tasks : v # u \/ s # t =>
             row'[v][s] = row[v][s] /\ counted'[v][s] = counted[v][s]
        /\ \/ row'[u][t] = p /\ counted'[u][t] = counted[u][t]
           \/ row'[u][t] = row[u][t] /\ counted'[u][t] <= row[u][t].units
    <2>1. CASE Stored(u, t, p)
      <3>1. row' = [row EXCEPT ![u][t] = p] /\ counted' = counted
        BY <2>1 DEF Stored
      <3>2. p \in [units : Nat, finished : BOOLEAN]
        BY <1>3
      <3> QED BY <1>3, <1>7, <3>1, <3>2
    <2>2. CASE NotStored(u, t)
      <3>1. row' = row /\ counted' = [counted EXCEPT ![u][t] = Least(@, row[u][t].units)]
        BY <2>2 DEF NotStored
      <3>2. Least(counted[u][t], row[u][t].units) \in Nat
            /\ Least(counted[u][t], row[u][t].units) <= row[u][t].units
        BY <1>8 DEF Least
      <3> QED BY <1>3, <1>7, <3>1, <3>2
    <2> QED BY <1>1, <2>1, <2>2
  <1>10. RewardIsNext' /\ \A j \in Range(todo') : j.do # "reward"
    <2>1. todo' \in Seq(Job) /\ \A j \in Range(todo') : j.do # "reward"
      BY <1>1, <1>2
    <2> QED BY <2>1, NoRewards
  <1>11. QuestTyped'
    BY <1>1, <1>2, <1>9 DEF QuestInv, QuestTyped, UserOnly
  <1>12. OneAfterAnother' /\ InMatch'
    <2>1. \A j \in Range(todo') : j \in Range(Rest)
      BY <1>1
    <2> QED BY <1>1, <2>1, RestInOrder DEF QuestInv, InMatch
  <1>13. \A a \in Range(todo') : a \in Range(todo) /\ (a.do = "apply" => a.user \in User /\ a.task \in Tasks)
    BY <1>1, <1>2, JobKinds
  <1>14. UpToGoal'
    <2>1. \A v \in User, s \in Tasks : /\ row'[v][s].units <= Goal[s]
                                       /\ row'[v][s].finished => row'[v][s].units = Goal[s]
      <3> SUFFICES ASSUME NEW v \in User, NEW s \in Tasks
                   PROVE  row'[v][s].units <= Goal[s] /\ (row'[v][s].finished => row'[v][s].units = Goal[s])
        OBVIOUS
      <3>2. row'[v][s] = row[v][s] \/ (v = u /\ s = t /\ row'[v][s] = p)
        <4>1. CASE v = u /\ s = t
          BY <1>9, <4>1
        <4>2. CASE v # u \/ s # t
          BY <1>9, <4>2
        <4> QED BY <4>1, <4>2
      <3>3. CASE row'[v][s] = row[v][s]
        BY <3>3 DEF QuestInv, UpToGoal
      <3>4. CASE v = u /\ s = t /\ row'[v][s] = p
        BY <1>4, <1>8, <3>4
      <3> QED BY <3>2, <3>3, <3>4
    <2> QED BY <1>1, <1>13, <2>1 DEF QuestInv, UpToGoal
  <1>15. OnlyGrows'
    <2>1. \A v \in User : \A s \in DOMAIN temp'[v] : MatchOnly(s) => row'[v][s].units <= temp'[v][s].units
      <3> SUFFICES ASSUME NEW v \in User, NEW s \in DOMAIN temp'[v], MatchOnly(s)
                   PROVE  row'[v][s].units <= temp'[v][s].units
        OBVIOUS
      <3>1. temp' = temp /\ s \in DOMAIN temp[v] /\ s \in Tasks /\ v # u
        BY <1>1, <1>5, <1>7
      <3>2. row[v][s].units <= temp[v][s].units
        BY <3>1 DEF QuestInv, OnlyGrows
      <3>3. row'[v][s] = row[v][s]
        BY <1>9, <3>1
      <3> QED BY <3>1, <3>2, <3>3
    <2>2. ASSUME NEW a \in Range(todo'), a.do = "apply", MatchOnly(a.task)
          PROVE  row'[a.user][a.task].units <= a.progress.units
      <3>1. row[a.user][a.task].units <= a.progress.units
        BY <1>13, <2>2 DEF QuestInv, OnlyGrows
      <3>2. CASE a.user = u /\ a.task = t
        <4>1. a.progress = p
          BY <1>1, <1>6, <2>2, <3>2
        <4> QED BY <1>8, <1>9, <3>1, <3>2, <4>1
      <3>3. CASE a.user # u \/ a.task # t
        BY <1>9, <1>13, <2>2, <3>1, <3>3
      <3> QED BY <3>2, <3>3
    <2> QED BY <2>1, <2>2 DEF OnlyGrows, MatchOnly
  <1>16. NothingMissing'
    <2> SUFFICES ASSUME NEW v \in User, NEW s \in Tasks, MatchOnly(s) PROVE Somewhere(v, s)'
      BY DEF NothingMissing, MatchOnly
    <2>1. Somewhere(v, s)
      BY DEF QuestInv, NothingMissing
    <2>2. CASE v = u /\ s = t
      <3>1. counted[v][s] <= p.units
        <4>1. CASE counted[v][s] <= row[v][s].units
          BY <1>4, <1>8, <2>2, <4>1
        <4>2. CASE \E a \in Range(todo) : /\ a.do = "apply" /\ a.user = v /\ a.task = s
                                          /\ counted[v][s] <= a.progress.units
          BY <1>2, <1>6, <2>2, <4>2 DEF u, t, p
        <4> QED BY <1>5, <2>1, <2>2, <4>1, <4>2 DEF Somewhere
      <3>2. counted'[v][s] <= row'[v][s].units
        BY <1>9, <2>2, <3>1
      <3> QED BY <3>2 DEF Somewhere
    <2>3. CASE v # u \/ s # t
      <3>1. row'[v][s] = row[v][s] /\ counted'[v][s] = counted[v][s]
        BY <1>9, <2>3
      <3>2. \A a \in Range(todo) : a.do = "apply" /\ a.user = v /\ a.task = s => a \in Range(todo')
        BY <1>1, <1>2, <2>3 DEF u, t
      <3> QED BY <1>1, <2>1, <3>1, <3>2 DEF Somewhere
    <2> QED BY <2>2, <2>3
  <1>17. PaidAtGoal'
    <2> SUFFICES ASSUME NEW v \in User, NEW s \in Tasks, MatchOnly(s) \/ UserOnly(s)
                 PROVE  (row'[v][s].units < Goal[s] => paid[v][s] = 0) /\ paid[v][s] <= 1
      BY <1>1, <1>10 DEF PaidAtGoal, MatchOnly, UserOnly
    <2>1. (row[v][s].units < Goal[s] => paid[v][s] = 0) /\ paid[v][s] <= 1
      BY DEF QuestInv, PaidAtGoal
    <2>2. CASE v = u /\ s = t
      <3>1. Goal[s] \in Nat
        BY TaskAssumption DEF Tasks
      <3>2. row'[v][s].units < Goal[s] => row[v][s].units < Goal[s]
        BY <1>3, <1>4, <1>8, <1>9, <2>2, <3>1
      <3> QED BY <2>1, <3>2
    <2>3. CASE v # u \/ s # t
      BY <1>9, <2>1, <2>3
    <2> QED BY <2>2, <2>3
  <1> QED BY <1>10, <1>11, <1>12, <1>14, <1>15, <1>16, <1>17 DEF QuestInv

LEMMA ResetStep == ASSUME QuestInv, Reset PROVE QuestInv'
  <1> DEFINE gone(t) == Covers(First.period, t)
  <1>1. /\ ~Ready /\ First.do = "reset" /\ todo' = Rest /\ UNCHANGED <<char, match, temp>>
        /\ \/ /\ row' = [u \in User |-> [t \in Tasks |-> IF gone(t) THEN NoProgress ELSE row[u][t]]]
              /\ paid' = [u \in User |-> [t \in Tasks |-> IF gone(t) THEN 0 ELSE paid[u][t]]]
              /\ counted' = [u \in User |-> [t \in Tasks |-> IF gone(t) THEN 0 ELSE counted[u][t]]]
           \/ UNCHANGED <<row, paid, counted>>
    BY DEF Reset
  <1>2. /\ First \in Job /\ Rest \in Seq(Job) /\ Range(todo) = {First} \cup Range(Rest)
        /\ \A j \in Range(Rest) : j \in Job /\ j.do # "reward"
    BY <1>1, Popped
  <1> HIDE DEF gone
  <1>3. CASE UNCHANGED <<row, paid, counted>>
    <2>1. todo' = <<>> \o Rest /\ <<>> \in Seq(Job) /\ Range(<<>>) = {}
      BY <1>1, <1>2, PushedNone DEF Range
    <2>2. char' \in [User -> [exp : Int, level : Int]]
      BY <1>1 DEF QuestInv, QuestTyped
    <2> QED BY <1>1, <1>3, <2>1, <2>2, QuietCall
  <1>4. CASE ~ UNCHANGED <<row, paid, counted>>
    <2>1. /\ row \in [User -> [Tasks -> [units : Nat, finished : BOOLEAN]]]
          /\ paid \in [User -> [Tasks -> Nat]] /\ counted \in [User -> [Tasks -> Nat]]
          /\ \A v \in User : /\ DOMAIN temp[v] \subseteq Tasks
                             /\ \A s \in DOMAIN temp[v] : temp[v][s].units \in Nat
      BY DEF QuestInv, QuestTyped, Count
    <2>2. \A v \in User, s \in Tasks :
            \/ row'[v][s] = NoProgress /\ paid'[v][s] = 0 /\ counted'[v][s] = 0
            \/ row'[v][s] = row[v][s] /\ paid'[v][s] = paid[v][s] /\ counted'[v][s] = counted[v][s]
      BY <1>1, <1>4
    <2>3. /\ row' \in [User -> [Tasks -> [units : Nat, finished : BOOLEAN]]]
          /\ paid' \in [User -> [Tasks -> Nat]] /\ counted' \in [User -> [Tasks -> Nat]]
      <3>1. NoProgress \in [units : Nat, finished : BOOLEAN]
        BY DEF NoProgress
      <3>2. \A v \in User, s \in Tasks : /\ row[v][s] \in [units : Nat, finished : BOOLEAN]
                                         /\ paid[v][s] \in Nat /\ counted[v][s] \in Nat
        BY <2>1
      <3>3. row' \in [User -> [Tasks -> [units : Nat, finished : BOOLEAN]]]
        BY <1>1, <1>4, <3>1, <3>2
      <3>4. paid' \in [User -> [Tasks -> Nat]]
        BY <1>1, <1>4, <3>2
      <3>5. counted' \in [User -> [Tasks -> Nat]]
        BY <1>1, <1>4, <3>2
      <3> QED BY <3>3, <3>4, <3>5
    <2>4. QuestTyped'
      BY <1>1, <1>2, <2>3 DEF QuestInv, QuestTyped, UserOnly
    <2>5. RewardIsNext' /\ \A j \in Range(todo') : j.do # "reward"
      <3>1. todo' \in Seq(Job) /\ \A j \in Range(todo') : j.do # "reward"
        BY <1>1, <1>2
      <3> QED BY <3>1, NoRewards
    <2>6. OneAfterAnother' /\ InMatch'
      <3>1. \A j \in Range(todo') : j \in Range(Rest)
        BY <1>1
      <3> QED BY <1>1, <3>1, RestInOrder DEF QuestInv, InMatch
    <2>7. \A a \in Range(todo') :
            /\ a \in Range(todo)
            /\ a.do = "apply" => a.user \in User /\ a.task \in Tasks /\ a.progress.units \in Nat
      BY <1>1, <1>2, JobKinds
    <2>8. UpToGoal'
      <3>1. \A v \in User, s \in Tasks : /\ row'[v][s].units <= Goal[s]
                                         /\ row'[v][s].finished => row'[v][s].units = Goal[s]
        <4> SUFFICES ASSUME NEW v \in User, NEW s \in Tasks
                     PROVE  /\ row'[v][s].units <= Goal[s]
                            /\ row'[v][s].finished => row'[v][s].units = Goal[s]
          OBVIOUS
        <4>1. CASE row'[v][s] = row[v][s]
          BY <4>1 DEF QuestInv, UpToGoal
        <4>2. CASE row'[v][s] = NoProgress
          <5>1. Goal[s] \in Nat
            BY TaskAssumption DEF Tasks
          <5> QED BY <4>2, <5>1 DEF NoProgress
        <4> QED BY <2>2, <4>1, <4>2
      <3> QED BY <1>1, <2>7, <3>1 DEF QuestInv, UpToGoal
    <2>9. \A v \in User, s \in Tasks, n \in Nat : row[v][s].units <= n => row'[v][s].units <= n
      BY <2>1, <2>2 DEF NoProgress
    <2>10. OnlyGrows'
      <3>1. \A v \in User : \A s \in DOMAIN temp'[v] : MatchOnly(s) => row'[v][s].units <= temp'[v][s].units
        BY <1>1, <2>1, <2>9 DEF QuestInv, OnlyGrows
      <3>2. \A a \in Range(todo') :
              a.do = "apply" /\ MatchOnly(a.task) => row'[a.user][a.task].units <= a.progress.units
        BY <2>7, <2>9 DEF QuestInv, OnlyGrows
      <3> QED BY <3>1, <3>2 DEF OnlyGrows, MatchOnly
    <2>11. NothingMissing'
      <3> SUFFICES ASSUME NEW v \in User, NEW s \in Tasks, MatchOnly(s) PROVE Somewhere(v, s)'
        BY DEF NothingMissing, MatchOnly
      <3>1. CASE row'[v][s] = NoProgress /\ counted'[v][s] = 0
        BY <3>1 DEF Somewhere, NoProgress
      <3>2. CASE row'[v][s] = row[v][s] /\ counted'[v][s] = counted[v][s]
        <4>1. Somewhere(v, s)
          BY DEF QuestInv, NothingMissing
        <4>2. \A a \in Range(todo) : a.do = "apply" => a \in Range(todo')
          BY <1>1, <1>2
        <4> QED BY <1>1, <3>2, <4>1, <4>2 DEF Somewhere
      <3> QED BY <2>2, <3>1, <3>2
    <2>12. PaidAtGoal'
      <3> SUFFICES ASSUME NEW v \in User, NEW s \in Tasks, MatchOnly(s) \/ UserOnly(s)
                   PROVE  (row'[v][s].units < Goal[s] => paid'[v][s] = 0) /\ paid'[v][s] <= 1
        BY <2>5 DEF PaidAtGoal, MatchOnly, UserOnly
      <3>1. (row[v][s].units < Goal[s] => paid[v][s] = 0) /\ paid[v][s] <= 1
        BY DEF QuestInv, PaidAtGoal
      <3> QED BY <2>2, <3>1
    <2> QED BY <2>4, <2>5, <2>6, <2>8, <2>10, <2>11, <2>12 DEF QuestInv
  <1> QED BY <1>3, <1>4

LEMMA RestartStep == ASSUME QuestInv, Restart PROVE QuestInv'
  <1>1. /\ todo' = <<>> /\ UNCHANGED <<row, char, paid>>
        /\ match' = [u \in User |-> NoMatch] /\ temp' = [u \in User |-> NoTemp]
        /\ counted' = [u \in User |-> [t \in Tasks |-> Least(counted[u][t], row[u][t].units)]]
    BY DEF Restart, tables
  <1>2. /\ row \in [User -> [Tasks -> [units : Nat, finished : BOOLEAN]]]
        /\ counted \in [User -> [Tasks -> Nat]]
    BY DEF QuestInv, QuestTyped
  <1>3. \A u \in User, t \in Tasks : row[u][t].units \in Nat /\ counted[u][t] \in Nat
    BY <1>2
  <1>4. \A u \in User, t \in Tasks : /\ counted'[u][t] \in Nat
                                     /\ counted'[u][t] <= row[u][t].units
    BY <1>1, <1>3 DEF Least
  <1>5. todo' \in Seq(Job) /\ Range(todo') = {} /\ RewardIsNext'
    BY <1>1 DEF Range, RewardIsNext, Ready
  <1>6. DOMAIN temp' = User /\ \A u \in User : DOMAIN temp'[u] = {}
    BY <1>1 DEF NoTemp
  <1>7. counted' \in [User -> [Tasks -> Nat]] /\ match' \in [User -> Mode \cup {NoMatch}]
    BY <1>1, <1>4
  <1>8. QuestTyped'
    BY <1>1, <1>5, <1>6, <1>7 DEF QuestInv, QuestTyped
  <1>9. InMatch' /\ OneAfterAnother' /\ UpToGoal' /\ OnlyGrows'
    BY <1>1, <1>5, <1>6 DEF QuestInv, InMatch, OneAfterAnother, UpToGoal, OnlyGrows
  <1>10. NothingMissing'
    BY <1>1, <1>4 DEF NothingMissing, Somewhere
  <1>11. PaidAtGoal'
    BY <1>1, <1>5 DEF QuestInv, PaidAtGoal, MatchOnly, UserOnly
  <1> QED BY <1>5, <1>8, <1>9, <1>10, <1>11 DEF QuestInv

LEMMA ConnectStep == ASSUME QuestInv, NEW u \in User, NEW mode \in Mode, Connect(u, mode) PROVE QuestInv'
  <1>1. /\ Ready /\ match[u] = NoMatch /\ match' = [match EXCEPT ![u] = mode]
        /\ UNCHANGED <<row, char, temp, todo, paid, counted>>
    BY DEF Connect, tables
  <1>2. match' \in [User -> Mode \cup {NoMatch}]
    BY <1>1 DEF QuestInv, QuestTyped
  <1>3. Range(todo) = {}
    BY <1>1 DEF Ready, Range
  <1>4. \A v \in User : match'[v] = NoMatch => DOMAIN temp[v] = {}
    BY <1>1 DEF QuestInv, QuestTyped, InMatch
  <1>5. QuestTyped' /\ RewardIsNext' /\ InMatch' /\ OneAfterAnother' /\ UpToGoal' /\ OnlyGrows'
    BY <1>1, <1>2, <1>3, <1>4
       DEF QuestInv, QuestTyped, RewardIsNext, Ready, Rest, InMatch, OneAfterAnother, UpToGoal, OnlyGrows
  <1>6. NothingMissing' /\ PaidAtGoal'
    BY <1>1 DEF QuestInv, NothingMissing, Somewhere, PaidAtGoal, MatchOnly, UserOnly
  <1> QED BY <1>5, <1>6 DEF QuestInv

\* What a match counts of one task changes: its units and its streak.
LEMMA SetTempFacts ==
  ASSUME QuestInv, NEW u \in User, NEW t \in Tasks, ~UserOnly(t), NEW q \in Count, SetTemp(u, t, q)
  PROVE  /\ DOMAIN temp' = User /\ t \in DOMAIN temp'[u] /\ temp'[u][t] = q
         /\ \A v \in User : /\ DOMAIN temp[v] \subseteq DOMAIN temp'[v]
                            /\ DOMAIN temp'[v] \subseteq {s \in Tasks : ~UserOnly(s)}
                            /\ \A s \in DOMAIN temp'[v] :
                                 /\ temp'[v][s] \in Count
                                 /\ v # u \/ s # t => s \in DOMAIN temp[v] /\ temp'[v][s] = temp[v][s]
  <1>1. /\ DOMAIN temp = User
        /\ \A v \in User : /\ DOMAIN temp[v] \subseteq {s \in Tasks : ~UserOnly(s)}
                           /\ \A s \in DOMAIN temp[v] : temp[v][s] \in Count
    BY DEF QuestInv, QuestTyped
  <1> DEFINE new == [k \in DOMAIN temp[u] \cup {t} |-> IF k = t THEN q ELSE temp[u][k]]
  <1>2. temp' = [temp EXCEPT ![u] = new]
    BY DEF SetTemp
  <1>3. /\ DOMAIN new = DOMAIN temp[u] \cup {t} /\ new[t] = q
        /\ \A s \in DOMAIN temp[u] : s # t => new[s] = temp[u][s]
    OBVIOUS
  <1> HIDE DEF new
  <1>4. DOMAIN temp' = User /\ temp'[u] = new /\ \A v \in User : v # u => temp'[v] = temp[v]
    BY <1>1, <1>2
  <1> SUFFICES ASSUME NEW v \in User
               PROVE  /\ DOMAIN temp[v] \subseteq DOMAIN temp'[v]
                      /\ DOMAIN temp'[v] \subseteq {s \in Tasks : ~UserOnly(s)}
                      /\ \A s \in DOMAIN temp'[v] :
                           /\ temp'[v][s] \in Count
                           /\ v # u \/ s # t => s \in DOMAIN temp[v] /\ temp'[v][s] = temp[v][s]
    BY <1>3, <1>4
  <1>5. CASE v = u
    BY <1>1, <1>3, <1>4, <1>5
  <1>6. CASE v # u
    BY <1>1, <1>4, <1>6
  <1> QED BY <1>5, <1>6

\* The copy that is counted on is not behind what is stored, and nothing counted is elsewhere.
LEMMA TempFacts ==
  ASSUME QuestInv, NEW u \in User, NEW t \in Tasks, match[u] # NoMatch, Open(u, t)
  PROVE  /\ Temp(u, t) \in Count /\ Temp(u, t).units <= Goal[t]
         /\ MatchOnly(t) => row[u][t].units <= Temp(u, t).units /\ counted[u][t] <= Temp(u, t).units
  <1>1. row[u][t] \in [units : Nat, finished : BOOLEAN] /\ counted[u][t] \in Nat
    BY DEF QuestInv, QuestTyped
  <1>2. row[u][t].units < Goal[t] /\ Goal[t] \in Nat
    BY TaskAssumption DEF Open, Progress, Tasks
  <1>3. row[u][t].finished = FALSE
    <2>1. ~row[u][t].finished
      BY <1>1, <1>2 DEF QuestInv, UpToGoal
    <2> QED BY <1>1, <2>1
  <1>4. \A a \in Range(todo) : a.do = "apply" => a.user # u
    BY DEF QuestInv, InMatch
  <1>5. MatchOnly(t) => Somewhere(u, t)
    BY DEF QuestInv, NothingMissing
  <1>6. CASE t \in DOMAIN temp[u]
    <2>1. Temp(u, t) = temp[u][t]
      BY <1>6 DEF Temp
    <2>2. temp[u][t] \in Count /\ temp[u][t].units \in Nat
      BY <1>6 DEF QuestInv, QuestTyped, Count
    <2>3. temp[u][t].units <= Goal[t] /\ (MatchOnly(t) => row[u][t].units <= temp[u][t].units)
      BY <1>6 DEF QuestInv, UpToGoal, OnlyGrows
    <2>4. MatchOnly(t) => counted[u][t] <= temp[u][t].units
      BY <1>1, <1>4, <1>5, <2>2, <2>3 DEF Somewhere
    <2> QED BY <2>1, <2>2, <2>3, <2>4
  <1>7. CASE t \notin DOMAIN temp[u]
    <2>1. Temp(u, t) = [units |-> row[u][t].units, finished |-> FALSE, streak |-> 0]
      BY <1>3, <1>7 DEF Temp, Progress
    <2>2. Temp(u, t) \in Count /\ Temp(u, t).units = row[u][t].units
      <3>1. row[u][t].units \in Nat
        BY <1>1
      <3> QED BY <2>1, <3>1 DEF Count
    <2>3. MatchOnly(t) => counted[u][t] <= row[u][t].units
      BY <1>4, <1>5, <1>7 DEF Somewhere
    <2> QED BY <1>1, <1>2, <2>2, <2>3
  <1> QED BY <1>6, <1>7

\* An event that changes what the match counts of one open task, and perhaps its row.
LEMMA CountedStep ==
  ASSUME QuestInv, ~Ready, First.do = "event", NEW u \in User, NEW t \in Tasks, ~UserOnly(t),
         Open(u, t), match[u] # NoMatch, UNCHANGED <<char, match, paid>>,
         NEW q \in Count, SetTemp(u, t, q), q.units <= Goal[t],
         row' \in [User -> [Tasks -> [units : Nat, finished : BOOLEAN]]],
         counted' \in [User -> [Tasks -> Nat]],
         \A v \in User, s \in Tasks : v # u \/ s # t =>
           row'[v][s] = row[v][s] /\ counted'[v][s] = counted[v][s],
         todo' \in Seq(Job), Range(Rest) \subseteq Range(todo'),
         \A j \in Range(todo') : j \in Range(Rest) \/ j.do = "reward",
         RewardIsNext', PaidAtGoal',
         \A v \in User, s \in Tasks : /\ row'[v][s].units <= Goal[s]
                                      /\ row'[v][s].finished => row'[v][s].units = Goal[s],
         MatchOnly(t) => row'[u][t].units <= q.units,
         MatchOnly(t) => counted'[u][t] <= q.units
  PROVE  QuestInv'
  <1>1. /\ DOMAIN temp' = User /\ t \in DOMAIN temp'[u] /\ temp'[u][t] = q
        /\ \A v \in User : /\ DOMAIN temp[v] \subseteq DOMAIN temp'[v]
                           /\ DOMAIN temp'[v] \subseteq {s \in Tasks : ~UserOnly(s)}
                           /\ \A s \in DOMAIN temp'[v] :
                                /\ temp'[v][s] \in Count
                                /\ v # u \/ s # t => s \in DOMAIN temp[v] /\ temp'[v][s] = temp[v][s]
    BY SetTempFacts
  <1>2. QuestTyped'
    BY <1>1 DEF QuestInv, QuestTyped, UserOnly
  <1>3. OneAfterAnother' /\ \A a \in Range(todo') : /\ a.do = "event" => match[a.user] # NoMatch
                                                    /\ a.do = "apply" => match[a.user] = NoMatch
    BY RestInOrder
  <1>4. InMatch'
    <2>1. \A v \in User : match[v] = NoMatch => DOMAIN temp'[v] = {}
      BY <1>1 DEF QuestInv, InMatch
    <2> QED BY <1>3, <2>1 DEF InMatch
  <1>5. \A a : a.do = "apply" => (a \in Range(todo') <=> a \in Range(todo))
    <2>1. Range(todo) = {First} \cup Range(Rest)
      BY Popped
    <2> QED BY <2>1
  <1>6. \A a \in Range(todo) : a.do = "apply" => a.user \in User /\ a.user # u /\ a.task \in Tasks
    <2>1. \A a \in Range(todo) : a \in Job
      BY Popped
    <2>2. \A a \in Range(todo) : a.do = "apply" => a.user \in User /\ a.task \in Tasks
      BY <2>1, JobKinds
    <2> QED BY <2>2 DEF QuestInv, InMatch
  <1>7. UpToGoal'
    <2>1. \A v \in User : \A s \in DOMAIN temp'[v] : temp'[v][s].units <= Goal[s]
      <3> SUFFICES ASSUME NEW v \in User, NEW s \in DOMAIN temp'[v] PROVE temp'[v][s].units <= Goal[s]
        OBVIOUS
      <3>1. CASE v = u /\ s = t
        BY <1>1, <3>1
      <3>2. CASE v # u \/ s # t
        <4>1. s \in DOMAIN temp[v] /\ temp'[v][s] = temp[v][s]
          BY <1>1, <3>2
        <4>2. temp[v][s].units <= Goal[s]
          BY <4>1 DEF QuestInv, UpToGoal
        <4> QED BY <4>1, <4>2
      <3> QED BY <3>1, <3>2
    <2> QED BY <1>5, <2>1 DEF QuestInv, UpToGoal
  <1>8. OnlyGrows'
    <2>1. ASSUME NEW v \in User, NEW s \in DOMAIN temp'[v], MatchOnly(s)
          PROVE  row'[v][s].units <= temp'[v][s].units
      <3>1. CASE v = u /\ s = t
        BY <1>1, <2>1, <3>1
      <3>2. CASE v # u \/ s # t
        <4>1. s \in DOMAIN temp[v] /\ temp'[v][s] = temp[v][s]
          BY <1>1, <3>2
        <4>2. row[v][s].units <= temp[v][s].units
          BY <2>1, <4>1 DEF QuestInv, OnlyGrows
        <4>3. s \in Tasks /\ row'[v][s] = row[v][s]
          BY <1>1, <3>2
        <4> QED BY <4>1, <4>2, <4>3
      <3> QED BY <3>1, <3>2
    <2>2. ASSUME NEW a \in Range(todo'), a.do = "apply", MatchOnly(a.task)
          PROVE  row'[a.user][a.task].units <= a.progress.units
      <3>1. a \in Range(todo) /\ a.user \in User /\ a.user # u /\ a.task \in Tasks
        BY <1>5, <1>6, <2>2
      <3>2. row'[a.user][a.task] = row[a.user][a.task]
        BY <3>1
      <3>3. row[a.user][a.task].units <= a.progress.units
        BY <2>2, <3>1 DEF QuestInv, OnlyGrows
      <3> QED BY <3>2, <3>3
    <2> QED BY <2>1, <2>2 DEF OnlyGrows, MatchOnly
  <1>9. NothingMissing'
    <2> SUFFICES ASSUME NEW v \in User, NEW s \in Tasks, MatchOnly(s) PROVE Somewhere(v, s)'
      BY DEF NothingMissing, MatchOnly
    <2>1. Somewhere(v, s)
      BY DEF QuestInv, NothingMissing
    <2>2. CASE v = u /\ s = t
      BY <1>1, <2>2 DEF Somewhere
    <2>3. CASE v # u \/ s # t
      <3>1. row'[v][s] = row[v][s] /\ counted'[v][s] = counted[v][s]
        BY <2>3
      <3>2. s \in DOMAIN temp[v] => s \in DOMAIN temp'[v] /\ temp'[v][s] = temp[v][s]
        BY <1>1, <2>3
      <3> QED BY <1>5, <2>1, <3>1, <3>2 DEF Somewhere
    <2> QED BY <2>2, <2>3
  <1> QED BY <1>2, <1>3, <1>4, <1>7, <1>8, <1>9 DEF QuestInv

LEMMA OnMatchConditionStep == ASSUME QuestInv, OnMatchCondition PROVE QuestInv'
  <1> DEFINE u == First.user  t == Cond.task  c == Cond
  <1>1. /\ ~Ready /\ First.do = "event"
        /\ UNCHANGED <<char, match, paid>>
        /\ IF ~Applies(u, t, c) THEN todo' = Rest /\ UNCHANGED <<row, temp, counted>>
           ELSE IF c.event = "kill" /\ First.how \notin c.how THEN WrongKill(u, t, c)
           ELSE IF c.event = "kill" /\ c.streak > Temp(u, t).streak THEN LongerStreak(u, t, c)
           ELSE IncrementTemp(u, t, c)
    BY DEF OnMatchCondition
  <1>2. /\ First \in Job /\ First \in Range(todo) /\ Rest \in Seq(Job)
        /\ \A j \in Range(Rest) : j.do # "reward"
    BY <1>1, Popped
  <1>3. u \in User /\ First.cond \in DOMAIN Conditions /\ c.event \in Event
    BY <1>1, <1>2, JobKinds DEF Cond
  <1>4. match[u] # NoMatch
    BY <1>1, <1>2 DEF QuestInv, InMatch
  <1>5. /\ c \in Range(Conditions) /\ t \in Tasks /\ c.points \in Nat /\ c.streak \in Nat
    <2>1. DOMAIN Conditions = 1..Len(Conditions)
      BY ConditionAssumption, LenProperties
    <2>2. c \in [task : Range(Task), event : STRING, modes : SUBSET Mode,
                 points : Nat, streak : Nat, how : SUBSET How]
      BY <1>3, <2>1, ConditionAssumption, ElementOfSeq DEF Cond
    <2>3. c \in Range(Conditions)
      BY <1>3 DEF Cond, Range
    <2> HIDE DEF c
    <2> QED BY <2>2, <2>3 DEF Tasks, c
  <1>6. ~UserOnly(t)
    BY <1>3, <1>5 DEF UserOnly
  <1> HIDE DEF u, t, c
  <1>7. CASE ~Applies(u, t, c)
    <2>1. todo' = <<>> \o Rest /\ <<>> \in Seq(Job) /\ Range(<<>>) = {}
      BY <1>1, <1>2, <1>7, PushedNone DEF Range
    <2>2. char' \in [User -> [exp : Int, level : Int]]
      BY <1>1 DEF QuestInv, QuestTyped
    <2> QED BY <1>1, <1>7, <2>1, <2>2, QuietCall
  <1>8. CASE Applies(u, t, c)
    <2>1. Open(u, t)
      BY <1>8 DEF Applies
    <2>2. /\ Temp(u, t) \in Count /\ Temp(u, t).units <= Goal[t]
          /\ MatchOnly(t) => row[u][t].units <= Temp(u, t).units /\ counted[u][t] <= Temp(u, t).units
      BY <1>3, <1>4, <1>5, <2>1, TempFacts
    <2>3. /\ row \in [User -> [Tasks -> [units : Nat, finished : BOOLEAN]]]
          /\ counted \in [User -> [Tasks -> Nat]]
          /\ \A v \in User, s \in Tasks : /\ row[v][s].units <= Goal[s]
                                          /\ row[v][s].finished => row[v][s].units = Goal[s]
      BY DEF QuestInv, QuestTyped, UpToGoal
    <2>4. Goal[t] \in Nat \ {0}
      BY <1>5, TaskAssumption DEF Tasks
    <2>5. todo' = Rest => RewardIsNext' /\ \A j \in Range(todo') : j.do # "reward"
      <3> SUFFICES ASSUME todo' = Rest
                   PROVE  RewardIsNext' /\ \A j \in Range(todo') : j.do # "reward"
        OBVIOUS
      <3>1. todo' \in Seq(Job) /\ \A j \in Range(todo') : j.do # "reward"
        BY <1>2
      <3> QED BY <3>1, NoRewards
    <2>6. todo' = Rest /\ row' = row => PaidAtGoal'
      BY <1>1, <2>5 DEF QuestInv, PaidAtGoal, MatchOnly, UserOnly
    \* A kill that does not count changes the streak only.
    <2>7. ASSUME NEW streak \in Nat, SetTemp(u, t, [Temp(u, t) EXCEPT !.streak = streak]),
                 todo' = Rest, UNCHANGED <<row, counted>>
          PROVE  QuestInv'
      <3> DEFINE q == [Temp(u, t) EXCEPT !.streak = streak]
      <3>1. q \in Count /\ q.units = Temp(u, t).units
        BY <2>2 DEF Count
      <3>2. SetTemp(u, t, q)
        BY <2>7
      <3>3. /\ todo' \in Seq(Job) /\ Range(Rest) \subseteq Range(todo')
            /\ \A j \in Range(todo') : j \in Range(Rest)
        BY <1>2, <2>7
      <3>4. /\ row' \in [User -> [Tasks -> [units : Nat, finished : BOOLEAN]]]
            /\ counted' \in [User -> [Tasks -> Nat]] /\ row' = row /\ counted' = counted
        BY <2>3, <2>7
      <3>5. \A v \in User, s \in Tasks : v # u \/ s # t =>
              row'[v][s] = row[v][s] /\ counted'[v][s] = counted[v][s]
        BY <3>4
      <3>6. \A v \in User, s \in Tasks : /\ row'[v][s].units <= Goal[s]
                                         /\ row'[v][s].finished => row'[v][s].units = Goal[s]
        BY <2>3, <3>4
      <3>7. RewardIsNext' /\ PaidAtGoal' /\ \A j \in Range(todo') : j \in Range(Rest) \/ j.do = "reward"
        BY <2>5, <2>6, <2>7, <3>3, <3>4
      <3> HIDE DEF q
      <3>8. /\ q.units <= Goal[t]
            /\ MatchOnly(t) => row'[u][t].units <= q.units /\ counted'[u][t] <= q.units
        BY <2>2, <3>1, <3>4
      <3> QED BY <1>1, <1>3, <1>4, <1>5, <1>6, <2>1, <3>1, <3>2, <3>3, <3>4, <3>5, <3>6, <3>7, <3>8,
                 CountedStep
    <2>8. CASE WrongKill(u, t, c)
      <3>1. todo' = Rest /\ UNCHANGED <<row, counted>>
        BY <2>8 DEF WrongKill
      <3>2. CASE c.streak > 0
        <4>1. SetTemp(u, t, [Temp(u, t) EXCEPT !.streak = 0])
          BY <2>8, <3>2 DEF WrongKill
        <4> QED BY <2>7, <3>1, <4>1
      <3>3. CASE ~(c.streak > 0)
        <4>1. UNCHANGED temp
          BY <2>8, <3>3 DEF WrongKill
        <4>2. todo' = <<>> \o Rest /\ <<>> \in Seq(Job) /\ Range(<<>>) = {}
          BY <1>2, <3>1, PushedNone DEF Range
        <4>3. char' \in [User -> [exp : Int, level : Int]]
          BY <1>1 DEF QuestInv, QuestTyped
        <4> QED BY <1>1, <3>1, <4>1, <4>2, <4>3, QuietCall
      <3> QED BY <3>2, <3>3
    <2>9. CASE LongerStreak(u, t, c)
      <3>1. Temp(u, t).streak + 1 \in Nat
        BY <2>2 DEF Count
      <3>2. /\ SetTemp(u, t, [Temp(u, t) EXCEPT !.streak = Temp(u, t).streak + 1])
            /\ todo' = Rest /\ UNCHANGED <<row, counted>>
        BY <2>9 DEF LongerStreak
      <3> QED BY <2>7, <3>1, <3>2
    <2>10. CASE IncrementTemp(u, t, c)
      <3> DEFINE units == Least(Temp(u, t).units + c.points, Goal[t])
                 streak == IF c.event = "kill" /\ c.streak > 0 THEN 0 ELSE Temp(u, t).streak
                 q == [Temp(u, t) EXCEPT !.units = units, !.streak = streak]
      <3>1. /\ SetTemp(u, t, q)
            /\ IF units = Goal[t] THEN Increment(u, t, Goal[t], TRUE)
               ELSE /\ counted' = [counted EXCEPT ![u][t] = Least(counted[u][t] + c.points, Goal[t])]
                    /\ todo' = Rest /\ UNCHANGED row
        BY <2>10 DEF IncrementTemp
      <3>2. Temp(u, t).units \in Nat /\ Temp(u, t).streak \in Nat
        BY <2>2 DEF Count
      <3>3. /\ units \in Nat /\ units <= Goal[t] /\ units >= Temp(u, t).units
            /\ units = Goal[t] \/ units = Temp(u, t).units + c.points
        BY <1>5, <2>2, <2>4, <3>2 DEF Least
      <3>4. streak \in Nat
        BY <3>2
      <3> HIDE DEF units, streak
      <3>5. q \in Count /\ q.units = units
        BY <2>2, <3>3, <3>4 DEF Count
      <3> HIDE DEF q
      <3>6. counted[u][t] \in Nat /\ row[u][t].units \in Nat
        BY <1>3, <1>5, <2>3
      <3>7. CASE units = Goal[t]
        <4>1. Increment(u, t, Goal[t], TRUE) /\ Goal[t] \in Nat
          BY <2>4, <3>1, <3>7
        <4>2. /\ row' \in [User -> [Tasks -> [units : Nat, finished : BOOLEAN]]]
              /\ counted' \in [User -> [Tasks -> Nat]]
              /\ \A v \in User, s \in Tasks : v # u \/ s # t =>
                   row'[v][s] = row[v][s] /\ counted'[v][s] = counted[v][s]
              /\ row'[u][t].units <= Goal[t]
              /\ counted' = counted \/ counted'[u][t] <= row'[u][t].units
          BY <1>1, <1>3, <1>5, <2>1, <4>1, IncrementFacts
        <4>3. /\ todo' \in Seq(Job) /\ Range(Rest) \subseteq Range(todo')
              /\ \A j \in Range(todo') : j \in Range(Rest) \/ j = Reward(u, t)
              /\ RewardIsNext' /\ PaidAtGoal'
              /\ \A v \in User, s \in Tasks : /\ row'[v][s].units <= Goal[s]
                                              /\ row'[v][s].finished => row'[v][s].units = Goal[s]
          BY <1>1, <1>3, <1>5, <2>1, <4>1, IncrementRewards
        <4>4. row'[u][t].units \in Nat /\ counted'[u][t] \in Nat
          BY <1>3, <1>5, <4>2
        <4>5. MatchOnly(t) => row'[u][t].units <= q.units /\ counted'[u][t] <= q.units
          BY <2>2, <2>4, <3>2, <3>5, <3>6, <3>7, <4>2, <4>4
        <4>6. \A j \in Range(todo') : j \in Range(Rest) \/ j.do = "reward"
          BY <4>3 DEF Reward
        <4>7. q.units <= Goal[t]
          BY <3>3, <3>5
        <4> QED BY <1>1, <1>3, <1>4, <1>5, <1>6, <2>1, <3>1, <3>5, <4>2, <4>3, <4>5, <4>6, <4>7, CountedStep
      <3>8. CASE units # Goal[t]
        <4>1. /\ counted' = [counted EXCEPT ![u][t] = Least(counted[u][t] + c.points, Goal[t])]
              /\ todo' = Rest /\ row' = row
          BY <3>1, <3>8
        <4>2. /\ Least(counted[u][t] + c.points, Goal[t]) \in Nat
              /\ Least(counted[u][t] + c.points, Goal[t]) <= counted[u][t] + c.points
          BY <1>5, <2>4, <3>6 DEF Least
        <4>3. /\ counted' \in [User -> [Tasks -> Nat]]
              /\ \A v \in User, s \in Tasks : v # u \/ s # t => counted'[v][s] = counted[v][s]
              /\ counted'[u][t] = Least(counted[u][t] + c.points, Goal[t])
          BY <1>3, <1>5, <2>3, <4>1, <4>2
        <4>4. /\ todo' \in Seq(Job) /\ Range(Rest) \subseteq Range(todo')
              /\ \A j \in Range(todo') : j \in Range(Rest)
          BY <1>2, <4>1
        <4>5. MatchOnly(t) => row'[u][t].units <= q.units /\ counted'[u][t] <= q.units
          <5>1. units = Temp(u, t).units + c.points
            BY <3>3, <3>8
          <5> QED BY <1>5, <2>2, <3>2, <3>3, <3>5, <3>6, <4>1, <4>2, <4>3, <5>1
        <4>6. q.units <= Goal[t]
          BY <3>3, <3>5
        <4>7. RewardIsNext' /\ PaidAtGoal' /\ row' = row
          BY <2>5, <2>6, <4>1
        <4>8. /\ row' \in [User -> [Tasks -> [units : Nat, finished : BOOLEAN]]]
              /\ \A v \in User, s \in Tasks : v # u \/ s # t =>
                   row'[v][s] = row[v][s] /\ counted'[v][s] = counted[v][s]
              /\ \A v \in User, s \in Tasks : /\ row'[v][s].units <= Goal[s]
                                              /\ row'[v][s].finished => row'[v][s].units = Goal[s]
              /\ \A j \in Range(todo') : j \in Range(Rest) \/ j.do = "reward"
          BY <2>3, <4>3, <4>4, <4>7
        <4> QED BY <1>1, <1>3, <1>4, <1>5, <1>6, <2>1, <3>1, <3>5, <4>3, <4>4, <4>5, <4>6, <4>7, <4>8,
                   CountedStep
      <3> QED BY <3>7, <3>8
    <2> QED BY <1>1, <1>8, <2>8, <2>9, <2>10
  <1> QED BY <1>7, <1>8

-----------------------------------------------------------------------------
(* The theorems *)

\* Between any two calls of the quest handlers, the work that is left fits the call in
\* progress, no progress kept by the match or the database is above its goal, what was counted
\* is held by one of them, and no task below its goal was rewarded since its last reset: what
\* RewardedOnce and PointsAreKept follow from.
THEOREM QuestInvariant == QuestSpec => []QuestInv
  <1>1. QuestInit => QuestInv
    <2> SUFFICES ASSUME QuestInit PROVE QuestInv
      OBVIOUS
    <2>1. /\ row = [u \in User |-> [t \in Tasks |-> NoProgress]]
          /\ char = [u \in User |-> NoChar]
          /\ match = [u \in User |-> NoMatch] /\ temp = [u \in User |-> NoTemp] /\ todo = <<>>
          /\ paid = [u \in User |-> [t \in Tasks |-> 0]]
          /\ counted = [u \in User |-> [t \in Tasks |-> 0]]
      BY DEF QuestInit
    <2>2. NoProgress \in [units : Nat, finished : BOOLEAN] /\ NoChar \in [exp : Int, level : Int]
      BY DEF NoProgress, NoChar
    <2>3. /\ row \in [User -> [Tasks -> [units : Nat, finished : BOOLEAN]]]
          /\ char \in [User -> [exp : Int, level : Int]] /\ match \in [User -> Mode \cup {NoMatch}]
          /\ paid \in [User -> [Tasks -> Nat]] /\ counted \in [User -> [Tasks -> Nat]]
      BY <2>1, <2>2
    <2>4. DOMAIN temp = User /\ \A u \in User : DOMAIN temp[u] = {}
      BY <2>1 DEF NoTemp
    <2>5. todo \in Seq(Job) /\ Range(todo) = {} /\ RewardIsNext
      BY <2>1 DEF Range, RewardIsNext, Ready
    <2>6. QuestTyped
      BY <2>3, <2>4, <2>5 DEF QuestTyped
    <2>7. \A u \in User, t \in Tasks : /\ row[u][t].units = 0 /\ ~row[u][t].finished
                                       /\ paid[u][t] = 0 /\ counted[u][t] = 0 /\ Goal[t] \in Nat \ {0}
      BY <2>1, TaskAssumption DEF NoProgress, Tasks
    <2>8. InMatch /\ OneAfterAnother /\ UpToGoal /\ OnlyGrows
      BY <2>4, <2>5, <2>7 DEF InMatch, OneAfterAnother, UpToGoal, OnlyGrows
    <2>9. NothingMissing /\ PaidAtGoal
      BY <2>5, <2>7 DEF NothingMissing, Somewhere, PaidAtGoal
    <2> QED BY <2>5, <2>6, <2>8, <2>9 DEF QuestInv
  <1>2. QuestInv /\ [QuestNext]_questVars => QuestInv'
    <2> SUFFICES ASSUME QuestInv, [QuestNext]_questVars PROVE QuestInv'
      OBVIOUS
    <2>1. ASSUME UNCHANGED questVars PROVE QuestInv'
      BY <2>1, UnmovedStep DEF questVars, tables, memory
    <2>2. ASSUME Handle PROVE QuestInv'
      BY <2>2, OnMatchConditionStep, OnUserConditionStep, GiveRewardStep, UpdateExpStep,
         UpdateCharacterStep, LeaveMatchStep, ApplyProgressStep, NextResetTimeStep, ResetStep DEF Handle
    <2>3. ASSUME NEW u \in User, UserNext(u) PROVE QuestInv'
      <3>1. CASE OnUserLogin(u) \/ CreateCharacter(u) \/ Disconnect(u)
        BY <3>1, OnUserLoginStep, CreateCharacterStep, DisconnectStep
      <3>2. CASE Logout(u)
        BY <3>2, UnmovedStep DEF Logout, tables
      <3>3. CASE \E mode \in Mode : Connect(u, mode)
        BY <3>3, ConnectStep
      <3>4. CASE \E how \in How : OnMatchEvent(u, "kill", how)
        BY <3>4, ConditionAssumption, OnMatchEventStep
      <3>5. CASE \E event \in Event \ {"kill"} : OnMatchEvent(u, event, CHOOSE how \in How : TRUE)
        <4>1. (CHOOSE how \in How : TRUE) \in How
          BY ConditionAssumption
        <4> QED BY <3>5, <4>1, OnMatchEventStep
      <3> QED BY <2>3, <3>1, <3>2, <3>3, <3>4, <3>5 DEF UserNext
    <2>4. ASSUME NEW mode \in Mode, EndGame(mode) PROVE QuestInv'
      BY <2>4, EndGameStep
    <2>5. ASSUME NEW period \in {"day", "week"}, TimeComes(period) PROVE QuestInv'
      BY <2>5, UnmovedStep DEF TimeComes, memory
    <2> QED BY <2>1, <2>2, <2>3, <2>4, <2>5, OnMinuteTickStep, RestartStep DEF QuestNext
  <1> QED BY <1>1, <1>2, PTL DEF QuestSpec

\* A task is rewarded once at most between two of its resets, for all quests whose tasks are
\* of one kind each, all users, matches, failing writes and restarts.
THEOREM RewardedOnce == QuestSpec => []RewardOnce
  <1>1. QuestInv => RewardOnce
    BY DEF QuestInv, PaidAtGoal, RewardOnce
  <1> QED BY <1>1, QuestInvariant, PTL

\* Every point a match counted is in the database when the user is in no match any more.
THEOREM PointsAreKept == QuestSpec => []NothingLost
  <1>1. QuestInv => NothingLost
    <2> SUFFICES ASSUME QuestInv, Ready, NEW u \in User, match[u] = NoMatch, NEW t \in Tasks, MatchOnly(t)
                 PROVE  row[u][t].units >= counted[u][t]
      BY DEF NothingLost
    <2>1. Range(todo) = {} /\ DOMAIN temp[u] = {}
      BY DEF Ready, Range, QuestInv, InMatch
    <2>2. counted[u][t] <= row[u][t].units
      BY <2>1 DEF QuestInv, NothingMissing, Somewhere
    <2>3. row[u][t].units \in Nat /\ counted[u][t] \in Nat
      BY DEF QuestInv, QuestTyped
    <2> QED BY <2>2, <2>3
  <1> QED BY <1>1, QuestInvariant, PTL

=============================================================================
