---------------------------- MODULE MCInventory ----------------------------
(* Instances of Inventory for TLC: one with what is worn, terms and rewards, *)
(* one with stock that is used up, boxes and the extender.                   *)
EXTENDS Inventory

CONSTANTS Hat, Plate, Rifle, Ticket, Box, Extender

G(id, n, d) == [id |-> id, count |-> n, days |-> d]
KindDef ==
  [i \in Item |-> CASE i = Ticket -> "countable" [] i = Box -> "box" [] i = Hat -> "costume"
                    [] i = Rifle -> "plain" [] i = Plate -> "effect" [] i = Extender -> "extender"]

\* What follows a slot without its advance is not explored.
Whole == ~torn

NoDrops == {}
NoRewards == [i \in Item |-> None]

\* What is worn
Wardrobe == {[goods |-> <<G(Hat, 1, 0), G(Rifle, 1, 1)>>, price |-> 0, bonus |-> 0]}
Lent == {[goods |-> <<G(Hat, 1, 1)>>, price |-> 0, bonus |-> 0]}
WardrobeGift == [goods |-> <<G(Rifle, 1, 0), G(Rifle, 1, 1)>>, lots |-> {}, points |-> 0,
                 select |-> FALSE]
WardrobeChoice == [goods |-> <<G(Plate, 1, 1)>>, lots |-> {}, points |-> 0, select |-> TRUE]
WardrobeRewards == {WardrobeGift, WardrobeChoice}

\* Stock
Stock == {[goods |-> <<G(Ticket, 2, 0)>>, price |-> 1, bonus |-> 1],
          [goods |-> <<G(Box, 1, 0)>>, price |-> 0, bonus |-> 0],
          [goods |-> <<G(Extender, 1, 0)>>, price |-> 0, bonus |-> 0]}
StockDrops == {G(Rifle, 1, 1)}
StockGift == [goods |-> <<G(Ticket, 1, 0), G(Ticket, 1, 0)>>, lots |-> {G(Rifle, 1, 0)},
              points |-> 0, select |-> FALSE]
StockRewards == {StockGift}
StockRewardOf == [i \in Item |-> IF i = Ticket THEN StockGift ELSE None]
============================================================================
