------------------------------ MODULE MiniGames ------------------------------
(***************************************************************************)
(* The mini games of one user: the letters that kills bring and the words  *)
(* they are put into (weapon release), the counter of kills to the next    *)
(* gachapon item, and the bingo desk.  A word that is complete opens a     *)
(* weapon, which arrives in the inventory of Enhancement; the handlers of  *)
(* both exclude each other.                                                *)
(***************************************************************************)
EXTENDS Enhancement

CONSTANTS
  Char, Joker,     \* letters; Joker is '~'
  Word,            \* rows of the weapon release
  Letters,         \* Word -> its letters
  WordItem,        \* Word -> the weapon
  Gachapon,        \* the two items a kill may bring
  KillsPerItem,    \* 100
  DeskSize,        \* 25 numbers of a bingo desk
  PrizeCount,      \* 12 prizes
  PrizeItems       \* number of prizes configured

CONSTANTS MaxKills, MaxLost  \* bounds: kills; letters put past the end of a word

ASSUME LetterAssumption == \A w \in Word : Letters[w] \in Seq(Char) \ {<<>>}
ASSUME DeskAssumption == DeskSize \in Nat /\ PrizeCount \in Nat /\ PrizeItems \in Nat

VARIABLES
  count,    \* the letters the user has a row of -> count
  words,    \* Word -> its row: the positions filled, and whether it is opened
  toGacha,  \* killsToGetGachaponItem
  desk,     \* rows of the bingo tables
  kills,    \* history
  earned,   \* history: letters obtained
  won,      \* history: Word -> times its weapon was given
  lost      \* history: Word -> letters taken for a slot past its end

games == <<count, words, toGacha, desk, kills, earned, won, lost>>
vars == <<bag, call, faulty, games>>

Closed == [filled |-> {}, opened |-> FALSE]
Positions(w) == DOMAIN Letters[w]

-----------------------------------------------------------------------------
(* Weapon release *)

Held(c) == IF c \in DOMAIN count THEN count[c] ELSE 0

\* UPDATE ... SET count = count + 1, or else INSERT.
Added(c) == [d \in DOMAIN count \cup {c} |-> IF d = c THEN Held(c) + 1 ELSE count[d]]

\* One kill, its letter, if any, and the gachapon item at the end of the counter.
OnKillEvent ==
  /\ call = Idle /\ kills < MaxKills
  /\ kills' = kills + 1
  /\ \/ UNCHANGED <<count, earned>>
     \/ \E c \in Char : count' = Added(c) /\ earned' = earned + 1
  /\ IF toGacha - 1 <= 0
       THEN /\ toGacha' = KillsPerItem
            /\ \E id \in Gachapon : AddItem(id)
       ELSE toGacha' = toGacha - 1 /\ UNCHANGED <<bag, faulty>>
  /\ UNCHANGED <<call, words, desk, won, lost>>

\* The letter that is taken for c: c or the joker, when the user has a row of it.  A row
\* is enough, also with a count of 0.
Taken(c) == IF c \in DOMAIN count THEN c ELSE Joker

\* The client sends the slot, and nothing compares it with the length of the word: 0 stands
\* for all slots past the end.  Their shift is by a negative number: in C++ that is whatever
\* bit the build makes of it (0: none of the word); in SQL it is 0, no bit.
Bits(w, k) == IF k \in Positions(w) THEN {k} ELSE Positions(w) \cup {0}

Complete(w, filled) == \A k \in Positions(w) : k \in filled

\* Mutant: a position that is filled takes another letter.
MayPlaceM(w, k, c) ==
  /\ ~words[w].opened /\ Taken(c) \in DOMAIN count
  /\ \E n \in Positions(w) : Letters[w][n] = c

\* The letter must be one of the word, not the one of its position.
MayPlace(w, k, c) ==
  /\ ~words[w].opened /\ Taken(c) \in DOMAIN count
  /\ k \notin words[w].filled
  /\ \E n \in Positions(w) : Letters[w][n] = c

\* One transaction fills the position, if the word has it, and takes the letter; the weapon
\* follows when the bits in memory are complete.
SetCharacter(w, k, c) ==
  /\ call = Idle /\ (k \in Positions(w) \/ lost[w] < MaxLost)
  /\ \E bit \in Bits(w, k) :
       LET done == Complete(w, words[w].filled \cup {bit}) IN
       /\ MayPlace(w, bit, c)
       /\ words' = [words EXCEPT ![w] = [filled |-> @.filled \cup ({k} \cap Positions(w)),
                                        opened |-> done]]
       /\ call' = IF done THEN [op |-> "weapon", word |-> w] ELSE Idle
  /\ count' = [count EXCEPT ![Taken(c)] = @ - 1]
  /\ lost' = IF k \in Positions(w) THEN lost ELSE [lost EXCEPT ![w] = @ + 1]
  /\ UNCHANGED <<bag, faulty, toGacha, desk, kills, earned, won>>

\* The result of AddItem is ignored.
GiveWeapon ==
  /\ call.op = "weapon"
  /\ AddItem(WordItem[call.word])
  /\ won' = [won EXCEPT ![call.word] = @ + 1]
  /\ call' = Idle
  /\ UNCHANGED <<count, words, toGacha, desk, kills, earned, lost>>

-----------------------------------------------------------------------------
(* Bingo: only a new desk is laid out; what would open its numbers is commented out *)

\* Mutant: the status is set before the rows are written.
OnBingoUpdateM ==
  /\ call = Idle /\ ~desk.started
  /\ desk' = [desk EXCEPT !.slots = 0, !.started = TRUE]
  /\ call' = [op |-> "slots", todo |-> DeskSize]
  /\ UNCHANGED <<bag, faulty, count, words, toGacha, kills, earned, won,
               lost>>

\* The rows of the desk are replaced one statement at a time, the status is set last.
OnBingoUpdate ==
  /\ call = Idle /\ ~desk.started
  /\ \/ /\ desk' = [desk EXCEPT !.slots = 0]
        /\ call' = [op |-> "slots", todo |-> DeskSize]
        /\ UNCHANGED faulty
     \/ /\ DbErrors /\ ~faulty /\ faulty' = TRUE
        /\ call' = [op |-> "slots", todo |-> 0]
        /\ UNCHANGED desk
  /\ UNCHANGED <<bag, count, words, toGacha, kills, earned, won,
               lost>>

\* A failing statement ends the list it belongs to, and the handler goes on.
InsertSlot ==
  /\ call.op = "slots" /\ call.todo > 0
  /\ \/ /\ desk' = [desk EXCEPT !.slots = @ + 1]
        /\ call' = [call EXCEPT !.todo = @ - 1]
        /\ UNCHANGED faulty
     \/ /\ DbErrors /\ ~faulty /\ faulty' = TRUE
        /\ call' = [call EXCEPT !.todo = 0]
        /\ UNCHANGED desk
  /\ UNCHANGED <<bag, count, words, toGacha, kills, earned, won,
               lost>>

\* Without prizes enough the handler ends here, with the numbers stored.
ClearPrizes ==
  /\ call.op = "slots" /\ call.todo = 0
  /\ IF PrizeItems < PrizeCount
       THEN call' = Idle /\ UNCHANGED <<desk, faulty>>
       ELSE \/ /\ desk' = [desk EXCEPT !.prizes = 0]
               /\ call' = [op |-> "prizes", todo |-> PrizeCount]
               /\ UNCHANGED faulty
            \/ /\ DbErrors /\ ~faulty /\ faulty' = TRUE
               /\ call' = [op |-> "prizes", todo |-> 0]
               /\ UNCHANGED desk
  /\ UNCHANGED <<bag, count, words, toGacha, kills, earned, won,
               lost>>

InsertPrize ==
  /\ call.op = "prizes" /\ call.todo > 0
  /\ \/ /\ desk' = [desk EXCEPT !.prizes = @ + 1]
        /\ call' = [call EXCEPT !.todo = @ - 1]
        /\ UNCHANGED faulty
     \/ /\ DbErrors /\ ~faulty /\ faulty' = TRUE
        /\ call' = [call EXCEPT !.todo = 0]
        /\ UNCHANGED desk
  /\ UNCHANGED <<bag, count, words, toGacha, kills, earned, won,
               lost>>

StartBingo ==
  /\ call.op = "prizes" /\ call.todo = 0
  /\ desk' = [desk EXCEPT !.started = TRUE]
  /\ call' = Idle
  /\ UNCHANGED <<bag, faulty, count, words, toGacha, kills, earned, won,
               lost>>

-----------------------------------------------------------------------------
\* The process ends within a handler: what its statements wrote stays.
Crash ==
  /\ call # Idle
  /\ call' = Idle
  /\ UNCHANGED <<bag, faulty, games>>

GamesInit ==
  /\ Init
  /\ count = [c \in {} |-> 0]
  /\ words = [w \in Word |-> Closed]
  /\ toGacha \in 1 .. KillsPerItem
  /\ desk = [slots |-> 0, prizes |-> 0, started |-> FALSE]
  /\ kills = 0 /\ earned = 0 /\ won = [w \in Word |-> 0] /\ lost = [w \in Word |-> 0]

GamesNext ==
  \/ OnKillEvent
  \/ \E w \in Word : \E k \in Positions(w) \cup {0} : \E c \in Char : SetCharacter(w, k, c)
  \/ GiveWeapon
  \/ OnBingoUpdate \/ InsertSlot \/ ClearPrizes \/ InsertPrize \/ StartBingo

Next == \/ Request /\ UNCHANGED games
        \/ Step /\ UNCHANGED games
        \/ GamesNext
        \/ Crash

Spec == GamesInit /\ [][Next]_vars

-----------------------------------------------------------------------------
(* Properties *)

\* Letters one by one: those in hand, those owed for positions, those in positions, and those
\* taken for none.
InHand == Pairs([c \in DOMAIN count |-> 1 .. count[c]])
Owed == Pairs([c \in DOMAIN count |-> 1 .. -count[c]])
Placed == Pairs([w \in Word |-> words[w].filled])
Lost == Pairs([w \in Word |-> 1 .. lost[w]])

\* Every letter obtained is still there, in exactly one position of one word, or gone for a
\* slot past the end of a word, whatever jokers stand for, transactions that are rolled back,
\* and crashes.  A full word is opened, a word that is opened has taken as many letters as it
\* is long, and its weapon is given at most once.
LettersSpent ==
  /\ Cardinality(InHand) + Cardinality(Placed) + Cardinality(Lost) = earned + Cardinality(Owed)
  /\ \A w \in Word : /\ words[w].filled = Positions(w) => words[w].opened
                     /\ words[w].opened =>
                          Cardinality(words[w].filled) + lost[w] >= Len(Letters[w])
                     /\ won[w] <= 1 /\ (won[w] = 1 => words[w].opened)

\* A desk that is in play has all its numbers and prizes, however often laying it out was
\* interrupted.
DeskComplete ==
  (desk.started /\ ~faulty) => desk.slots = DeskSize /\ desk.prizes = PrizeCount

Worn(id) == Cardinality({s \in Slot : id \in bag[s].paints})
            + Cardinality({e \in Slot \X {1, 2} : bag[e[1]].part[e[2]] = id})
InBag(id) == Cardinality(Pairs([s \in {t \in Slot : bag[t].id = id} |-> 1 .. bag[s].count]))
Due(id) == IF call.op = "applied" THEN IF call.use.row.id = id THEN 1 ELSE 0 ELSE 0

\* Applying, replacing and taking off never multiplies a paint or a part, as long as no
\* statement fails and the process does not end in between: the weapon is written before
\* the item applied is taken.
AppliedOnce ==
  [][\A id \in Parts \cup UNION {Paints[i] : i \in Item} :
       (~faulty' /\ ~Crash /\ UNCHANGED games)
         => (InBag(id) + Worn(id) - Due(id))' <= InBag(id) + Worn(id) - Due(id)]_vars

\* "try to use joker char" (minigamemanager.cpp:412): a letter the user has none of is not
\* taken.
NoLetterOwed == Owed = {}

\* A word is opened by its last letter ("lastChar", minigamemanager.cpp:446): all its
\* positions are filled.
OpenedFull == \A w \in Word : words[w].opened => words[w].filled = Positions(w)

\* A word that was opened has brought its weapon when the handler is through.
WeaponGiven == call = Idle => \A w \in Word : words[w].opened => won[w] = 1

=============================================================================
