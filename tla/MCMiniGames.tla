----------------------------- MODULE MCMiniGames -----------------------------
(* Instances of MiniGames for TLC. *)
EXTENDS MiniGames, TLC

CONSTANTS Rifle, Pistol, Powder, Solvent, Red, Sight, A

Column(c0, c1, c5, c6) == [i \in 0 .. 6 |-> CASE i = 0 -> c0 [] i = 1 -> c1 [] i = 5 -> c5
                                               [] i = 6 -> c6 [] OTHER -> 0]
CapOf == (Rifle :> Column(1, 0, 1, 2)) @@ (Pistol :> Column(0, 1, 0, 0))
TotalMaxOf == (Rifle :> 3) @@ (Pistol :> 1)
ExpMaxOf == [l \in 0 .. Finished - 1 |-> 2]
WorthOf == [i \in Item |-> IF i = Powder THEN 1 ELSE 0]
ClearsOf == Solvent :> 1
PaintsOf == [i \in Item |-> IF i = Rifle THEN {Red, Remover} ELSE {}]
Rows(t) == [s \in Slot |-> IF s \in DOMAIN t THEN t[s] ELSE FreeRow]
\* Two inventories for enhancing and cleaning, one for painting and fitting, one for games.
Stocks == {Rows(<<New(Rifle, 1), New(Powder, 3), New(Solvent, 1), New(ENH_ANIT1GRADE, 1)>>),
           Rows(<<New(Rifle, 1), New(Powder, 2), New(ENH_ANTI, 1)>>),
           Rows(<<New(Rifle, 1), New(Red, 1), New(Sight, 2)>>),
           Rows(<<>>)}
\* The games are played only with what they bring.
Apart == (\E s \in Owned : bag[s].id \notin {Pistol, Sight}) => kills = 0 /\ call.op # "slots"
Spelled == [w \in Word |-> <<A, A>>]
ItemOf == [w \in Word |-> Pistol]
=============================================================================
