------------------------------ MODULE MCTravel ------------------------------
(* Values for the constants of Travel, for TLC: two towns with a network   *)
(* each, and two players whose derived addresses collide.                  *)
EXTENDS Travel, TLC

CONSTANTS home, away, wifi, cafe

MCTownOf == [e \in Essids |-> IF e = wifi THEN home ELSE away]
MCStartingTown == [p \in Players |-> home]
\* A generated host stands on octet 3 of wifi, and on the octet everybody is
\* given first of cafe.
MCNpc == [e \in Essids |-> IF e = wifi THEN {3} ELSE {2}]
MCPreferred == [o \in Essids \X Players |-> 2]

Symmetry == Permutations(Players) \cup Permutations(Workers)
=============================================================================
