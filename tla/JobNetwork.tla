----------------------------- MODULE JobNetwork -----------------------------
(***************************************************************************)
(* What a contract number promises the rest of the world: the network at   *)
(* its address, once it stands, stands for good, and an offer that was     *)
(* burned never gets one (hireme_missions.sql:20-35).                      *)
(***************************************************************************)
CONSTANT Numbers

VARIABLES
  standing, \* the numbers whose network answers at its address
  dead      \* the numbers whose offer was burned

netVars == <<standing, dead>>

Init == standing \subseteq Numbers /\ dead \subseteq Numbers /\ standing \cap dead = {}

\* A contractor is hired: an address that was empty answers.
Stand ==
  /\ \E n \in Numbers \ dead : standing' = standing \cup {n}
  /\ UNCHANGED dead

\* Offers turn over: their numbers are never drawn again.
Burn ==
  /\ \E ns \in SUBSET (Numbers \ standing) : dead' = dead \cup ns
  /\ UNCHANGED standing

Next == Stand \/ Burn

Spec == Init /\ [][Next]_netVars
=============================================================================
