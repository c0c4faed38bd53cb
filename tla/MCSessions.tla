----------------------------- MODULE MCSessions -----------------------------
(* Values for the constants of Sessions, for TLC.                          *)
EXTENDS Sessions, TLC

\* Every host stands on one network.
MCHostNet == [h \in Hosts |-> CHOOSE e \in Essids : TRUE]

\* Players, session ids and request slots are interchangeable (not under the
\* temporal property of FairSpec, whose run names no symmetry).
Symmetry == Permutations(Ids) \cup Permutations(Workers) \cup Permutations(Players)
=============================================================================
