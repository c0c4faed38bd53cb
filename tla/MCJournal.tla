------------------------------ MODULE MCJournal ------------------------------
(* Values for the constants of Journal, for TLC: a directory that holds the *)
(* log, and a file beside it whose path the directory's matches as a        *)
(* pattern, on a machine generated with all three.                          *)
EXTENDS Journal, TLC

CONSTANTS dir, log, other

MCAbove == [p \in Paths |-> IF p = log THEN {dir} ELSE {}]
MCLike == [p \in Paths |-> IF p = dir THEN Paths \ {dir} ELSE {}]
MCGenerated == [p \in Paths |-> IF p = dir THEN Folder ELSE File(<<>>)]

Symmetry == Permutations(Players) \cup Permutations(Workers)
=============================================================================
