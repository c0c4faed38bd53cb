----------------------------- MODULE MCTerminal -----------------------------
(* Two sessions, each on the player's box, which has rebooted once before,  *)
(* or on another.                                                           *)
EXTENDS Terminal
=============================================================================
