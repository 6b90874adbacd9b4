----------------------------- MODULE MCGameLoop -----------------------------
(* Escape, the key that moves down in a menu and the one that selects, drops and *)
(* ends games: one finger, two pending events and a buffer for one of them.  *)
EXTENDS GameLoop
=============================================================================
