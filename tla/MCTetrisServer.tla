--------------------------- MODULE MCTetrisServer ---------------------------
(* TetrisServer on a small instance: every step of the two threads, with     *)
(* enough connections for a match.                                           *)
EXTENDS TetrisServer
=============================================================================
