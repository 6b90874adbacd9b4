------------------------------ MODULE MCScore ------------------------------
(* A short game for TLC.                                                     *)
EXTENDS Score
=============================================================================
