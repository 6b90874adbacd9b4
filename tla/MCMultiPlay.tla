---------------------------- MODULE MCMultiPlay ----------------------------
(* A small field and few packets for TLC.                                    *)
EXTENDS MultiPlay
=============================================================================
