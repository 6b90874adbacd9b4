---------------------------- MODULE MCSinglePlay ----------------------------
(* A small field for TLC.                                                    *)
EXTENDS SinglePlay
=============================================================================
