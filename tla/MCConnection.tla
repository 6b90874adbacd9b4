---------------------------- MODULE MCConnection ----------------------------
(* Two messages from each end, with and without bodies.                        *)
EXTENDS Connection
=============================================================================
