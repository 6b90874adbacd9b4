---------------------------- MODULE MCRoomMatch ----------------------------
(* RoomMatch for TLC: sessions and seeds are model values.                   *)
EXTENDS RoomMatch, TLC

(* The violation runs state nothing about liveness: their sessions are symmetric. *)
Sessions == Permutations(Client)
=============================================================================
