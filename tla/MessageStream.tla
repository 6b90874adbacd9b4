--------------------------- MODULE MessageStream ---------------------------
(***************************************************************************)
(* What a connection promises to the two programs that it joins: every        *)
(* message arrives whole, once and in the order in which it was sent, as long  *)
(* as neither end gives up, and the server is handed nothing by a client that  *)
(* did not pass the handshake.                                               *)
(*                                                                          *)
(* A message is its number: the n-th that its end sends.  Connection, with its *)
(* queues, its two writes per message and its handshake, implements this.     *)
(***************************************************************************)
EXTENDS Naturals, Sequences

VARIABLES
    sent,       \* how many messages each end has sent
    got,        \* the messages that each end was handed
    alive,      \* the ends that have not given up
    admitted    \* the client has passed the handshake

vars == <<sent, got, alive, admitted>>

End == {"server", "client"}
Peer(e) == IF e = "server" THEN "client" ELSE "server"

Init ==
    /\ sent = [e \in End |-> 0]
    /\ got = [e \in End |-> <<>>]
    /\ alive = End
    /\ admitted = FALSE

Send(e) ==
    /\ e \in alive
    /\ sent' = [sent EXCEPT ![e] = @ + 1]
    /\ UNCHANGED <<got, alive, admitted>>

(* Even of a connection that the server has given up.                         *)
Admit ==
    /\ ~admitted
    /\ admitted' = TRUE
    /\ UNCHANGED <<sent, got, alive>>

Deliver(e) ==
    /\ e \in alive
    /\ e = "server" => admitted
    /\ Len(got[e]) < sent[Peer(e)]
    /\ got' = [got EXCEPT ![e] = Append(@, Len(@) + 1)]
    /\ UNCHANGED <<sent, alive, admitted>>

Fail(e) ==
    /\ e \in alive
    /\ alive' = alive \ {e}
    /\ UNCHANGED <<sent, got, admitted>>

Next == Admit \/ \E e \in End : Send(e) \/ Deliver(e) \/ Fail(e)

Spec == Init /\ [][Next]_vars
=============================================================================
