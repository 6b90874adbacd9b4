----------------------------- MODULE Connection -----------------------------
(***************************************************************************)
(* One connection of NetCommon between the server and a client, from the       *)
(* moment at which the server has accepted it: the handshake, the queue of      *)
(* messages to write, the two writes and two reads of a message, and the end.  *)
(*                                                                          *)
(* Each end has an application thread, which posts messages, and an ASIO thread *)
(* that runs everything else, one handler a step.  A write is on the wire when  *)
(* it starts and its handler runs later.  What has 8 bytes can be taken for     *)
(* each other: a header, and the two numbers of the handshake.                *)
(***************************************************************************)
EXTENDS Naturals, Sequences

CONSTANT MaxSends   \* bound: how many messages an end sends

ASSUME MaxSendsAssumption == MaxSends \in Nat

VARIABLES
    sent,       \* whether the n-th message of an end has a body
    posted,     \* messages in lambdas that asio::post has queued
    out,        \* m_qMessagesOut
    writing,    \* the write whose handler is awaited: header, body or none
    wire,       \* what an end has written and the other has not read
    reading,    \* the operation whose handler reads next
    tmp,        \* m_msgTemporaryIn: the messages its header and body are of
    in,         \* what was pushed on m_qMessagesIn
    alive       \* the ends with m_bAlive

writeVars == <<posted, out, writing>>
readVars  == <<tmp, in>>
vars == <<sent, writeVars, wire, reading, readVars, alive>>

End == {"server", "client"}
Peer(e) == IF e = "server" THEN "client" ELSE "server"

Hello     == [kind |-> "hello", msg |-> 0]
Answer    == [kind |-> "answer", msg |-> 0]
Header(n) == [kind |-> "header", msg |-> n]
Body(n)   == [kind |-> "body", msg |-> n]

Chunk   == [kind : {"hello", "answer", "header", "body"}, msg : Nat]
Message == [header : Nat \ {0}, body : Nat]

TypeOK ==
    /\ sent \in [End -> Seq(BOOLEAN)]
    /\ posted \in [End -> Seq(Nat)] /\ out \in [End -> Seq(Nat)]
    /\ writing \in [End -> {"none", "header", "body"}]
    /\ wire \in [End -> Seq(Chunk)]
    /\ reading \in [End -> {"connecting", "validation", "answering", "header", "body", "none"}]
    /\ tmp \in [End -> [header : Nat, body : Nat]] /\ in \in [End -> Seq(Message)]
    /\ alive \subseteq End

(* WaitForClientConnection has run ConnectToClient: WriteValidation and          *)
(* ReadValidation have started.                                              *)
Init ==
    /\ sent = [e \in End |-> <<>>]
    /\ posted = [e \in End |-> <<>>] /\ out = [e \in End |-> <<>>]
    /\ writing = [e \in End |-> "none"]
    /\ wire = [e \in End |-> IF e = "server" THEN <<Hello>> ELSE <<>>]
    /\ reading = [e \in End |-> IF e = "server" THEN "validation" ELSE "connecting"]
    /\ tmp = [e \in End |-> [header |-> 0, body |-> 0]]
    /\ in = [e \in End |-> <<>>]
    /\ alive = End

HasBody(e, n) == n \in DOMAIN sent[e] /\ sent[e][n]

-----------------------------------------------------------------------------
(* The application's thread.                                                 *)

(* Send, of a message made with or without a body or of a received one that has *)
(* its body: header.size is the size of the body in each (Whole).             *)
Send(e, body) ==
    /\ e \in alive
    /\ Len(sent[e]) < MaxSends
    /\ sent' = [sent EXCEPT ![e] = Append(@, body)]
    /\ posted' = [posted EXCEPT ![e] = Append(@, Len(sent[e]) + 1)]
    /\ UNCHANGED <<out, writing, wire, reading, readVars, alive>>

(* Disconnect, by the application or by the handler of a failed operation. It    *)
(* never closes the socket, as IsConnected is false from its first line on.   *)
Disconnect(e) ==
    /\ e \in alive
    /\ alive' = alive \ {e}
    /\ UNCHANGED <<sent, writeVars, wire, reading, readVars>>

-----------------------------------------------------------------------------
(* Writing.                                                                  *)

Write(e, chunk) == wire' = [wire EXCEPT ![e] = Append(@, chunk)]

WriteHeader(e, n) ==
    /\ Write(e, Header(n))
    /\ writing' = [writing EXCEPT ![e] = "header"]

(* Mutant: the message is queued and nobody is told.                           *)
EnqueueOnly(e, n) ==
    /\ out' = [out EXCEPT ![e] = Append(@, n)]
    /\ UNCHANGED <<writing, wire>>

(* The lambda of Send: it starts to write if nothing is being written.          *)
Enqueue(e, n) ==
    /\ out' = [out EXCEPT ![e] = Append(@, n)]
    /\ IF out[e] = <<>> THEN WriteHeader(e, n) ELSE UNCHANGED <<writing, wire>>

RunPosted(e) ==
    /\ posted[e] # <<>>
    /\ posted' = [posted EXCEPT ![e] = Tail(@)]
    /\ \/ /\ e \in alive
          /\ reading[e] # "connecting"
          /\ Enqueue(e, Head(posted[e]))
          /\ UNCHANGED alive
       \* the write fails on a socket that is not connected yet
       \/ /\ e \in alive
          /\ reading[e] = "connecting"
          /\ out' = [out EXCEPT ![e] = Append(@, Head(posted[e]))]
          /\ alive' = alive \ {e}
          /\ UNCHANGED <<writing, wire>>
       \/ /\ e \notin alive
          /\ UNCHANGED <<out, writing, wire, alive>>
    /\ UNCHANGED <<sent, reading, readVars>>

(* The front is popped; the next header is written, if there is one.            *)
MessageWritten(e) ==
    /\ out' = [out EXCEPT ![e] = Tail(@)]
    /\ IF Tail(out[e]) # <<>>
       THEN WriteHeader(e, Head(Tail(out[e])))
       ELSE /\ writing' = [writing EXCEPT ![e] = "none"]
            /\ UNCHANGED wire

HeaderWritten(e) ==
    /\ writing[e] = "header"
    /\ e \in alive
    /\ IF HasBody(e, Head(out[e]))
       THEN /\ Write(e, Body(Head(out[e])))
            /\ writing' = [writing EXCEPT ![e] = "body"]
            /\ UNCHANGED out
       ELSE MessageWritten(e)
    /\ UNCHANGED <<sent, posted, reading, readVars, alive>>

BodyWritten(e) ==
    /\ writing[e] = "body"
    /\ e \in alive
    /\ MessageWritten(e)
    /\ UNCHANGED <<sent, posted, reading, readVars, alive>>

-----------------------------------------------------------------------------
(* The handshake.  Its handlers do not ask for m_bAlive before they go on.      *)

Incoming(e) == wire[Peer(e)]
Consumed(e) == [wire EXCEPT ![Peer(e)] = Tail(@)]

Goes(e, next) == reading' = [reading EXCEPT ![e] = next]

(* async_connect has succeeded.                                              *)
Connected ==
    /\ reading["client"] = "connecting"
    /\ Goes("client", "validation")
    /\ UNCHANGED <<sent, writeVars, wire, readVars, alive>>

HelloRead ==
    /\ reading["client"] = "validation"
    /\ Incoming("client") # <<>>
    /\ wire' = [Consumed("client") EXCEPT !["client"] = Append(@, Answer)]
    /\ Goes("client", "answering")
    /\ UNCHANGED <<sent, writeVars, readVars, alive>>

AnswerWritten ==
    /\ reading["client"] = "answering"
    /\ "client" \in alive
    /\ Goes("client", "header")
    /\ UNCHANGED <<sent, writeVars, wire, readVars, alive>>

(* Mutant: whatever arrives is taken for the answer.                           *)
AnswerReadUnchecked ==
    /\ reading["server"] = "validation"
    /\ Incoming("server") # <<>>
    /\ wire' = Consumed("server")
    /\ Goes("server", "header")
    /\ UNCHANGED <<sent, writeVars, readVars, alive>>

(* The server validates the client, or finds a header in the place of the answer. *)
AnswerRead ==
    /\ reading["server"] = "validation"
    /\ Incoming("server") # <<>>
    /\ wire' = Consumed("server")
    /\ IF Head(Incoming("server")) = Answer
       THEN Goes("server", "header") /\ UNCHANGED alive
       ELSE Goes("server", "none") /\ alive' = alive \ {"server"}
    /\ UNCHANGED <<sent, writeVars, readVars>>

-----------------------------------------------------------------------------
(* Reading.                                                                  *)

(* Mutant: every message is handed up after its header.                        *)
HeaderReadOnly(e) ==
    /\ reading[e] = "header"
    /\ e \in alive
    /\ Incoming(e) # <<>>
    /\ wire' = Consumed(e)
    /\ tmp' = [tmp EXCEPT ![e].header = Head(Incoming(e)).msg]
    /\ in' = [in EXCEPT ![e] = Append(@, tmp'[e])]
    /\ UNCHANGED <<sent, writeVars, reading, alive>>

(* Of a message without a body m_msgTemporaryIn keeps the body of before, which   *)
(* is handed up with it.                                                     *)
HeaderRead(e) ==
    /\ reading[e] = "header"
    /\ e \in alive
    /\ Incoming(e) # <<>>
    /\ wire' = Consumed(e)
    /\ tmp' = [tmp EXCEPT ![e].header = Head(Incoming(e)).msg]
    /\ IF HasBody(Peer(e), Head(Incoming(e)).msg)
       THEN Goes(e, "body") /\ UNCHANGED in
       ELSE in' = [in EXCEPT ![e] = Append(@, tmp'[e])] /\ UNCHANGED reading
    /\ UNCHANGED <<sent, writeVars, alive>>

BodyRead(e) ==
    /\ reading[e] = "body"
    /\ e \in alive
    /\ Incoming(e) # <<>>
    /\ wire' = Consumed(e)
    /\ tmp' = [tmp EXCEPT ![e].body = Head(Incoming(e)).msg]
    /\ in' = [in EXCEPT ![e] = Append(@, tmp'[e])]
    /\ Goes(e, "header")
    /\ UNCHANGED <<sent, writeVars, alive>>

Asio(e) ==
    \/ RunPosted(e)
    \/ HeaderWritten(e)
    \/ BodyWritten(e)
    \/ HeaderRead(e)
    \/ BodyRead(e)

Handshake == Connected \/ HelloRead \/ AnswerWritten \/ AnswerRead

Next ==
    \/ Handshake
    \/ \E e \in End :
           \/ Asio(e)
           \/ Disconnect(e)
           \/ \E body \in BOOLEAN : Send(e, body)

Spec == Init /\ [][Next]_vars

(* Operations complete, and the ASIO threads run their handlers: asio's queue is  *)
(* served in order, so none of the five waits for ever.                       *)
LiveSpec ==
    /\ Spec
    /\ WF_vars(Handshake)
    /\ \A e \in End :
           /\ WF_vars(RunPosted(e))
           /\ WF_vars(HeaderWritten(e) \/ BodyWritten(e))
           /\ WF_vars(HeaderRead(e) \/ BodyRead(e))

-----------------------------------------------------------------------------
(* A message that was handed up with the header and, if it has one, the body of   *)
(* the same message; 0 is none.                                              *)
Whole(e, m) ==
    IF HasBody(Peer(e), m.header) => m.body = m.header THEN m.header ELSE 0

(* net_connection.h:117-268 implements MessageStream: whatever is sent while      *)
(* something else is written, before or after the handshake, arrives whole, once *)
(* and in order, until an end gives up.                                      *)
Stream == INSTANCE MessageStream WITH
    sent <- [e \in End |-> Len(sent[e])],
    got <- [e \in End |-> [i \in 1 .. Len(in[e]) |-> Whole(e, in[e][i])]],
    admitted <- reading["server"] \in {"header", "body"}

ImplementsStream == Stream!Spec

(* net_connection.h:124, 152: the queue never sits there with nobody to write it, *)
(* so what is sent arrives, unless an end gives up.                          *)
EverythingArrives ==
    \A e \in End : \A n \in 1 .. MaxSends :
        (Len(sent[e]) >= n) ~> (Len(in[Peer(e)]) >= n \/ alive # End)
=============================================================================
