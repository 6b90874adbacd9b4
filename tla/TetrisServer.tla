---------------------------- MODULE TetrisServer ----------------------------
(***************************************************************************)
(* The server: the ASIO thread, which accepts connections, completes their  *)
(* handshakes and reads their messages, and the main thread, which calls    *)
(* server_interface::Update forever.                                        *)
(*                                                                          *)
(* The main thread is a loop over the phases of Update:                     *)
(*   "drain"    m_qMessagesIn -> MessageReceived events                     *)
(*   "sweep"    dead connections -> ClientDisconnected events               *)
(*   "erase"    the slots of the swept connections leave m_deqConnections   *)
(*   "swap"     ProcessEvents takes the events queued so far                *)
(*   "events"   and handles them one by one; "starting" while it is between  *)
(*              the two broadcasts of Client_RequestRoomJoin                *)
(*   "ping"     ProcessPingPong: PingAllClients when it is due              *)
(*   "timeouts" CheckTimeouts                                               *)
(*                                                                          *)
(* The clients are the environment: after its handshake a connection may    *)
(* send any message the server has a case for, at any time, and may break.  *)
(***************************************************************************)
EXTENDS Integers, FiniteSets, Sequences

CONSTANTS
    MaxConns,   \* bound: how many connections are ever accepted
    MaxQueue,   \* bound: messages and events under way before a read waits
    Seed        \* the values GenerateSeed may return

ASSUME MaxConnsAssumption == MaxConns \in Nat
ASSUME MaxQueueAssumption == MaxQueue \in Nat

Client == 1 .. MaxConns     \* nIDCounter counts from 10000; here from 1

ClientMsg == {"Client_RegisterWithServer", "Client_UnregisterWithServer",
              "Client_Pong", "Client_RequestRoomJoin", "Game_PlayerDead",
              "Relay"}      \* Relay: the five Game_* states passed on as they are

Incoming == [from : Client, msg : ClientMsg]
Idle     == [from |-> 0, msg |-> "none"]

Validated(c)    == [type |-> "ClientValidated", id |-> c]
Disconnected(c) == [type |-> "ClientDisconnected", id |-> c]
Received(in)    == [type |-> "MessageReceived", id |-> in.from, msg |-> in.msg]

ServerEvent == {Validated(c) : c \in Client}
                   \cup {Disconnected(c) : c \in Client}
                   \cup {Received(in) : in \in Incoming}

Phases == {"drain", "sweep", "erase", "swap", "events", "ping", "timeouts"}

VARIABLES
    \* shared by the two threads
    nextId,     \* nIDCounter
    deq,        \* the ids of the connections in m_deqConnections
    alive,      \* the ids whose connection::m_bAlive is true
    inQ,        \* m_qMessagesIn
    eventQ,     \* the local "events" of ProcessEvents, then m_EventQueue
    \* the ASIO thread
    reading,    \* the ids whose handshake is done: ReadHeader is pending
    arriving,   \* the message AddToInCommingMessageQueue is about to push
    \* the main thread
    phase,
    unswept,    \* the connections the sweep's loop has still to visit
    todo,       \* how many events at the head of eventQ are the local batch
    validated,  \* m_ValidatedClients
    players,    \* the keys of m_mapConnectedPlayers
    garbage,    \* m_vGarbageIDs
    starting,   \* the seed is broadcast, Server_AllPlayersReady is next
    pongs,      \* the keys of m_LastPongTime
    overdue,    \* those whose time is more than PONG_TIMEOUT_MS ago
    posts       \* what the last step handed to connection::Send

netVars  == <<nextId, deq, alive, reading>>
mainVars == <<phase, unswept, todo>>
roomVars == <<validated, players, garbage, starting>>
pongVars == <<pongs, overdue>>
vars == <<netVars, inQ, eventQ, arriving, mainVars, roomVars, pongVars, posts>>

Departed == {garbage[i] : i \in 1 .. Len(garbage)}

Room == INSTANCE GameRoom WITH members <- validated, room <- players,
                               departed <- Departed

TypeOK ==
    /\ nextId \in 1 .. MaxConns + 1
    /\ deq \subseteq Client
    /\ alive \subseteq Client
    /\ inQ \in Seq(Incoming)
    /\ eventQ \in Seq(ServerEvent)
    /\ reading \subseteq Client
    /\ arriving \in Incoming \cup {Idle}
    /\ phase \in Phases
    /\ unswept \subseteq Client
    /\ todo \in 0 .. Len(eventQ)
    /\ validated \subseteq Client
    /\ players \subseteq Client
    /\ garbage \in Seq(Client)
    /\ starting \in BOOLEAN
    /\ pongs \subseteq Client
    /\ overdue \subseteq pongs
    /\ posts \in Seq(Room!Posts)

Init ==
    /\ nextId = 1
    /\ deq = {} /\ alive = {} /\ reading = {}
    /\ inQ = <<>> /\ eventQ = <<>>
    /\ arriving = Idle
    /\ phase = "drain" /\ unswept = {} /\ todo = 0
    /\ validated = {} /\ players = {} /\ garbage = <<>>
    /\ starting = FALSE
    /\ pongs = {} /\ overdue = {}
    /\ posts = <<>>

-----------------------------------------------------------------------------
(* The ASIO thread: one callback at a time.                                  *)

(* WaitForClientConnection: push_back, then ConnectToClient.  m_deqConnections *)
(* is not locked: while the main thread erases the swept slots, the element   *)
(* pushed at the same moment may be the one that is lost.                    *)
Accept ==
    /\ arriving = Idle
    /\ nextId <= MaxConns
    /\ nextId' = nextId + 1
    /\ \/ deq' = deq \cup {nextId} /\ alive' = alive \cup {nextId}
       \/ phase = "erase" /\ UNCHANGED <<deq, alive>>
    /\ posts' = <<>>
    /\ UNCHANGED <<reading, inQ, eventQ, arriving, mainVars, roomVars, pongVars>>

(* ReadValidation succeeds: OnClientValidated queues its event and answers    *)
(* Client_Accepted, and the connection starts to read.  The handler does not ask *)
(* for m_bAlive; before it only a failure of the handshake clears it, after which *)
(* no answer comes and the handler does not succeed.                         *)
ClientIsValidated(c) ==
    /\ arriving = Idle
    /\ c \in (deq \cap alive) \ reading
    /\ eventQ' = Append(eventQ, Validated(c))
    /\ reading' = reading \cup {c}
    /\ posts' = <<Room!Post({c}, Room!Signal("Client_Accepted"))>>
    /\ UNCHANGED <<nextId, deq, alive, inQ, arriving, mainVars, roomVars, pongVars>>

(* The callback of ReadHeader or ReadBody has a whole message and has found   *)
(* m_bAlive true; it has not pushed the message yet.                         *)
ReadMessage(c, m) ==
    /\ arriving = Idle
    /\ c \in deq \cap alive \cap reading
    /\ Len(inQ) + Len(eventQ) < MaxQueue
    /\ arriving' = [from |-> c, msg |-> m]
    /\ posts' = <<>>
    /\ UNCHANGED <<netVars, inQ, eventQ, mainVars, roomVars, pongVars>>

(* The push itself.  If the main thread has meanwhile disconnected and swept  *)
(* the connection, shared_from_this runs on a destroyed object: the message  *)
(* may be queued or not.                                                     *)
PushMessage ==
    /\ arriving # Idle
    /\ \/ inQ' = Append(inQ, arriving)
       \/ arriving.from \notin deq /\ UNCHANGED inQ
    /\ arriving' = Idle
    /\ posts' = <<>>
    /\ UNCHANGED <<netVars, eventQ, mainVars, roomVars, pongVars>>

(* A failed handshake, read or write: the callback calls Disconnect, which     *)
(* clears m_bAlive and does no more.                                         *)
ConnectionFails(c) ==
    /\ arriving = Idle
    /\ c \in deq \cap alive
    /\ alive' = alive \ {c}
    /\ posts' = <<>>
    /\ UNCHANGED <<nextId, deq, reading, inQ, eventQ, arriving, mainVars, roomVars, pongVars>>

AsioThread ==
    \/ Accept
    \/ PushMessage
    \/ \E c \in Client :
           \/ ClientIsValidated(c)
           \/ ConnectionFails(c)
           \/ \E m \in ClientMsg : ReadMessage(c, m)

-----------------------------------------------------------------------------
(* Time: a client's last pong becomes more than PONG_TIMEOUT_MS old.          *)
PongAges(c) ==
    /\ c \in pongs \ overdue
    /\ overdue' = overdue \cup {c}
    /\ posts' = <<>>
    /\ UNCHANGED <<netVars, inQ, eventQ, arriving, mainVars, roomVars, pongs>>

-----------------------------------------------------------------------------
(* The main thread: Update.                                                  *)

DrainOne ==
    /\ phase = "drain"
    /\ inQ # <<>>
    /\ eventQ' = Append(eventQ, Received(Head(inQ)))
    /\ inQ' = Tail(inQ)
    /\ posts' = <<>>
    /\ UNCHANGED <<netVars, arriving, mainVars, roomVars, pongVars>>

DrainDone ==
    /\ phase = "drain"
    /\ inQ = <<>>
    /\ phase' = "sweep"
    /\ unswept' = deq
    /\ posts' = <<>>
    /\ UNCHANGED <<netVars, inQ, eventQ, arriving, todo, roomVars, pongVars>>

(* Mutant: the slot of the swept connection is not reset.                     *)
SweepOneKeepsSlot(c) ==
    /\ phase = "sweep"
    /\ c \in unswept
    /\ \A d \in unswept : c <= d
    /\ unswept' = unswept \ {c}
    /\ eventQ' = IF c \in alive THEN eventQ ELSE Append(eventQ, Disconnected(c))
    /\ posts' = <<>>
    /\ UNCHANGED <<netVars, inQ, arriving, phase, todo, roomVars, pongVars>>

(* Mutant: only connections that finished their handshake are reported.       *)
SweepOneOfReaders(c) ==
    /\ phase = "sweep"
    /\ c \in unswept
    /\ \A d \in unswept : c <= d
    /\ unswept' = unswept \ {c}
    /\ IF c \in alive \/ c \notin reading
       THEN UNCHANGED <<deq, reading, eventQ>>
       ELSE /\ eventQ' = Append(eventQ, Disconnected(c))
            /\ deq' = deq \ {c}
            /\ reading' = reading \ {c}
    /\ posts' = <<>>
    /\ UNCHANGED <<nextId, alive, inQ, arriving, phase, todo, roomVars, pongVars>>

(* One turn of the sweep's loop, in the order of the deque, which is the order *)
(* of the ids.  A dead connection is reported and its slot reset.            *)
SweepOne(c) ==
    /\ phase = "sweep"
    /\ c \in unswept
    /\ \A d \in unswept : c <= d
    /\ unswept' = unswept \ {c}
    /\ IF c \in alive
       THEN UNCHANGED <<deq, reading, eventQ>>
       ELSE /\ eventQ' = Append(eventQ, Disconnected(c))
            /\ deq' = deq \ {c}
            /\ reading' = reading \ {c}
    /\ posts' = <<>>
    /\ UNCHANGED <<nextId, alive, inQ, arriving, phase, todo, roomVars, pongVars>>

(* The loop is over.  "erase" comes only after a dead connection was found:    *)
(* its ClientDisconnected is then in the queue.                              *)
SweepDone ==
    /\ phase = "sweep"
    /\ unswept = {}
    /\ phase' = IF \E i \in 1 .. Len(eventQ) : eventQ[i].type = "ClientDisconnected"
                THEN "erase"
                ELSE "swap"
    /\ posts' = <<>>
    /\ UNCHANGED <<netVars, inQ, eventQ, arriving, unswept, todo, roomVars, pongVars>>

EraseSlots ==
    /\ phase = "erase"
    /\ phase' = "swap"
    /\ posts' = <<>>
    /\ UNCHANGED <<netVars, inQ, eventQ, arriving, unswept, todo, roomVars, pongVars>>

(* ProcessEvents: events.swap(m_EventQueue).                                 *)
SwapEvents ==
    /\ phase = "swap"
    /\ todo' = Len(eventQ)
    /\ phase' = "events"
    /\ posts' = <<>>
    /\ UNCHANGED <<netVars, inQ, eventQ, arriving, unswept, roomVars, pongVars>>

BatchDone ==
    /\ phase = "events"
    /\ ~starting
    /\ todo = 0
    /\ phase' = "ping"
    /\ posts' = <<>>
    /\ UNCHANGED <<netVars, inQ, eventQ, arriving, unswept, todo, roomVars, pongVars>>

-----------------------------------------------------------------------------
(* The handlers of ProcessEvents.                                            *)

Listeners == deq \cap alive

MessageClient(c, m)  == Room!Post({c} \cap Listeners, m)
MessageAllClients(m) == Room!Post(Listeners, m)

(* Mutant: the batch is not swapped out, it goes on while events are queued.  *)
TakeEventUnbounded ==
    /\ phase = "events"
    /\ ~starting
    /\ eventQ # <<>>
    /\ todo' = todo - 1
    /\ eventQ' = Tail(eventQ)
    /\ UNCHANGED <<nextId, deq, inQ, arriving, reading, phase, unswept>>

TakeEvent ==
    /\ phase = "events"
    /\ ~starting
    /\ todo > 0
    /\ todo' = todo - 1
    /\ eventQ' = Tail(eventQ)
    /\ UNCHANGED <<nextId, deq, inQ, arriving, reading, phase, unswept>>

HandleClientValidated(c) ==
    /\ TakeEvent
    /\ Head(eventQ) = Validated(c)
    /\ validated' = validated \cup {c}
    /\ pongs' = pongs \cup {c}
    /\ overdue' = overdue \ {c}
    /\ posts' = <<>>
    /\ UNCHANGED <<alive, players, garbage, starting>>

(* The verdict, here and in Game_PlayerDead: any other player the iteration   *)
(* of the unordered_map meets first.                                         *)
Verdict(loser) ==
    IF Cardinality(players) = 2
    THEN \E w \in players \ {loser} :
             posts' = <<MessageAllClients(Room!GameOver(w, loser))>>
    ELSE posts' = <<>>

(* Mutant: the player stays in m_mapConnectedPlayers.                         *)
HandleClientDisconnectedKeepsPlayer(c) ==
    /\ TakeEvent
    /\ Head(eventQ) = Disconnected(c)
    /\ pongs' = pongs \ {c}
    /\ overdue' = overdue \ {c}
    /\ Verdict(c)
    /\ validated' = validated \ {c}
    /\ garbage' = Append(garbage, c)
    /\ UNCHANGED <<alive, players, starting>>

HandleClientDisconnected(c) ==
    /\ TakeEvent
    /\ Head(eventQ) = Disconnected(c)
    /\ pongs' = pongs \ {c}
    /\ overdue' = overdue \ {c}
    /\ Verdict(c)
    /\ validated' = validated \ {c}
    /\ players' = players \ {c}
    /\ garbage' = Append(garbage, c)
    /\ UNCHANGED <<alive, starting>>

(* Mutant: nobody asks whether the connection is still there.                 *)
TakeMessageOfAnyone(c, m) ==
    /\ TakeEvent
    /\ Head(eventQ) = Received([from |-> c, msg |-> m])

(* HandleMessage of a message of c: GetConnectionByID finds its connection.   *)
TakeMessage(c, m) ==
    /\ TakeEvent
    /\ Head(eventQ) = Received([from |-> c, msg |-> m])
    /\ c \in deq

HandleInvalidClient ==
    /\ TakeEvent
    /\ Head(eventQ).type = "MessageReceived"
    /\ Head(eventQ).id \notin deq
    /\ posts' = <<>>
    /\ UNCHANGED <<alive, roomVars, pongVars>>

RegisterWithServer(c) ==
    /\ TakeMessage(c, "Client_RegisterWithServer")
    /\ players' = players \cup {c}
    /\ posts' = <<MessageClient(c, Room!Signal("Client_AssignID"))>>
    /\ UNCHANGED <<alive, validated, garbage, starting, pongVars>>

(* Mutant: the player leaves at once and leaves again with its connection.    *)
UnregisterWithServerAtOnce(c) ==
    /\ TakeMessage(c, "Client_UnregisterWithServer")
    /\ alive' = alive \ {c}
    /\ players' = players \ {c}
    /\ posts' = <<>>
    /\ UNCHANGED <<validated, garbage, starting, pongVars>>

UnregisterWithServer(c) ==
    /\ TakeMessage(c, "Client_UnregisterWithServer")
    /\ alive' = alive \ {c}
    /\ posts' = <<>>
    /\ UNCHANGED <<roomVars, pongVars>>

Pong(c) ==
    /\ TakeMessage(c, "Client_Pong")
    /\ pongs' = pongs \cup {c}
    /\ overdue' = overdue \ {c}
    /\ posts' = <<>>
    /\ UNCHANGED <<alive, roomVars>>

RequestRoomJoin(c) ==
    /\ TakeMessage(c, "Client_RequestRoomJoin")
    /\ LET accepted == MessageClient(c, Room!Signal("Server_RoomJoinAccepted"))
       IN  \E s \in Seed :
               posts' = IF Cardinality(players) = 2
                        THEN <<accepted, MessageAllClients(Room!BagSeed(s))>>
                        ELSE <<accepted>>
    /\ starting' = (Cardinality(players) = 2)
    /\ UNCHANGED <<alive, validated, players, garbage, pongVars>>

(* The second broadcast of that case: a connection accepted since the first    *)
(* gets the order to start without the seed.                                 *)
AllPlayersReady ==
    /\ phase = "events"
    /\ starting
    /\ starting' = FALSE
    /\ posts' = <<MessageAllClients(Room!Signal("Server_AllPlayersReady"))>>
    /\ UNCHANGED <<netVars, inQ, eventQ, arriving, mainVars, validated, players, garbage, pongVars>>

(* The loser is named in the message: itself, as SendClientGameOver has it, which *)
(* is the only function that makes the message and has no caller.             *)
PlayerDead(c) ==
    /\ TakeMessage(c, "Game_PlayerDead")
    /\ Verdict(c)
    /\ UNCHANGED <<alive, roomVars, pongVars>>

RelayGameState(c) ==
    /\ TakeMessage(c, "Relay")
    /\ posts' = <<Room!Post(Listeners \ {c}, Room!Signal("Relay"))>>
    /\ UNCHANGED <<alive, roomVars, pongVars>>

HandleEvent ==
    \/ HandleInvalidClient
    \/ AllPlayersReady
    \/ \E c \in Client :
           \/ HandleClientValidated(c)
           \/ HandleClientDisconnected(c)
           \/ RegisterWithServer(c)
           \/ UnregisterWithServer(c)
           \/ Pong(c)
           \/ RequestRoomJoin(c)
           \/ PlayerDead(c)
           \/ RelayGameState(c)

-----------------------------------------------------------------------------
(* ProcessPingPong.  Whether PING_INTERVAL_MS have passed is left open.       *)

PingAllClients ==
    /\ phase = "ping"
    /\ phase' = "timeouts"
    /\ \/ posts' = <<>>
       \/ posts' = <<Room!Post(Listeners \cap validated, Room!Signal("Server_Ping"))>>
    /\ UNCHANGED <<netVars, inQ, eventQ, arriving, unswept, todo, roomVars, pongVars>>

(* Mutant: the late client is forgotten without being disconnected.           *)
CheckTimeoutsForgets ==
    /\ phase = "timeouts"
    /\ phase' = "drain"
    /\ LET late == overdue \cap validated
       IN  /\ pongs' = pongs \ late
           /\ overdue' = overdue \ late
    /\ posts' = <<>>
    /\ UNCHANGED <<netVars, inQ, eventQ, arriving, unswept, todo, roomVars>>

(* CheckTimeouts: every validated client whose pong is overdue is disconnected *)
(* and no longer watched.                                                    *)
CheckTimeouts ==
    /\ phase = "timeouts"
    /\ phase' = "drain"
    /\ LET late == overdue \cap validated
       IN  /\ alive' = alive \ (late \cap deq)
           /\ pongs' = pongs \ late
           /\ overdue' = overdue \ late
    /\ posts' = <<>>
    /\ UNCHANGED <<nextId, deq, reading, inQ, eventQ, arriving, unswept, todo, roomVars>>

MainThread ==
    \/ DrainOne
    \/ DrainDone
    \/ \E c \in Client : SweepOne(c)
    \/ SweepDone
    \/ EraseSlots
    \/ SwapEvents
    \/ HandleEvent
    \/ BatchDone
    \/ PingAllClients
    \/ CheckTimeouts

Next ==
    \/ AsioThread
    \/ MainThread
    \/ \E c \in Client : PongAges(c)

Spec == Init /\ [][Next]_vars

(* The main loop of main.cpp never stops, and a callback that has started     *)
(* ends.  A drain ends only when it finds the queue empty: the main thread is *)
(* taken to be, again and again, faster than the network.                    *)
Fairness ==
    /\ WF_vars(MainThread)
    /\ SF_vars(DrainDone)
    /\ WF_vars(PushMessage)

LiveSpec == Spec /\ Fairness

-----------------------------------------------------------------------------
(* Safety.                                                                   *)

DisconnectQueued(c) == \E i \in 1 .. Len(eventQ) : eventQ[i] = Disconnected(c)

(* No table of the main thread outlives its connection: a player, a validated *)
(* client or a watched pong belongs to a connection that is still there or   *)
(* whose ClientDisconnected is on its way.  The events come from two threads *)
(* and two queues, so a Register, a Pong or a ClientValidated handled after  *)
(* the disconnect would leave a ghost that nothing ever removes.             *)
NoGhosts ==
    \A c \in players \cup validated \cup pongs : c \in deq \/ DisconnectQueued(c)

(* Nobody plays who was not validated before: ClientValidated is queued by    *)
(* the ASIO thread itself, messages take the detour over m_qMessagesIn.      *)
PlayersAreValidated == players \subseteq validated

(* The timeout watches every validated client as long as it lives:           *)
(* CheckTimeouts drops a client from m_LastPongTime but leaves it in          *)
(* m_ValidatedClients, so one it did not really disconnect would be immune.  *)
LiveAreWatched == validated \cap alive \subseteq pongs

(* A disconnect is handled once: m_vGarbageIDs has no id twice, and none of   *)
(* a connection that is still in m_deqConnections.                           *)
DepartOnce ==
    /\ \A i, j \in 1 .. Len(garbage) : garbage[i] = garbage[j] => i = j
    /\ Departed \cap deq = {}

(* With its threads and queues hidden the server is the room of GameRoom.     *)
ImplementsGameRoom == Room!Spec

(* Liveness.                                                                 *)

(* A connection that died is forgotten: its disconnect is handled, and with   *)
(* it its place in the room is free again.                                   *)
DeadAreForgotten ==
    \A c \in Client : (c \in deq /\ c \notin alive) ~> (c \in Departed)

(* A validated client that has been silent for too long departs, unless a     *)
(* pong of it turns up after all.                                            *)
SilentDepart ==
    \A c \in Client : (c \in validated \cap overdue)
                          ~> (c \in Departed \/ c \in pongs \ overdue)

-----------------------------------------------------------------------------
(* The inductive invariant.                                                  *)

Accepted == 1 .. nextId - 1

(* A connection is in the deque, or its disconnect is queued, or it was        *)
(* handled: these are exclusive, and only accepted connections get there.    *)
Lifecycle ==
    /\ deq \subseteq Accepted
    /\ alive \cup reading \cup unswept \subseteq deq
    /\ Departed \subseteq Accepted \ deq
    /\ \A i, j \in 1 .. Len(garbage) : garbage[i] = garbage[j] => i = j

(* A queued disconnect is the only one of its connection, which is neither in  *)
(* the deque nor departed.                                                   *)
DisconnectsQueued ==
    \A j \in 1 .. Len(eventQ), c \in Client :
        eventQ[j] = Disconnected(c) =>
            /\ c \in Accepted \ (deq \cup Departed)
            /\ \A i \in 1 .. Len(eventQ) : eventQ[i] = Disconnected(c) => i = j

(* A queued ClientValidated is the only one of its connection, which is not    *)
(* validated yet and is still reading, or its disconnect is behind it.       *)
ValidationsQueued ==
    \A j \in 1 .. Len(eventQ), c \in Client :
        eventQ[j] = Validated(c) =>
            /\ c \in Accepted \ (validated \cup Departed)
            /\ \A i \in 1 .. Len(eventQ) : eventQ[i] = Validated(c) => i = j
            /\ \/ c \in reading
               \/ \E k \in j + 1 .. Len(eventQ) : eventQ[k] = Disconnected(c)

(* Once the queued events are handled connection c is validated, unless it is  *)
(* gone; and so it is by the time the event at position j is handled.        *)
Introduced(c) ==
    \/ c \notin deq
    \/ c \in validated
    \/ \E i \in 1 .. Len(eventQ) : eventQ[i] = Validated(c)

IntroducedBefore(c, j) ==
    \/ c \notin deq
    \/ c \in validated
    \/ \E i \in 1 .. j - 1 : eventQ[i] = Validated(c)

(* The connections that read, or have a message on its way to the event queue. *)
UnderWay ==
    reading \cup {inQ[j].from : j \in 1 .. Len(inQ)}
            \cup {in.from : in \in {arriving} \ {Idle}}

MessagesIntroduced ==
    /\ UnderWay \subseteq Accepted
    /\ \A c \in UnderWay : Introduced(c)
    /\ \A j \in 1 .. Len(eventQ), in \in Incoming :
           eventQ[j] = Received(in) => /\ in.from \in Accepted
                                       /\ IntroducedBefore(in.from, j)

Tables ==
    /\ \A c \in validated : c \in reading \/ DisconnectQueued(c)
    /\ players \cup pongs \subseteq validated
    /\ LiveAreWatched

IInv ==
    /\ TypeOK
    /\ Lifecycle
    /\ DisconnectsQueued
    /\ ValidationsQueued
    /\ MessagesIntroduced
    /\ Tables
=============================================================================
