----------------------------- MODULE RoomMatch -----------------------------
(***************************************************************************)
(* A match over the network: the server of GameRoom and the game clients,   *)
(* joined by the two byte streams of each connection.                       *)
(*                                                                          *)
(* A session is one RoomJoinState with the TetrisClient it creates and the  *)
(* MultiPlayState and GameOverState it may push:                             *)
(*   "title"  not begun                                                     *)
(*   "join"   RoomJoinState is on top: registering, waiting for the start   *)
(*   "play"   MultiPlayState is on top                                      *)
(*   "over"   GameOverState is on top; nobody reads the connection any more  *)
(*   "gone"   popped to the title, or the process ended: the socket is closed *)
(*                                                                          *)
(* The server's threads and queues are those of TetrisServer.tla, hidden     *)
(* behind GameRoom, which it implements; here are the deque, m_bAlive and    *)
(* the messages in flight.  Pings are left out: the "join" and "play" screens *)
(* answer them in time, the "over" screen never does.  Client and server run *)
(* on one host (127.0.0.1): a socket breaks only when an end closes it.      *)
(***************************************************************************)
EXTENDS Naturals, FiniteSets, Sequences

CONSTANTS
    Client,     \* the sessions, each with the id its connection gets
    Seed,       \* the values GenerateSeed may return
    NoSeed,     \* m_BagSeed before any Game_SendBagSeed
    MaxRelays   \* bound: how many Game_* states are sent in all

ASSUME NoSeedAssumption == NoSeed \notin Seed
ASSUME MaxRelaysAssumption == MaxRelays \in Nat

VARIABLES
    \* the server
    members, room, departed, starting, posts,   \* as in GameRoom
    up,         \* the server's process has not ended
    greeted,    \* the ids that were validated by the ASIO thread
    deq,        \* the ids of the connections in m_deqConnections
    alive,      \* the server's m_bAlive of each connection
    \* the streams
    toServer,   \* what a client has sent and the server has not handled
    toClient,   \* what the server has sent and the client has not handled
    \* the clients
    screen,     \* the state on top of the state machine
    linked,     \* the sessions whose client says IsConnected
    responded,  \* m_bServerResponded
    named,      \* the sessions whose m_PlayerID was assigned
    queued,     \* m_bTransitionQueued
    seed,       \* m_BagSeed, which MultiPlayState is built with
    localOver,  \* m_bGameOver[Local]
    remoteOver, \* m_bGameOver[Remote]
    waiting,    \* m_bWaitingGameOverTransition
    broke,      \* the sessions that ran into a __debugbreak
    relays,     \* how many Game_* states were sent so far
    \* history, which no guard reads
    registered  \* the ids whose Client_RegisterWithServer was handled

roomVars   == <<members, room, departed, starting, registered>>
connVars   == <<up, greeted, deq, alive>>
joinVars   == <<responded, named, queued, seed>>
playVars   == <<localOver, remoteOver, waiting>>
clientVars == <<screen, linked, joinVars, playVars, broke, relays>>
vars == <<roomVars, posts, connVars, toServer, toClient, clientVars>>

Room == INSTANCE GameRoom

ClientMsg == {"Client_RegisterWithServer", "Client_UnregisterWithServer",
              "Client_RequestRoomJoin", "Relay"}
Screens == {"title", "join", "play", "over", "gone"}

TypeOK ==
    /\ members \subseteq Client /\ room \subseteq Client /\ departed \subseteq Client
    /\ starting \in BOOLEAN
    /\ posts \in Seq(Room!Posts)
    /\ up \in BOOLEAN
    /\ greeted \subseteq Client /\ deq \subseteq Client /\ alive \subseteq deq
    /\ toServer \in [Client -> Seq(ClientMsg)]
    /\ toClient \in [Client -> Seq(Room!ServerMsg)]
    /\ screen \in [Client -> Screens]
    /\ linked \subseteq Client
    /\ responded \subseteq Client /\ named \subseteq Client /\ queued \subseteq Client
    /\ seed \in [Client -> Seed \cup {NoSeed}]
    /\ localOver \subseteq Client /\ remoteOver \subseteq Client
    /\ waiting \subseteq localOver \cup remoteOver
    /\ broke \subseteq Client
    /\ relays \in 0 .. MaxRelays
    /\ registered \subseteq Client

Init ==
    /\ Room!Init
    /\ up = TRUE
    /\ greeted = {} /\ deq = {} /\ alive = {}
    /\ toServer = [c \in Client |-> <<>>]
    /\ toClient = [c \in Client |-> <<>>]
    /\ screen = [c \in Client |-> "title"]
    /\ linked = {}
    /\ responded = {} /\ named = {} /\ queued = {}
    /\ seed = [c \in Client |-> NoSeed]
    /\ localOver = {} /\ remoteOver = {} /\ waiting = {}
    /\ broke = {}
    /\ relays = 0
    /\ registered = {}

-----------------------------------------------------------------------------
(* The server: each handler of GameRoom, with the connections it writes to.  *)

Listeners == deq \cap alive

(* MessageClient writes to c, MessageAllClients to every listener, and a       *)
(* relayed state to every listener but the one it comes from.                *)
Reach(c, m) ==
    CASE m.type \in {"Client_Accepted", "Client_AssignID", "Server_RoomJoinAccepted"}
             -> {c} \cap Listeners
      [] m.type = "Relay" -> Listeners \ {c}
      [] OTHER -> Listeners

(* What a step posts to d; no step posts more than two messages.              *)
PostTo(d, p) == IF d \in p.to THEN <<p.msg>> ELSE <<>>
Posted(d) ==
    CASE Len(posts') = 0 -> <<>>
      [] Len(posts') = 1 -> PostTo(d, posts'[1])
      [] Len(posts') = 2 -> PostTo(d, posts'[1]) \o PostTo(d, posts'[2])

(* The posts of a step on behalf of c reach exactly their audience; what is    *)
(* written to a client that has closed its socket is lost.                   *)
Deliver(c) ==
    /\ \A i \in 1 .. Len(posts') : posts'[i].to = Reach(c, posts'[i].msg)
    /\ toClient' = [d \in Client |->
                       IF d \in linked THEN toClient[d] \o Posted(d) ELSE <<>>]

(* ReadValidation succeeds: OnClientValidated.                               *)
Greet(c) ==
    /\ c \in Listeners \ greeted
    /\ c \in linked
    /\ greeted' = greeted \cup {c}
    /\ Room!Serve
    /\ Len(posts') = 1 /\ posts'[1].msg = Room!Signal("Client_Accepted")
    /\ Deliver(c)
    /\ UNCHANGED <<up, deq, alive, toServer, clientVars, registered>>

HandleClientValidated(c) ==
    /\ c \in greeted
    /\ Room!Admit(c)
    /\ UNCHANGED <<connVars, toServer, toClient, clientVars, registered>>

(* The next message of c is handled; those of a connection that is no longer   *)
(* in the deque are dropped.                                                 *)
TakeMessage(c, m) ==
    /\ c \in deq \cap members
    /\ toServer[c] # <<>>
    /\ Head(toServer[c]) = m
    /\ toServer' = [toServer EXCEPT ![c] = Tail(@)]

RegisterWithServer(c) ==
    /\ TakeMessage(c, "Client_RegisterWithServer")
    /\ Room!Register(c)
    /\ registered' = registered \cup {c}
    /\ Deliver(c)
    /\ UNCHANGED <<connVars, clientVars>>

RequestRoomJoin(c) ==
    /\ TakeMessage(c, "Client_RequestRoomJoin")
    /\ Room!RequestRoomJoin(c)
    /\ Deliver(c)
    /\ UNCHANGED <<connVars, clientVars, registered>>

AllPlayersReady ==
    /\ Room!AllPlayersReady
    /\ \E c \in Client : Deliver(c)
    /\ UNCHANGED <<connVars, toServer, clientVars, registered>>

RelayGameState(c) ==
    /\ TakeMessage(c, "Relay")
    /\ Room!Relay(c)
    /\ Deliver(c)
    /\ UNCHANGED <<connVars, clientVars, registered>>

(* The server calls connection::Disconnect, which only clears m_bAlive.       *)
Disconnect(c) ==
    /\ alive' = alive \ {c}
    /\ posts' = <<>>
    /\ UNCHANGED <<up, greeted, deq, roomVars, toClient, clientVars>>

UnregisterWithServer(c) ==
    /\ ~starting
    /\ TakeMessage(c, "Client_UnregisterWithServer")
    /\ Disconnect(c)

(* ReadHeader fails: the client has closed its socket.                       *)
ReadFails(c) ==
    /\ c \in alive
    /\ screen[c] = "gone"
    /\ UNCHANGED toServer
    /\ Disconnect(c)

(* Mutant: MultiPlayState does not answer pings either.                       *)
PongTimeoutWhilePlaying(c) ==
    /\ ~starting
    /\ c \in alive \cap members
    /\ screen[c] \in {"play", "over"}
    /\ UNCHANGED toServer
    /\ Disconnect(c)

(* CheckTimeouts: the pong of a client whose screen does not answer is overdue. *)
PongTimeout(c) ==
    /\ ~starting
    /\ c \in alive \cap members
    /\ screen[c] = "over"
    /\ UNCHANGED toServer
    /\ Disconnect(c)

(* Mutant: the sweep does not ask whether the connection is dead.             *)
SweepTheLiving(c) ==
    /\ ~starting
    /\ c \in deq
    /\ deq' = deq \ {c}
    /\ toServer' = [toServer EXCEPT ![c] = <<>>]
    /\ posts' = <<>>
    /\ UNCHANGED <<up, greeted, alive, roomVars, toClient, clientVars>>

(* Update's sweep: the dead connection leaves the deque, its socket is closed. *)
Sweep(c) ==
    /\ ~starting
    /\ c \in deq \ alive
    /\ deq' = deq \ {c}
    /\ toServer' = [toServer EXCEPT ![c] = <<>>]
    /\ posts' = <<>>
    /\ UNCHANGED <<up, greeted, alive, roomVars, toClient, clientVars>>

HandleClientDisconnected(c) ==
    /\ screen[c] # "title"
    /\ c \notin deq
    /\ c \in greeted => c \in members
    /\ Room!Depart(c)
    /\ Deliver(c)
    /\ UNCHANGED <<connVars, toServer, clientVars, registered>>

(* The server's process ends, and with it every connection.                   *)
ServerEnds ==
    /\ up
    /\ up' = FALSE
    /\ deq' = {} /\ alive' = {}
    /\ toServer' = [c \in Client |-> <<>>]
    /\ posts' = <<>>
    /\ UNCHANGED <<greeted, roomVars, toClient, clientVars>>

ServerStep ==
    /\ up
    /\ \/ AllPlayersReady
       \/ \E c \in Client :
            \/ Greet(c)
            \/ HandleClientValidated(c)
            \/ RegisterWithServer(c)
            \/ RequestRoomJoin(c)
            \/ RelayGameState(c)
            \/ UnregisterWithServer(c)
            \/ ReadFails(c)
            \/ PongTimeout(c)
            \/ Sweep(c)
            \/ HandleClientDisconnected(c)

-----------------------------------------------------------------------------
(* The clients.                                                              *)

NoServerStep == posts' = <<>> /\ UNCHANGED <<roomVars, connVars>>

Send(c, m) ==
    toServer' = [toServer EXCEPT ![c] =
                    IF c \in linked \cap deq THEN Append(@, m) ELSE @]

(* The session ends: its TetrisClient and with it the socket is destroyed.    *)
CloseSocket(c) ==
    /\ screen' = [screen EXCEPT ![c] = "gone"]
    /\ linked' = linked \ {c}
    /\ toClient' = [toClient EXCEPT ![c] = <<>>]
    /\ UNCHANGED <<joinVars, playVars, broke, relays>>

(* RequestPopDepth(1) and the OnExit it leads to: a client that still says     *)
(* IsConnected sends Client_UnregisterWithServer, sleeps, and closes the      *)
(* socket, by when the message has left or has not.                          *)
PopToTitle(c) ==
    /\ UNCHANGED toServer \/ Send(c, "Client_UnregisterWithServer")
    /\ CloseSocket(c)
    /\ NoServerStep

(* TitleState pushes RoomJoinState, whose constructor connects; the server     *)
(* accepts, or has ended and never answers.                                  *)
Start(c) ==
    /\ screen[c] = "title"
    /\ screen' = [screen EXCEPT ![c] = "join"]
    /\ linked' = linked \cup {c}
    /\ deq' = IF up THEN deq \cup {c} ELSE deq
    /\ alive' = IF up THEN alive \cup {c} ELSE alive
    /\ posts' = <<>>
    /\ UNCHANGED <<up, roomVars, greeted, toServer, toClient, joinVars, playVars, broke, relays>>

(* The client's read fails: the server has dropped the connection.  HandlePackets *)
(* and ProcessPackets return at once from now on: what is unread stays unread. *)
ServerIsLost(c) ==
    /\ c \in linked \ deq
    /\ linked' = linked \ {c}
    /\ toClient' = [toClient EXCEPT ![c] = <<>>]
    /\ NoServerStep
    /\ UNCHANGED <<toServer, screen, joinVars, playVars, broke, relays>>

(* Escape, or the end of the process: no OnExit, the socket closes.           *)
Quit(c) ==
    /\ screen[c] \in {"join", "play", "over"}
    /\ CloseSocket(c)
    /\ NoServerStep
    /\ UNCHANGED toServer

-----------------------------------------------------------------------------
(* RoomJoinState.                                                            *)

(* A session on screen s handles the next message of type t.                 *)
ClientTakes(c, s, t) ==
    /\ screen[c] = s
    /\ c \in linked
    /\ toClient[c] # <<>>
    /\ Head(toClient[c]).type = t
    /\ toClient' = [toClient EXCEPT ![c] = Tail(@)]
    /\ NoServerStep
    /\ UNCHANGED <<screen, linked, relays>>

JoinAccepted(c) ==
    /\ ClientTakes(c, "join", "Client_Accepted")
    /\ responded' = responded \cup {c}
    /\ Send(c, "Client_RegisterWithServer")
    /\ UNCHANGED <<named, queued, seed, playVars, broke>>

(* Mutant: TryJoinRoom is not called.                                         *)
JoinAssignIDOnly(c) ==
    /\ ClientTakes(c, "join", "Client_AssignID")
    /\ named' = named \cup {c}
    /\ UNCHANGED <<toServer, responded, queued, seed, playVars, broke>>

JoinAssignID(c) ==
    /\ ClientTakes(c, "join", "Client_AssignID")
    /\ named' = named \cup {c}
    /\ Send(c, "Client_RequestRoomJoin")
    /\ UNCHANGED <<responded, queued, seed, playVars, broke>>

(* Mutant: the transition is scheduled as soon as the room is joined.         *)
JoinRoomJoinAcceptedStarts(c) ==
    /\ ClientTakes(c, "join", "Server_RoomJoinAccepted")
    /\ queued' = queued \cup {c}
    /\ UNCHANGED <<toServer, responded, named, seed, playVars, broke>>

JoinRoomJoinAccepted(c) ==
    /\ ClientTakes(c, "join", "Server_RoomJoinAccepted")
    /\ UNCHANGED <<toServer, joinVars, playVars, broke>>

JoinSendBagSeed(c) ==
    /\ ClientTakes(c, "join", "Game_SendBagSeed")
    /\ seed' = [seed EXCEPT ![c] = Head(toClient[c]).seed]
    /\ UNCHANGED <<toServer, responded, named, queued, playVars, broke>>

JoinAllPlayersReady(c) ==
    /\ ClientTakes(c, "join", "Server_AllPlayersReady")
    /\ queued' = queued \cup {c}
    /\ UNCHANGED <<toServer, responded, named, seed, playVars, broke>>

(* The default case of HandlePackets.  Under a debugger the program goes on.   *)
JoinNotValid(c) ==
    /\ \E t \in {"Relay", "Server_GameOver"} : ClientTakes(c, "join", t)
    /\ broke' = broke \cup {c}
    /\ UNCHANGED <<toServer, joinVars, playVars>>

JoinTimeout(c) ==
    /\ screen[c] = "join"
    /\ c \notin responded
    /\ PopToTitle(c)

(* The end of Update: PerformTransitionToMultiPlay.                          *)
JoinTransition(c) ==
    /\ screen[c] = "join"
    /\ c \in queued
    /\ screen' = [screen EXCEPT ![c] = "play"]
    /\ queued' = queued \ {c}
    /\ NoServerStep
    /\ UNCHANGED <<toServer, toClient, linked, responded, named, seed, playVars, broke, relays>>

-----------------------------------------------------------------------------
(* MultiPlayState and GameOverState.                                         *)

(* ProcessPackets: only a winner that knows its own name has won.             *)
PlayGameOver(c) ==
    /\ ClientTakes(c, "play", "Server_GameOver")
    /\ IF c \in named /\ Head(toClient[c]).winner = c
       THEN remoteOver' = remoteOver \cup {c} /\ UNCHANGED localOver
       ELSE localOver' = localOver \cup {c} /\ UNCHANGED remoteOver
    /\ UNCHANGED <<toServer, joinVars, waiting, broke>>

PlayOtherPacket(c) ==
    /\ \E t \in Room!Signals \cup {"Game_SendBagSeed"} : ClientTakes(c, "play", t)
    /\ UNCHANGED <<toServer, joinVars, playVars, broke>>

(* A frame that changes what the opponent sees, and SyncToServer.             *)
PlaySync(c) ==
    /\ screen[c] = "play"
    /\ c \notin localOver \cap waiting
    /\ relays < MaxRelays
    /\ relays' = relays + 1
    /\ Send(c, "Relay")
    /\ NoServerStep
    /\ UNCHANGED <<toClient, screen, linked, joinVars, playVars, broke>>

(* The next mino cannot be spawned: the local game is over.  Gravity stops    *)
(* once the remote game is over, the keys do not.                            *)
PlayTopOut(c) ==
    /\ screen[c] = "play"
    /\ c \notin localOver
    /\ c \in remoteOver => c \in waiting
    /\ localOver' = localOver \cup {c}
    /\ NoServerStep
    /\ UNCHANGED <<toServer, toClient, screen, linked, joinVars, remoteOver, waiting, broke, relays>>

(* CheckGameOverTransition, first time: the timer starts and a sound is        *)
(* played; there is none called "victory", and PlaySE_Force breaks.          *)
PlayVerdict(c) ==
    /\ screen[c] = "play"
    /\ c \in (localOver \cup remoteOver) \ waiting
    /\ waiting' = waiting \cup {c}
    /\ broke' = IF c \in localOver THEN broke ELSE broke \cup {c}
    /\ NoServerStep
    /\ UNCHANGED <<toServer, toClient, screen, linked, joinVars, localOver, remoteOver, relays>>

(* CheckGameOverTransition, three seconds later.                             *)
PlayToGameOver(c) ==
    /\ screen[c] = "play"
    /\ c \in waiting
    /\ screen' = [screen EXCEPT ![c] = "over"]
    /\ waiting' = waiting \ {c}
    /\ NoServerStep
    /\ UNCHANGED <<toServer, toClient, linked, joinVars, localOver, remoteOver, broke, relays>>

PlayDisconnected(c) ==
    /\ screen[c] = "play"
    /\ c \notin linked
    /\ PopToTitle(c)

OverToTitle(c) ==
    /\ screen[c] = "over"
    /\ PopToTitle(c)

(* What the program does by itself, frame after frame.                       *)
ClientFrame(c) ==
    \/ ServerIsLost(c)
    \/ JoinAccepted(c)
    \/ JoinAssignID(c)
    \/ JoinRoomJoinAccepted(c)
    \/ JoinSendBagSeed(c)
    \/ JoinAllPlayersReady(c)
    \/ JoinNotValid(c)
    \/ JoinTransition(c)
    \/ PlayGameOver(c)
    \/ PlayOtherPacket(c)
    \/ PlayVerdict(c)
    \/ PlayToGameOver(c)
    \/ PlayDisconnected(c)

(* What depends on the user, on the game or on the clock.                    *)
ClientChoice(c) ==
    \/ Start(c)
    \/ JoinTimeout(c)
    \/ PlaySync(c)
    \/ PlayTopOut(c)
    \/ OverToTitle(c)
    \/ Quit(c)

Next ==
    \/ ServerStep
    \/ ServerEnds
    \/ \E c \in Client : ClientFrame(c) \/ ClientChoice(c)

Spec == Init /\ [][Next]_vars

(* Both loops run: a server that has not ended handles what is there, a client *)
(* that has not ended reads and draws.  Nothing is asked of the user.             *)
Fairness ==
    /\ WF_vars(ServerStep)
    /\ \A c \in Client : WF_vars(ClientFrame(c))

LiveSpec == Spec /\ Fairness

-----------------------------------------------------------------------------
(* Safety.                                                                   *)

Begun == {c \in Client : screen[c] # "title"}

(* Nobody is sent into a match alone: whoever plays, another session had        *)
(* registered with the server before.  That session may have departed since;   *)
(* the departure of a stranger that never registered does not count.         *)
NobodyStartsAlone ==
    \A c \in Client : screen[c] = "play" => \E d \in Client \ {c} : d \in registered

(* As long as no third session has begun, both sides play with a seed of the   *)
(* server: the seed is sent ahead of every order to start.                   *)
PlaySeeded ==
    Cardinality(Begun) <= 2 => \A c \in Client : screen[c] = "play" => seed[c] # NoSeed

(* A victory is never declared while everybody else still plays: some other    *)
(* session has departed, which it does only by ending or by falling silent.  *)
VictoryNeedsDeparture ==
    \A c \in remoteOver : \E d \in departed \ {c} : screen[d] \in {"over", "gone"}

-----------------------------------------------------------------------------
(* Liveness, for two sessions.                                               *)

(* Once both players are registered and wait, both get to play, unless one     *)
(* ends its session first or the server ends.                                *)
StartsTogether ==
    (\A c \in Client : screen[c] = "join" /\ c \in room)
        ~> (\/ \A c \in Client : screen[c] = "play"
            \/ \E c \in Client : screen[c] \in {"over", "gone"}
            \/ ~up)

(* A match ends for both: nobody reports its defeat (SendClientGameOver has no *)
(* caller), so a player whose opponent has topped out or left is told only by *)
(* way of a departure, that of a loser who stays by way of the pong timeout.  *)
(* A client that broke before may have lost the message.                     *)
MatchEnds ==
    \A c, d \in Client :
        (c # d /\ screen[c] = "play" /\ (d \in localOver \/ screen[d] = "gone"))
            ~> (screen[c] # "play" \/ c \in broke)

-----------------------------------------------------------------------------
(* What the repository says of a match, and the code does not keep.           *)

(* README.md:25, completely synchronised bags from a shared seed: two clients  *)
(* that are playing have the same seed.                                      *)
SeedsAgree ==
    \A c, d \in Client : screen[c] = "play" /\ screen[d] = "play" => seed[c] = seed[d]

(* RoomJoinState.cpp:174-179, the default case that logs "GameMsg Not Valid!"   *)
(* and breaks: no such message reaches a client that waits in the room.      *)
NoInvalidPacket ==
    \A c \in linked : screen[c] = "join" => c \notin broke

(* MultiPlayNetwork.cpp:111-113, the server tells who is winner and loser: two  *)
(* opponents are never both told that they lost.                             *)
OneLoser ==
    \A c, d \in Client : c # d => ~(/\ screen[c] = "over" /\ c \in localOver
                                    /\ screen[d] = "over" /\ d \in localOver)

(* README.md:28, a verdict on victory and defeat: a player has won only when    *)
(* no other player is still playing.                                         *)
VictoryIsReal ==
    \A c \in remoteOver : \A d \in room \ {c} : ~(screen[d] = "play" /\ d \notin localOver)
=============================================================================
