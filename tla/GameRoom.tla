------------------------------ MODULE GameRoom ------------------------------
(***************************************************************************)
(* What the server promises, with its threads and queues left out: a room   *)
(* of players over connections that are admitted once, may register, join,  *)
(* die and depart, and never come back.  One action per event that          *)
(* TetrisServer::ProcessEvents handles, each of them atomic, and "posts"     *)
(* holds what the step hands to the connections it writes to.               *)
(*                                                                          *)
(* TetrisServer.tla, the server with its two threads and its two queues,    *)
(* implements this specification.                                           *)
(***************************************************************************)
EXTENDS Naturals, FiniteSets, Sequences

CONSTANTS
    Client,     \* connection ids, handed out by nIDCounter
    Seed        \* the values GenerateSeed may return

VARIABLES
    members,    \* m_ValidatedClients
    room,       \* the keys of m_mapConnectedPlayers
    departed,   \* the ids in m_vGarbageIDs
    starting,   \* a seed was broadcast, the order to start is next
    posts       \* the messages the last step posted, in order

vars == <<members, room, departed, starting, posts>>

-----------------------------------------------------------------------------
(* Messages from the server, and posts: a message and who it is written to. *)

Signal(t)      == [type |-> t]
BagSeed(s)     == [type |-> "Game_SendBagSeed", seed |-> s]
GameOver(w, l) == [type |-> "Server_GameOver", winner |-> w, loser |-> l]

Signals == {"Client_Accepted", "Client_AssignID", "Server_Ping",
            "Server_RoomJoinAccepted", "Server_AllPlayersReady", "Relay"}

ServerMsg == {Signal(t) : t \in Signals}
                 \cup {BagSeed(s) : s \in Seed}
                 \cup {GameOver(w, l) : w, l \in Client}

Post(to, m) == [to |-> to, msg |-> m]
Posts       == [to : SUBSET Client, msg : ServerMsg]

(* The connections a broadcast may reach: whoever is still connected, which  *)
(* includes connections that are no players and excludes the departed.      *)
Audience == SUBSET (Client \ departed)

(* Mutant: one player is enough.                                              *)
OnePlayer == Cardinality(room) >= 1

TwoPlayers == Cardinality(room) = 2

-----------------------------------------------------------------------------
Init ==
    /\ members = {}
    /\ room = {}
    /\ departed = {}
    /\ starting = FALSE
    /\ posts = <<>>

(* A step that changes nothing but may write to connections outside the      *)
(* event handlers: the handshake's Client_Accepted and the pings.           *)
Serve ==
    /\ \/ posts' = <<>>
       \/ \E to \in Audience, t \in {"Client_Accepted", "Server_Ping"} :
              posts' = <<Post(to, Signal(t))>>
    /\ UNCHANGED <<members, room, departed, starting>>

(* HandleClientValidated: each connection is admitted at most once.          *)
Admit(c) ==
    /\ ~starting
    /\ c \notin members \cup departed
    /\ members' = members \cup {c}
    /\ posts' = <<>>
    /\ UNCHANGED <<room, departed, starting>>

(* HandleMessage, Client_RegisterWithServer.                                 *)
Register(c) ==
    /\ ~starting
    /\ c \in members
    /\ room' = room \cup {c}
    /\ \E to \in SUBSET {c} : posts' = <<Post(to, Signal("Client_AssignID"))>>
    /\ UNCHANGED <<members, departed, starting>>

(* HandleMessage, Client_RequestRoomJoin: with exactly two players in the    *)
(* room every connection gets a fresh seed, and then the order to start.     *)
RequestRoomJoin(c) ==
    /\ ~starting
    /\ c \in members
    /\ \E to \in SUBSET {c}, all \in Audience, s \in Seed :
           LET accepted == Post(to, Signal("Server_RoomJoinAccepted"))
           IN  posts' = IF TwoPlayers THEN <<accepted, Post(all, BagSeed(s))>>
                                      ELSE <<accepted>>
    /\ starting' = TwoPlayers
    /\ UNCHANGED <<members, room, departed>>

AllPlayersReady ==
    /\ starting
    /\ \E all \in Audience : posts' = <<Post(all, Signal("Server_AllPlayersReady"))>>
    /\ starting' = FALSE
    /\ UNCHANGED <<members, room, departed>>

(* The verdict of HandleClientDisconnected and of Game_PlayerDead: given     *)
(* only with exactly two players, to some player other than the loser.      *)
Verdict(loser) ==
    IF TwoPlayers
    THEN \E to \in Audience, w \in room \ {loser} :
             posts' = <<Post(to, GameOver(w, loser))>>
    ELSE posts' = <<>>

PlayerDead(c) ==
    /\ ~starting
    /\ c \in members
    /\ Verdict(c)
    /\ UNCHANGED <<members, room, departed, starting>>

(* HandleMessage, the Game_* states of a player: passed on to the others.    *)
Relay(c) ==
    /\ ~starting
    /\ c \in members
    /\ \E to \in Audience : c \notin to /\ posts' = <<Post(to, Signal("Relay"))>>
    /\ UNCHANGED <<members, room, departed, starting>>

(* Mutant: the departed is erased before the players are counted.             *)
DepartErasedFirst(c) ==
    /\ ~starting
    /\ c \notin departed
    /\ members' = members \ {c}
    /\ room' = room \ {c}
    /\ departed' = departed \cup {c}
    /\ IF Cardinality(room') = 2
       THEN \E to \in Audience, w \in room' : posts' = <<Post(to, GameOver(w, c))>>
       ELSE posts' = <<>>
    /\ UNCHANGED starting

(* HandleClientDisconnected: once for each connection, player or not.        *)
Depart(c) ==
    /\ ~starting
    /\ c \notin departed
    /\ Verdict(c)
    /\ members' = members \ {c}
    /\ room' = room \ {c}
    /\ departed' = departed \cup {c}
    /\ UNCHANGED starting

Next ==
    \/ Serve
    \/ AllPlayersReady
    \/ \E c \in Client :
           \/ Admit(c)
           \/ Register(c)
           \/ RequestRoomJoin(c)
           \/ PlayerDead(c)
           \/ Relay(c)
           \/ Depart(c)

Spec == Init /\ [][Next]_vars
=============================================================================
