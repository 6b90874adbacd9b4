------------------------- MODULE TetrisServer_proofs -------------------------
(***************************************************************************)
(* Proofs about TetrisServer, for every number of connections, every queue  *)
(* length and every set of seeds.                                           *)
(***************************************************************************)
EXTENDS TetrisServer, TLAPS

-----------------------------------------------------------------------------
(* Queues and events.                                                        *)

LEMMA AppendFacts ==
    ASSUME NEW S, NEW q \in Seq(S), NEW e \in S
    PROVE  /\ Append(q, e) \in Seq(S)
           /\ Len(Append(q, e)) = Len(q) + 1
           /\ \A i \in 1 .. Len(q) : Append(q, e)[i] = q[i]
           /\ Append(q, e)[Len(q) + 1] = e
  OBVIOUS

LEMMA TailFacts ==
    ASSUME NEW S, NEW q \in Seq(S), q # <<>>
    PROVE  /\ Tail(q) \in Seq(S)
           /\ Len(q) \in Nat \ {0}
           /\ Len(Tail(q)) = Len(q) - 1
           /\ \A i \in 1 .. Len(q) - 1 : Tail(q)[i] = q[i + 1]
           /\ Head(q) = q[1]
           /\ Head(q) \in S
  OBVIOUS

LEMMA SingleFacts ==
    ASSUME NEW S, NEW e \in S
    PROVE  <<e>> \in Seq(S)
  OBVIOUS

(* The three kinds of events are told apart by their type, and each by its id. *)
LEMMA EventFacts ==
    /\ \A c, d \in Client : /\ Validated(c) # Disconnected(d)
                            /\ Validated(c) = Validated(d) => c = d
                            /\ Disconnected(c) = Disconnected(d) => c = d
    /\ \A c \in Client, in \in Incoming : /\ Validated(c) # Received(in)
                                          /\ Disconnected(c) # Received(in)
  BY DEF Validated, Disconnected, Received

LEMMA ReceivedFacts ==
    ASSUME NEW in \in Incoming, NEW jn \in Incoming
    PROVE  /\ in.from \in Client
           /\ in.msg \in ClientMsg
           /\ Received(in).type = "MessageReceived"
           /\ Received(in).id = in.from
           /\ Received(in) = Received(jn) => in.from = jn.from
  BY DEF Incoming, Received

LEMMA IdleFacts == Idle \notin Incoming
  BY DEF Idle, Incoming, Client

-----------------------------------------------------------------------------
(* What is posted.                                                           *)

LEMMA PostFacts ==
    ASSUME NEW to \in SUBSET Client
    PROVE  /\ \A t \in Room!Signals : Room!Post(to, Room!Signal(t)) \in Room!Posts
           /\ \A s \in Seed : Room!Post(to, Room!BagSeed(s)) \in Room!Posts
           /\ \A w, l \in Client : Room!Post(to, Room!GameOver(w, l)) \in Room!Posts
  <1>1. \A m \in Room!ServerMsg : Room!Post(to, m) \in Room!Posts
    BY DEF Room!Post, Room!Posts
  <1>2. \A t \in Room!Signals : Room!Signal(t) \in Room!ServerMsg
    BY DEF Room!ServerMsg
  <1>3. \A s \in Seed : Room!BagSeed(s) \in Room!ServerMsg
    BY DEF Room!ServerMsg
  <1>4. \A w, l \in Client : Room!GameOver(w, l) \in Room!ServerMsg
    BY DEF Room!ServerMsg
  <1> QED  BY <1>1, <1>2, <1>3, <1>4

LEMMA VerdictPosts ==
    ASSUME TypeOK, NEW c \in Client, Verdict(c)
    PROVE  posts' \in Seq(Room!Posts)
  <1>1. CASE Cardinality(players) = 2
    <2>1. PICK w \in players \ {c} :
                 posts' = <<MessageAllClients(Room!GameOver(w, c))>>
      BY <1>1 DEF Verdict
    <2>2. MessageAllClients(Room!GameOver(w, c)) \in Room!Posts
      BY PostFacts DEF TypeOK, MessageAllClients, Listeners
    <2> QED  BY <2>1, <2>2, SingleFacts
  <1>2. CASE Cardinality(players) # 2
    BY <1>2 DEF Verdict
  <1> QED  BY <1>1, <1>2

-----------------------------------------------------------------------------
(* Type correctness.                                                         *)

LEMMA TypeCorrect == TypeOK /\ [Next]_vars => TypeOK'
  <1> SUFFICES ASSUME TypeOK, [Next]_vars PROVE TypeOK'
    OBVIOUS
  <1> USE MaxConnsAssumption, MaxQueueAssumption
  <1>0. UNCHANGED vars => TypeOK'
    BY DEF TypeOK, vars, netVars, mainVars, roomVars, pongVars
  <1>1. ASSUME Accept PROVE TypeOK'
    <2>1. nextId \in Client /\ nextId' \in 1 .. MaxConns + 1
      BY <1>1 DEF Accept, TypeOK, Client
    <2>2. deq' \subseteq Client /\ alive' \subseteq Client
      BY <1>1, <2>1 DEF Accept, TypeOK
    <2> QED  BY <1>1, <2>1, <2>2 DEF Accept, TypeOK, mainVars, roomVars, pongVars
  <1>2. ASSUME NEW c \in Client, ClientIsValidated(c) PROVE TypeOK'
    <2>1. Room!Post({c}, Room!Signal("Client_Accepted")) \in Room!Posts
      BY PostFacts DEF Room!Signals
    <2>2. posts' \in Seq(Room!Posts)
      BY <1>2, <2>1, SingleFacts DEF ClientIsValidated
    <2>3. eventQ' \in Seq(ServerEvent) /\ Len(eventQ') = Len(eventQ) + 1
      BY <1>2, AppendFacts DEF ClientIsValidated, TypeOK, ServerEvent
    <2> QED  BY <1>2, <2>2, <2>3 DEF ClientIsValidated, TypeOK, mainVars, roomVars, pongVars
  <1>3. ASSUME NEW c \in Client, NEW m \in ClientMsg, ReadMessage(c, m) PROVE TypeOK'
    BY <1>3 DEF ReadMessage, TypeOK, Incoming, netVars, mainVars, roomVars, pongVars
  <1>4. ASSUME PushMessage PROVE TypeOK'
    <2>1. inQ' \in Seq(Incoming)
      <3>1. arriving \in Incoming
        BY <1>4 DEF PushMessage, TypeOK
      <3>2. Append(inQ, arriving) \in Seq(Incoming)
        BY <3>1, AppendFacts DEF TypeOK
      <3> QED  BY <1>4, <3>2 DEF PushMessage, TypeOK
    <2> QED
      BY <1>4, <2>1 DEF PushMessage, TypeOK, netVars, mainVars, roomVars, pongVars
  <1>5. ASSUME NEW c \in Client, ConnectionFails(c) PROVE TypeOK'
    BY <1>5 DEF ConnectionFails, TypeOK, mainVars, roomVars, pongVars
  <1>6. ASSUME NEW c \in Client, PongAges(c) PROVE TypeOK'
    BY <1>6 DEF PongAges, TypeOK, netVars, mainVars, roomVars
  <1>7. ASSUME DrainOne PROVE TypeOK'
    <2>1. inQ' \in Seq(Incoming) /\ Head(inQ) \in Incoming
      BY <1>7, TailFacts DEF DrainOne, TypeOK
    <2>2. Received(Head(inQ)) \in ServerEvent
      BY <2>1 DEF ServerEvent
    <2>3. eventQ' \in Seq(ServerEvent) /\ Len(eventQ') = Len(eventQ) + 1
      BY <1>7, <2>2, AppendFacts DEF DrainOne, TypeOK
    <2> QED  BY <1>7, <2>1, <2>3 DEF DrainOne, TypeOK, netVars, mainVars, roomVars, pongVars
  <1>8. ASSUME DrainDone PROVE TypeOK'
    BY <1>8 DEF DrainDone, TypeOK, Phases, netVars, roomVars, pongVars
  <1>9. ASSUME NEW c \in Client, SweepOne(c) PROVE TypeOK'
    <2>0. Disconnected(c) \in ServerEvent
      BY DEF ServerEvent
    <2>1. /\ eventQ' \in Seq(ServerEvent)
          /\ Len(eventQ') \in {Len(eventQ), Len(eventQ) + 1}
      <3>1. CASE c \in alive
        BY <1>9, <3>1 DEF SweepOne, TypeOK
      <3>2. CASE c \notin alive
        <4>1. eventQ' = Append(eventQ, Disconnected(c))
          BY <1>9, <3>2 DEF SweepOne
        <4> QED  BY <2>0, <4>1, AppendFacts DEF TypeOK
      <3> QED  BY <3>1, <3>2
    <2> QED  BY <1>9, <2>1 DEF SweepOne, TypeOK, roomVars, pongVars
  <1>10. ASSUME SweepDone \/ EraseSlots \/ SwapEvents \/ BatchDone PROVE TypeOK'
    <2>1. phase' \in Phases /\ todo' \in 0 .. Len(eventQ) /\ posts' = <<>>
      BY <1>10 DEF SweepDone, EraseSlots, SwapEvents, BatchDone, TypeOK, Phases
    <2>2. UNCHANGED <<netVars, inQ, eventQ, arriving, unswept, roomVars, pongVars>>
      BY <1>10 DEF SweepDone, EraseSlots, SwapEvents, BatchDone
    <2> QED  BY <2>1, <2>2 DEF TypeOK, netVars, roomVars, pongVars
  <1>11. ASSUME PingAllClients PROVE TypeOK'
    <2>1. Room!Post(Listeners \cap validated, Room!Signal("Server_Ping")) \in Room!Posts
      BY PostFacts DEF Room!Signals, Listeners, TypeOK
    <2>2. posts' \in Seq(Room!Posts)
      <3>1. CASE posts' = <<>>
        BY <3>1
      <3>2. CASE posts' # <<>>
        BY <1>11, <2>1, <3>2, SingleFacts DEF PingAllClients
      <3> QED  BY <3>1, <3>2
    <2> QED  BY <1>11, <2>2 DEF PingAllClients, TypeOK, Phases, netVars, roomVars, pongVars
  <1>12. ASSUME CheckTimeouts PROVE TypeOK'
    BY <1>12 DEF CheckTimeouts, TypeOK, Phases, roomVars
  <1>13. ASSUME HandleEvent PROVE TypeOK'
    <2>1. ASSUME TakeEvent
          PROVE  /\ eventQ' \in Seq(ServerEvent)
                 /\ todo' \in 0 .. Len(eventQ')
                 /\ nextId' = nextId /\ deq' = deq /\ inQ' = inQ /\ arriving' = arriving
                 /\ reading' = reading /\ phase' = phase /\ unswept' = unswept
      BY <2>1, TailFacts DEF TakeEvent, TypeOK
    <2>2. ASSUME HandleInvalidClient PROVE TypeOK'
      BY <2>1, <2>2 DEF HandleInvalidClient, TypeOK, roomVars, pongVars
    <2>3. ASSUME NEW c \in Client, HandleClientValidated(c) PROVE TypeOK'
      BY <2>1, <2>3 DEF HandleClientValidated, TypeOK
    <2>4. ASSUME NEW c \in Client, HandleClientDisconnected(c) PROVE TypeOK'
      <3>1. posts' \in Seq(Room!Posts)
        BY <2>4, VerdictPosts DEF HandleClientDisconnected
      <3>2. garbage' \in Seq(Client)
        BY <2>4 DEF HandleClientDisconnected, TypeOK
      <3> QED  BY <2>1, <2>4, <3>1, <3>2 DEF HandleClientDisconnected, TypeOK
    <2>5. ASSUME NEW c \in Client, RegisterWithServer(c) PROVE TypeOK'
      <3>1. MessageClient(c, Room!Signal("Client_AssignID")) \in Room!Posts
        BY PostFacts DEF MessageClient, Room!Signals, Listeners, TypeOK
      <3>2. posts' \in Seq(Room!Posts)
        BY <2>5, <3>1, SingleFacts DEF RegisterWithServer
      <3> QED  BY <2>1, <2>5, <3>2 DEF RegisterWithServer, TakeMessage, TypeOK, pongVars
    <2>6. ASSUME NEW c \in Client, UnregisterWithServer(c) PROVE TypeOK'
      BY <2>1, <2>6 DEF UnregisterWithServer, TakeMessage, TypeOK, roomVars, pongVars
    <2>7. ASSUME NEW c \in Client, Pong(c) PROVE TypeOK'
      BY <2>1, <2>7 DEF Pong, TakeMessage, TypeOK, roomVars
    <2>8. ASSUME NEW c \in Client, RequestRoomJoin(c) PROVE TypeOK'
      <3> DEFINE accepted == MessageClient(c, Room!Signal("Server_RoomJoinAccepted"))
      <3>1. accepted \in Room!Posts
        BY PostFacts DEF MessageClient, Room!Signals, Listeners, TypeOK
      <3>2. \A s \in Seed : MessageAllClients(Room!BagSeed(s)) \in Room!Posts
        BY PostFacts DEF MessageAllClients, Listeners, TypeOK
      <3> HIDE DEF accepted
      <3>3. PICK s \in Seed :
                posts' = IF Cardinality(players) = 2
                         THEN <<accepted, MessageAllClients(Room!BagSeed(s))>>
                         ELSE <<accepted>>
        BY <2>8 DEF RequestRoomJoin, accepted
      <3>4. posts' \in Seq(Room!Posts)
        BY <3>1, <3>2, <3>3
      <3>5. starting' \in BOOLEAN
        BY <2>8 DEF RequestRoomJoin
      <3> QED  BY <2>1, <2>8, <3>4, <3>5 DEF RequestRoomJoin, TakeMessage, TypeOK, pongVars
    <2>9. ASSUME NEW c \in Client, PlayerDead(c) PROVE TypeOK'
      <3>1. posts' \in Seq(Room!Posts)
        BY <2>9, VerdictPosts DEF PlayerDead
      <3> QED  BY <2>1, <2>9, <3>1 DEF PlayerDead, TakeMessage, TypeOK, roomVars, pongVars
    <2>10. ASSUME NEW c \in Client, RelayGameState(c) PROVE TypeOK'
      <3>1. Room!Post(Listeners \ {c}, Room!Signal("Relay")) \in Room!Posts
        BY PostFacts DEF Room!Signals, Listeners, TypeOK
      <3>2. posts' \in Seq(Room!Posts)
        BY <2>10, <3>1, SingleFacts DEF RelayGameState
      <3> QED  BY <2>1, <2>10, <3>2 DEF RelayGameState, TakeMessage, TypeOK, roomVars, pongVars
    <2>11. ASSUME AllPlayersReady PROVE TypeOK'
      <3>1. MessageAllClients(Room!Signal("Server_AllPlayersReady")) \in Room!Posts
        BY PostFacts DEF MessageAllClients, Room!Signals, Listeners, TypeOK
      <3>2. posts' \in Seq(Room!Posts)
        BY <2>11, <3>1, SingleFacts DEF AllPlayersReady
      <3> QED  BY <2>11, <3>2 DEF AllPlayersReady, TypeOK, netVars, mainVars, pongVars
    <2> QED
      BY <1>13, <2>2, <2>3, <2>4, <2>5, <2>6, <2>7, <2>8, <2>9, <2>10, <2>11 DEF HandleEvent
  <1> QED
    BY <1>0, <1>1, <1>2, <1>3, <1>4, <1>5, <1>6, <1>7, <1>8, <1>9, <1>10, <1>11, <1>12, <1>13
    DEF Next, AsioThread, MainThread

LEMMA TypeInit == Init => TypeOK
  <1> SUFFICES ASSUME Init PROVE TypeOK
    OBVIOUS
  <1>1. nextId \in 1 .. MaxConns + 1
    BY MaxConnsAssumption DEF Init
  <1>2. starting \in BOOLEAN
    BY DEF Init
  <1> QED  BY <1>1, <1>2 DEF Init, TypeOK, Phases

(* Type correctness of the server: queues, tables and posts hold what they are *)
(* declared to hold, and the batch never outgrows the event queue.           *)
THEOREM TypeCorrectness == Spec => []TypeOK
  BY TypeInit, TypeCorrect, PTL DEF Spec
-----------------------------------------------------------------------------
(* The inductive invariant.  Steps that leave the event queue, the deque and  *)
(* the tables alone keep what IInv says of the queue.                        *)

Steady == UNCHANGED <<nextId, deq, reading, eventQ, validated, garbage>>

LEMMA SteadyKeepsQueue ==
    ASSUME IInv, Steady
    PROVE  /\ Departed' = Departed /\ Accepted' = Accepted
           /\ DisconnectsQueued'
           /\ ValidationsQueued'
           /\ \A c \in Client : DisconnectQueued(c)' <=> DisconnectQueued(c)
           /\ \A c : Introduced(c) => Introduced(c)'
           /\ \A c, j : IntroducedBefore(c, j) => IntroducedBefore(c, j)'
  <1> USE DEF Steady, Departed, Accepted
  <1>1. Departed' = Departed /\ Accepted' = Accepted
    OBVIOUS
  <1>2. DisconnectsQueued'
    BY DEF IInv, DisconnectsQueued
  <1>3. ValidationsQueued'
    BY DEF IInv, ValidationsQueued
  <1>4. \A c \in Client : DisconnectQueued(c)' <=> DisconnectQueued(c)
    BY DEF DisconnectQueued
  <1>5. /\ \A c : Introduced(c) => Introduced(c)'
        /\ \A c, j : IntroducedBefore(c, j) => IntroducedBefore(c, j)'
    BY DEF Introduced, IntroducedBefore
  <1> QED  BY <1>1, <1>2, <1>3, <1>4, <1>5

(* Such a step keeps IInv if what it does to the messages under way, to the   *)
(* living and to the tables is right.                                        *)
LEMMA SteadyStep ==
    ASSUME IInv, Steady, TypeOK',
           alive' \subseteq alive, unswept' \subseteq deq,
           players' \subseteq players \cup validated,
           pongs' \subseteq pongs \cup validated,
           LiveAreWatched',
           UnderWay' \subseteq UnderWay
    PROVE  IInv'
  <1>1. Lifecycle'
    BY SteadyKeepsQueue DEF IInv, Lifecycle, Steady
  <1>2. MessagesIntroduced'
    <2>1. UnderWay' \subseteq Accepted' /\ \A c \in UnderWay' : Introduced(c)'
      BY SteadyKeepsQueue DEF IInv, MessagesIntroduced
    <2>2. \A j \in 1 .. Len(eventQ)', in \in Incoming :
              eventQ[j]' = Received(in) => /\ in.from \in Accepted'
                                           /\ IntroducedBefore(in.from, j)'
      BY SteadyKeepsQueue DEF IInv, MessagesIntroduced, Steady
    <2> QED  BY <2>1, <2>2 DEF MessagesIntroduced
  <1>3. Tables'
    BY SteadyKeepsQueue DEF IInv, TypeOK, Tables, Steady
  <1> QED  BY <1>1, <1>2, <1>3, SteadyKeepsQueue DEF IInv

(* A connection whose disconnect is queued, or that is already reading, is not *)
(* about to be accepted, validated or swept a second time.                   *)
LEMMA AcceptKeeps == ASSUME IInv, Accept, TypeOK' PROVE IInv'
  <1> USE DEF Departed
  <1>1. /\ UNCHANGED <<reading, inQ, eventQ, arriving, unswept, validated, players,
                       garbage, pongs>>
        /\ nextId \in Nat /\ nextId' = nextId + 1 /\ nextId \in Client
        /\ nextId \notin Accepted
        /\ Accepted' = Accepted \cup {nextId}
        /\ Departed' = Departed
    BY MaxConnsAssumption DEF Accept, mainVars, roomVars, pongVars, IInv, TypeOK,
       Accepted, Client
  <1>2. /\ deq \subseteq deq' /\ deq' \subseteq deq \cup {nextId}
        /\ alive \subseteq alive' /\ alive' \subseteq alive \cup {nextId}
        /\ alive' \ alive \subseteq deq'
    BY DEF Accept
  <1>3. Lifecycle'
    BY <1>1, <1>2 DEF IInv, Lifecycle
  <1>4. DisconnectsQueued'
    BY <1>1, <1>2 DEF IInv, DisconnectsQueued
  <1>5. ValidationsQueued'
    BY <1>1, <1>2 DEF IInv, ValidationsQueued
  <1>6. /\ \A c \in Accepted : Introduced(c) => Introduced(c)'
        /\ \A j : \A c \in Accepted : IntroducedBefore(c, j) => IntroducedBefore(c, j)'
    BY <1>1, <1>2 DEF Introduced, IntroducedBefore
  <1>7. MessagesIntroduced'
    <2>1. UnderWay' = UnderWay
      BY <1>1 DEF UnderWay
    <2> QED  BY <1>1, <1>6, <2>1 DEF IInv, MessagesIntroduced
  <1>8. Tables'
    <2>1. nextId \notin validated
      BY <1>1 DEF IInv, Tables, TypeOK, Lifecycle, DisconnectQueued, DisconnectsQueued
    <2>2. \A c \in validated : DisconnectQueued(c) => DisconnectQueued(c)'
      BY <1>1 DEF DisconnectQueued
    <2> QED  BY <1>1, <1>2, <2>1, <2>2 DEF IInv, Tables, LiveAreWatched
  <1> QED  BY <1>3, <1>4, <1>5, <1>7, <1>8 DEF IInv

LEMMA ClientIsValidatedKeeps ==
    ASSUME IInv, NEW c \in Client, ClientIsValidated(c), TypeOK'
    PROVE  IInv'
  <1> USE DEF Departed, Accepted
  <1>0. PICK n \in Nat : n = Len(eventQ)
    BY DEF IInv, TypeOK
  <1>1. /\ UNCHANGED <<nextId, deq, alive, inQ, arriving, unswept, validated, players,
                       garbage, pongs>>
        /\ c \in deq /\ c \notin reading /\ reading' = reading \cup {c}
    BY DEF ClientIsValidated, mainVars, roomVars, pongVars
  <1>2. /\ n \in Nat /\ Len(eventQ') = n + 1
        /\ \A i \in 1 .. n : eventQ'[i] = eventQ[i]
        /\ eventQ'[n + 1] = Validated(c)
    <2>1. Validated(c) \in ServerEvent
      BY DEF ServerEvent
    <2> QED  BY <1>0, <2>1, AppendFacts DEF ClientIsValidated, IInv, TypeOK
  <1>3. Lifecycle'
    BY <1>1 DEF IInv, Lifecycle
  <1>4. DisconnectsQueued'
    BY <1>0, <1>1, <1>2, EventFacts DEF IInv, DisconnectsQueued
  <1>5. /\ c \notin validated
        /\ \A i \in 1 .. n : eventQ[i] # Validated(c)
    <2>1. \A k \in 1 .. n : eventQ[k] # Disconnected(c)
      BY <1>0, <1>1 DEF IInv, DisconnectsQueued
    <2>2. c \notin validated
      BY <1>0, <1>1, <2>1 DEF IInv, Tables, DisconnectQueued
    <2>3. \A i \in 1 .. n : eventQ[i] # Validated(c)
      <3>1. \A i \in 1 .. n : \A k \in i + 1 .. n : k \in 1 .. n
        BY <1>2
      <3> QED  BY <1>0, <1>1, <2>1, <3>1 DEF IInv, ValidationsQueued
    <2> QED  BY <2>2, <2>3
  <1>6. ValidationsQueued'
    <2> SUFFICES ASSUME NEW j \in 1 .. n + 1, NEW d \in Client, eventQ'[j] = Validated(d)
                 PROVE  /\ d \in Accepted' \ (validated' \cup Departed')
                        /\ \A i \in 1 .. n + 1 : eventQ'[i] = Validated(d) => i = j
                        /\ \/ d \in reading'
                           \/ \E k \in j + 1 .. n + 1 : eventQ'[k] = Disconnected(d)
      BY <1>2 DEF ValidationsQueued
    <2>1. CASE j = n + 1
      <3>1. d = c
        BY <1>2, <2>1, EventFacts
      <3>2. c \in Accepted' \ (validated' \cup Departed')
        BY <1>1, <1>5 DEF IInv, Lifecycle
      <3> QED  BY <1>1, <1>2, <1>5, <2>1, <3>1, <3>2
    <2>2. CASE j \in 1 .. n
      <3>1. d # c
        BY <1>2, <1>5, <2>2
      <3>2. /\ d \in Accepted \ (validated \cup Departed)
            /\ \A i \in 1 .. n : eventQ[i] = Validated(d) => i = j
            /\ \/ d \in reading
               \/ \E k \in j + 1 .. n : eventQ[k] = Disconnected(d)
        BY <1>0, <1>2, <2>2 DEF IInv, ValidationsQueued
      <3> QED  BY <1>1, <1>2, <2>2, <3>1, <3>2, EventFacts
    <2> QED  BY <1>2, <2>1, <2>2
  <1>7. /\ Introduced(c)'
        /\ \A d : Introduced(d) => Introduced(d)'
        /\ \A d : \A j \in 1 .. n : IntroducedBefore(d, j) => IntroducedBefore(d, j)'
    BY <1>0, <1>1, <1>2 DEF Introduced, IntroducedBefore
  <1>8. MessagesIntroduced'
    <2>1. \A j \in 1 .. n + 1, in \in Incoming : eventQ'[j] = Received(in) => j \in 1 .. n
      BY <1>2, EventFacts
    <2>2. UnderWay' = UnderWay \cup {c}
      BY <1>1 DEF UnderWay
    <2>3. c \in Accepted'
      BY <1>1 DEF IInv, Lifecycle
    <2>4. UnderWay' \subseteq Accepted' /\ \A d \in UnderWay' : Introduced(d)'
      BY <1>1, <1>7, <2>2, <2>3 DEF IInv, MessagesIntroduced
    <2>5. \A j \in 1 .. Len(eventQ'), in \in Incoming :
              eventQ'[j] = Received(in) => /\ in.from \in Accepted'
                                           /\ IntroducedBefore(in.from, j)'
      BY <1>0, <1>1, <1>2, <1>7, <2>1 DEF IInv, MessagesIntroduced
    <2> QED  BY <2>4, <2>5 DEF MessagesIntroduced
  <1>9. Tables'
    <2>1. \A d \in Client : DisconnectQueued(d) => DisconnectQueued(d)'
      BY <1>0, <1>2 DEF DisconnectQueued
    <2> QED  BY <1>1, <2>1 DEF IInv, TypeOK, Tables, LiveAreWatched
  <1> QED  BY <1>3, <1>4, <1>6, <1>8, <1>9 DEF IInv

LEMMA DrainOneKeeps == ASSUME IInv, DrainOne, TypeOK' PROVE IInv'
  <1> USE DEF Departed, Accepted
  <1>0. PICK n \in Nat : n = Len(eventQ)
    BY DEF IInv, TypeOK
  <1>1. UNCHANGED <<nextId, deq, alive, reading, arriving, unswept, validated, players,
                    garbage, pongs>>
    BY DEF DrainOne, netVars, mainVars, roomVars, pongVars
  <1>2. /\ Head(inQ) \in Incoming
        /\ Head(inQ) = inQ[1] /\ 1 \in 1 .. Len(inQ)
        /\ \A j \in 1 .. Len(inQ') : j + 1 \in 1 .. Len(inQ) /\ inQ'[j] = inQ[j + 1]
    BY TailFacts DEF DrainOne, IInv, TypeOK
  <1>3. /\ n \in Nat /\ Len(eventQ') = n + 1
        /\ \A i \in 1 .. n : eventQ'[i] = eventQ[i]
        /\ eventQ'[n + 1] = Received(Head(inQ))
    <2>1. Received(Head(inQ)) \in ServerEvent
      BY <1>2 DEF ServerEvent
    <2> QED  BY <1>0, <2>1, AppendFacts DEF DrainOne, IInv, TypeOK
  <1>4. Lifecycle'
    BY <1>1 DEF IInv, Lifecycle
  <1>5. DisconnectsQueued'
    BY <1>0, <1>1, <1>2, <1>3, EventFacts DEF IInv, DisconnectsQueued
  <1>6. ValidationsQueued'
    BY <1>0, <1>1, <1>2, <1>3, EventFacts DEF IInv, ValidationsQueued
  <1>7. /\ \A d : Introduced(d) => Introduced(d)'
        /\ \A d : \A j \in 1 .. n : IntroducedBefore(d, j) => IntroducedBefore(d, j)'
        /\ \A d : Introduced(d) => IntroducedBefore(d, n + 1)'
    BY <1>0, <1>1, <1>3 DEF Introduced, IntroducedBefore
  <1>8. MessagesIntroduced'
    <2>1. Head(inQ).from \in UnderWay
      BY <1>2 DEF UnderWay
    <2>2. UnderWay' \subseteq UnderWay
      BY <1>1, <1>2 DEF UnderWay
    <2>3. UnderWay' \subseteq Accepted' /\ \A d \in UnderWay' : Introduced(d)'
      BY <1>1, <1>7, <2>2 DEF IInv, MessagesIntroduced
    <2>4. ASSUME NEW j \in 1 .. n + 1, NEW in \in Incoming, eventQ'[j] = Received(in)
          PROVE  in.from \in Accepted' /\ IntroducedBefore(in.from, j)'
      <3>1. CASE j = n + 1
        <4>1. in.from = Head(inQ).from
          BY <1>2, <1>3, <2>4, <3>1, ReceivedFacts
        <4>2. Head(inQ).from \in Accepted /\ Introduced(Head(inQ).from)
          BY <2>1 DEF IInv, MessagesIntroduced
        <4> QED  BY <1>1, <1>7, <3>1, <4>1, <4>2
      <3>2. CASE j \in 1 .. n
        BY <1>0, <1>1, <1>3, <1>7, <2>4, <3>2 DEF IInv, MessagesIntroduced
      <3> QED  BY <1>3, <3>1, <3>2
    <2> QED  BY <1>3, <2>3, <2>4 DEF MessagesIntroduced
  <1>9. Tables'
    <2>1. \A d \in Client : DisconnectQueued(d) => DisconnectQueued(d)'
      BY <1>0, <1>3 DEF DisconnectQueued
    <2> QED  BY <1>1, <2>1 DEF IInv, TypeOK, Tables, LiveAreWatched
  <1> QED  BY <1>4, <1>5, <1>6, <1>8, <1>9 DEF IInv

LEMMA SweepOneKeeps ==
    ASSUME IInv, NEW c \in Client, SweepOne(c), c \notin alive, TypeOK'
    PROVE  IInv'
  <1> USE DEF Departed, Accepted
  <1>0. PICK n \in Nat : n = Len(eventQ)
    BY DEF IInv, TypeOK
  <1>1. /\ UNCHANGED <<nextId, alive, inQ, arriving, validated, players, garbage, pongs>>
        /\ c \in deq /\ deq' = deq \ {c} /\ reading' = reading \ {c}
        /\ unswept' = unswept \ {c}
    BY DEF SweepOne, roomVars, pongVars, IInv, Lifecycle
  <1>2. /\ n \in Nat /\ Len(eventQ') = n + 1
        /\ \A i \in 1 .. n : eventQ'[i] = eventQ[i]
        /\ eventQ'[n + 1] = Disconnected(c)
    <2>1. Disconnected(c) \in ServerEvent
      BY DEF ServerEvent
    <2>2. eventQ' = Append(eventQ, Disconnected(c))
      BY DEF SweepOne
    <2> QED  BY <1>0, <2>1, <2>2, AppendFacts DEF IInv, TypeOK
  <1>3. Lifecycle'
    BY <1>1 DEF IInv, Lifecycle
  <1>4. DisconnectsQueued'
    <2>1. \A i \in 1 .. n : eventQ[i] # Disconnected(c)
      BY <1>0, <1>1 DEF IInv, DisconnectsQueued
    <2>2. c \in Accepted' \ (deq' \cup Departed')
      BY <1>1 DEF IInv, Lifecycle
    <2>3. ASSUME NEW j \in 1 .. n + 1, NEW d \in Client, eventQ'[j] = Disconnected(d)
          PROVE  /\ d \in Accepted' \ (deq' \cup Departed')
                 /\ \A i \in 1 .. n + 1 : eventQ'[i] = Disconnected(d) => i = j
      <3>1. CASE j = n + 1
        BY <1>2, <2>1, <2>2, <2>3, <3>1, EventFacts
      <3>2. CASE j \in 1 .. n
        BY <1>0, <1>1, <1>2, <2>1, <2>3, <3>2, EventFacts DEF IInv, DisconnectsQueued
      <3> QED  BY <1>2, <3>1, <3>2
    <2> QED  BY <1>2, <2>3 DEF DisconnectsQueued
  <1>5. ValidationsQueued'
    <2> SUFFICES ASSUME NEW j \in 1 .. n + 1, NEW d \in Client, eventQ'[j] = Validated(d)
                 PROVE  /\ d \in Accepted' \ (validated' \cup Departed')
                        /\ \A i \in 1 .. n + 1 : eventQ'[i] = Validated(d) => i = j
                        /\ \/ d \in reading'
                           \/ \E k \in j + 1 .. n + 1 : eventQ'[k] = Disconnected(d)
      BY <1>2 DEF ValidationsQueued
    <2>1. j \in 1 .. n /\ eventQ[j] = Validated(d)
      BY <1>2, EventFacts
    <2>2. /\ d \in Accepted \ (validated \cup Departed)
          /\ \A i \in 1 .. n : eventQ[i] = Validated(d) => i = j
          /\ \/ d \in reading
             \/ \E k \in j + 1 .. n : eventQ[k] = Disconnected(d)
      BY <1>0, <2>1 DEF IInv, ValidationsQueued
    <2>3. n + 1 \in j + 1 .. n + 1
      BY <1>2, <2>1
    <2>4. \A i \in 1 .. n + 1 : eventQ'[i] = Validated(d) => i = j
      BY <1>2, <2>2, EventFacts
    <2>5. \/ d \in reading'
          \/ \E k \in j + 1 .. n + 1 : eventQ'[k] = Disconnected(d)
      BY <1>1, <1>2, <2>1, <2>2, <2>3
    <2> QED  BY <1>1, <2>2, <2>4, <2>5
  <1>6. /\ \A d : Introduced(d) => Introduced(d)'
        /\ \A d : \A j \in 1 .. n : IntroducedBefore(d, j) => IntroducedBefore(d, j)'
    BY <1>0, <1>1, <1>2 DEF Introduced, IntroducedBefore
  <1>7. MessagesIntroduced'
    <2>1. \A j \in 1 .. n + 1, in \in Incoming : eventQ'[j] = Received(in) => j \in 1 .. n
      BY <1>2, EventFacts
    <2>2. UnderWay' \subseteq UnderWay
      BY <1>1 DEF UnderWay
    <2>3. UnderWay' \subseteq Accepted' /\ \A d \in UnderWay' : Introduced(d)'
      BY <1>1, <1>6, <2>2 DEF IInv, MessagesIntroduced
    <2>4. \A j \in 1 .. Len(eventQ'), in \in Incoming :
              eventQ'[j] = Received(in) => /\ in.from \in Accepted'
                                           /\ IntroducedBefore(in.from, j)'
      BY <1>0, <1>1, <1>2, <1>6, <2>1 DEF IInv, MessagesIntroduced
    <2> QED  BY <2>3, <2>4 DEF MessagesIntroduced
  <1>8. Tables'
    <2>1. \A d \in Client : DisconnectQueued(d) => DisconnectQueued(d)'
      BY <1>0, <1>2 DEF DisconnectQueued
    <2>2. DisconnectQueued(c)'
      BY <1>2 DEF DisconnectQueued
    <2> QED  BY <1>1, <2>1, <2>2 DEF IInv, TypeOK, Tables, LiveAreWatched
  <1> QED  BY <1>3, <1>4, <1>5, <1>7, <1>8 DEF IInv

-----------------------------------------------------------------------------
(* Handling an event moves every other event one place ahead.                *)

LEMMA TakenFacts ==
    ASSUME IInv, TakeEvent
    PROVE  \E n \in Nat :
               /\ n + 1 = Len(eventQ) /\ n = Len(eventQ')
               /\ \A i \in 1 .. n : eventQ'[i] = eventQ[i + 1]
               /\ \A i \in 2 .. n + 1 : i - 1 \in 1 .. n /\ eventQ'[i - 1] = eventQ[i]
               /\ eventQ[1] = Head(eventQ)
               /\ eventQ[1] \in ServerEvent
               /\ UNCHANGED <<nextId, deq, inQ, arriving, reading, phase, unswept>>
               /\ Accepted' = Accepted
               /\ UnderWay' = UnderWay
  <1>1. eventQ # <<>> /\ eventQ \in Seq(ServerEvent)
    BY DEF TakeEvent, IInv, TypeOK
  <1>2. PICK n \in Nat : n + 1 = Len(eventQ)
    <2>1. Len(eventQ) \in Nat \ {0}
      BY <1>1, TailFacts
    <2>2. Len(eventQ) - 1 \in Nat /\ (Len(eventQ) - 1) + 1 = Len(eventQ)
      BY <2>1
    <2> QED  BY <2>2
  <1>3. /\ Len(eventQ') = n
        /\ \A i \in 1 .. n : eventQ'[i] = eventQ[i + 1]
        /\ eventQ[1] = Head(eventQ) /\ eventQ[1] \in ServerEvent
    BY <1>1, <1>2, TailFacts DEF TakeEvent
  <1>4. \A i \in 2 .. n + 1 : i - 1 \in 1 .. n /\ eventQ'[i - 1] = eventQ[i]
    BY <1>2, <1>3
  <1>5. /\ UNCHANGED <<nextId, deq, inQ, arriving, reading, phase, unswept>>
        /\ Accepted' = Accepted
        /\ UnderWay' = UnderWay
    BY DEF TakeEvent, Accepted, UnderWay
  <1> QED  BY <1>2, <1>3, <1>4, <1>5

LEMMA MessageHandledKeeps ==
    ASSUME IInv, TakeEvent, TypeOK',
           \A d \in Client : Head(eventQ) # Validated(d) /\ Head(eventQ) # Disconnected(d),
           UNCHANGED <<validated, garbage>>,
           alive' \subseteq alive,
           players' \subseteq players \cup validated,
           pongs' \subseteq pongs \cup validated,
           LiveAreWatched'
    PROVE  IInv'
  <1> USE DEF Departed
  <1>1. PICK n \in Nat :
               /\ n + 1 = Len(eventQ) /\ n = Len(eventQ')
               /\ \A i \in 1 .. n : eventQ'[i] = eventQ[i + 1]
               /\ \A i \in 2 .. n + 1 : i - 1 \in 1 .. n /\ eventQ'[i - 1] = eventQ[i]
               /\ eventQ[1] = Head(eventQ)
               /\ UNCHANGED <<nextId, deq, inQ, arriving, reading, unswept>>
               /\ Accepted' = Accepted
               /\ UnderWay' = UnderWay
    BY TakenFacts
  <1>2. \A d \in Client, i \in 1 .. n + 1 :
            eventQ[i] = Validated(d) \/ eventQ[i] = Disconnected(d) => i \in 2 .. n + 1
    BY <1>1
  <1>3. Lifecycle'
    <2>1. Departed' = Departed
      OBVIOUS
    <2> HIDE DEF Departed
    <2>2. /\ UNCHANGED <<deq, reading, unswept, garbage>> /\ Accepted' = Accepted
          /\ alive' \subseteq alive /\ Lifecycle
      BY <1>1 DEF IInv
    <2> QED  BY <2>1, <2>2 DEF Lifecycle
  <1>4. DisconnectsQueued'
    <2> SUFFICES ASSUME NEW j \in 1 .. n, NEW d \in Client, eventQ'[j] = Disconnected(d)
                 PROVE  /\ d \in Accepted' \ (deq' \cup Departed')
                        /\ \A i \in 1 .. n : eventQ'[i] = Disconnected(d) => i = j
      BY <1>1 DEF DisconnectsQueued
    <2>1. /\ j + 1 \in 1 .. n + 1 /\ eventQ[j + 1] = Disconnected(d)
          /\ \A i \in 1 .. n : i + 1 \in 1 .. n + 1 /\ (i + 1 = j + 1 => i = j)
      BY <1>1
    <2>2. /\ d \in Accepted \ (deq \cup Departed)
          /\ \A i \in 1 .. n + 1 : eventQ[i] = Disconnected(d) => i = j + 1
      BY <1>1, <2>1 DEF IInv, DisconnectsQueued
    <2> QED  BY <1>1, <2>1, <2>2
  <1>5. ValidationsQueued'
    <2> SUFFICES ASSUME NEW j \in 1 .. n, NEW d \in Client, eventQ'[j] = Validated(d)
                 PROVE  /\ d \in Accepted' \ (validated' \cup Departed')
                        /\ \A i \in 1 .. n : eventQ'[i] = Validated(d) => i = j
                        /\ \/ d \in reading'
                           \/ \E k \in j + 1 .. n : eventQ'[k] = Disconnected(d)
      BY <1>1 DEF ValidationsQueued
    <2>1. /\ d \in Accepted \ (validated \cup Departed)
          /\ \A i \in 1 .. n + 1 : eventQ[i] = Validated(d) => i = j + 1
          /\ \/ d \in reading
             \/ \E k \in j + 2 .. n + 1 : eventQ[k] = Disconnected(d)
      BY <1>1 DEF IInv, ValidationsQueued
    <2>2. ASSUME NEW k \in j + 2 .. n + 1, eventQ[k] = Disconnected(d)
          PROVE  k - 1 \in j + 1 .. n /\ eventQ'[k - 1] = Disconnected(d)
      BY <1>1, <2>2
    <2> QED  BY <1>1, <2>1, <2>2
  <1>6. /\ \A d \in Client : Introduced(d) => Introduced(d)'
        /\ \A d \in Client, j \in 1 .. n : IntroducedBefore(d, j + 1) => IntroducedBefore(d, j)'
    <2>1. \A d \in Client : Introduced(d) => Introduced(d)'
      BY <1>1, <1>2 DEF Introduced
    <2>2. ASSUME NEW d \in Client, NEW j \in 1 .. n, IntroducedBefore(d, j + 1)
          PROVE  IntroducedBefore(d, j)'
      <3>1. ASSUME NEW i \in 1 .. j, eventQ[i] = Validated(d)
            PROVE  i - 1 \in 1 .. j - 1 /\ eventQ'[i - 1] = Validated(d)
        <4>1. i \in 2 .. n + 1 /\ j \in Nat
          BY <1>1, <1>2, <3>1
        <4> QED  BY <1>1, <3>1, <4>1
      <3> QED  BY <1>1, <2>2, <3>1 DEF IntroducedBefore
    <2> QED  BY <2>1, <2>2
  <1>7. MessagesIntroduced'
    <2>1. UnderWay' \subseteq Accepted' /\ \A d \in UnderWay' : Introduced(d)'
      <3>1. Accepted \subseteq Client
        BY MaxConnsAssumption DEF Accepted, IInv, TypeOK, Client
      <3> QED  BY <1>1, <1>6, <3>1 DEF IInv, MessagesIntroduced
    <2>2. \A j \in 1 .. n, in \in Incoming :
              eventQ'[j] = Received(in) => /\ in.from \in Accepted'
                                           /\ IntroducedBefore(in.from, j)'
      BY <1>1, <1>6, ReceivedFacts DEF IInv, MessagesIntroduced
    <2> QED  BY <1>1, <2>1, <2>2 DEF MessagesIntroduced
  <1>8. Tables'
    <2>1. \A d \in Client : DisconnectQueued(d) => DisconnectQueued(d)'
      BY <1>1, <1>2 DEF DisconnectQueued
    <2> QED  BY <1>1, <2>1 DEF IInv, TypeOK, Tables
  <1> QED  BY <1>3, <1>4, <1>5, <1>7, <1>8 DEF IInv

LEMMA ValidatedHandledKeeps ==
    ASSUME IInv, NEW c \in Client, HandleClientValidated(c), TypeOK'
    PROVE  IInv'
  <1> USE DEF Departed
  <1>1. PICK n \in Nat :
               /\ n + 1 = Len(eventQ) /\ n = Len(eventQ')
               /\ \A i \in 1 .. n : eventQ'[i] = eventQ[i + 1]
               /\ \A i \in 2 .. n + 1 : i - 1 \in 1 .. n /\ eventQ'[i - 1] = eventQ[i]
               /\ eventQ[1] = Head(eventQ)
               /\ UNCHANGED <<nextId, deq, inQ, arriving, reading, unswept>>
               /\ Accepted' = Accepted
               /\ UnderWay' = UnderWay
    BY TakenFacts DEF HandleClientValidated
  <1>2. /\ eventQ[1] = Validated(c)
        /\ validated' = validated \cup {c} /\ pongs' = pongs \cup {c}
        /\ UNCHANGED <<alive, players, garbage>>
    BY <1>1 DEF HandleClientValidated
  <1>3. /\ \A i \in 1 .. n + 1 : eventQ[i] = Validated(c) => i = 1
        /\ \/ c \in reading
           \/ \E k \in 2 .. n + 1 : eventQ[k] = Disconnected(c)
    BY <1>1, <1>2 DEF IInv, ValidationsQueued
  <1>4. \A d \in Client, i \in 1 .. n + 1 :
            /\ eventQ[i] = Disconnected(d) => i \in 2 .. n + 1
            /\ eventQ[i] = Validated(d) /\ d # c => i \in 2 .. n + 1
    BY <1>2, EventFacts
  <1>5. Lifecycle'
    BY <1>1, <1>2 DEF IInv, Lifecycle
  <1>6. DisconnectsQueued'
    BY <1>1, <1>2 DEF IInv, DisconnectsQueued
  <1>7. ValidationsQueued'
    <2> SUFFICES ASSUME NEW j \in 1 .. n, NEW d \in Client, eventQ'[j] = Validated(d)
                 PROVE  /\ d \in Accepted' \ (validated' \cup Departed')
                        /\ \A i \in 1 .. n : eventQ'[i] = Validated(d) => i = j
                        /\ \/ d \in reading'
                           \/ \E k \in j + 1 .. n : eventQ'[k] = Disconnected(d)
      BY <1>1 DEF ValidationsQueued
    <2>1. /\ d \in Accepted \ (validated \cup Departed)
          /\ \A i \in 1 .. n + 1 : eventQ[i] = Validated(d) => i = j + 1
          /\ \/ d \in reading
             \/ \E k \in j + 2 .. n + 1 : eventQ[k] = Disconnected(d)
      BY <1>1 DEF IInv, ValidationsQueued
    <2>2. ASSUME NEW k \in j + 2 .. n + 1, eventQ[k] = Disconnected(d)
          PROVE  k - 1 \in j + 1 .. n /\ eventQ'[k - 1] = Disconnected(d)
      BY <1>1, <2>2
    <2>3. d # c
      BY <1>1, <1>3
    <2> QED  BY <1>1, <1>2, <2>1, <2>2, <2>3
  <1>8. /\ \A d \in Client : Introduced(d) => Introduced(d)'
        /\ \A d \in Client, j \in 1 .. n : IntroducedBefore(d, j + 1) => IntroducedBefore(d, j)'
    <2>1. ASSUME NEW d \in Client, Introduced(d)
          PROVE  Introduced(d)'
      <3>1. CASE d = c
        BY <1>2, <3>1 DEF Introduced
      <3>2. CASE d # c
        BY <1>1, <1>2, <1>4, <2>1, <3>2 DEF Introduced
      <3> QED  BY <3>1, <3>2
    <2>2. ASSUME NEW d \in Client, NEW j \in 1 .. n, IntroducedBefore(d, j + 1)
          PROVE  IntroducedBefore(d, j)'
      <3>1. CASE d = c
        BY <1>2, <3>1 DEF IntroducedBefore
      <3>2. CASE d # c
        <4>1. ASSUME NEW i \in 1 .. j, eventQ[i] = Validated(d)
              PROVE  i - 1 \in 1 .. j - 1 /\ eventQ'[i - 1] = Validated(d)
          BY <1>1, <1>4, <3>2, <4>1
        <4> QED  BY <1>1, <1>2, <2>2, <4>1 DEF IntroducedBefore
      <3> QED  BY <3>1, <3>2
    <2> QED  BY <2>1, <2>2
  <1>9. MessagesIntroduced'
    <2>1. UnderWay' \subseteq Accepted' /\ \A d \in UnderWay' : Introduced(d)'
      <3>1. Accepted \subseteq Client
        BY MaxConnsAssumption DEF Accepted, IInv, TypeOK, Client
      <3> QED  BY <1>1, <1>8, <3>1 DEF IInv, MessagesIntroduced
    <2>2. \A j \in 1 .. n, in \in Incoming :
              eventQ'[j] = Received(in) => /\ in.from \in Accepted'
                                           /\ IntroducedBefore(in.from, j)'
      BY <1>1, <1>8, ReceivedFacts DEF IInv, MessagesIntroduced
    <2> QED  BY <1>1, <2>1, <2>2 DEF MessagesIntroduced
  <1>10. Tables'
    <2>1. \A d \in Client : DisconnectQueued(d) => DisconnectQueued(d)'
      BY <1>1, <1>4 DEF DisconnectQueued
    <2>2. c \in reading \/ DisconnectQueued(c)
      BY <1>1, <1>3 DEF DisconnectQueued
    <2> QED  BY <1>1, <1>2, <2>1, <2>2 DEF IInv, TypeOK, Tables, LiveAreWatched
  <1> QED  BY <1>5, <1>6, <1>7, <1>9, <1>10 DEF IInv

LEMMA DisconnectedHandledKeeps ==
    ASSUME IInv, NEW c \in Client, HandleClientDisconnected(c), TypeOK'
    PROVE  IInv'
  <1>1. PICK n \in Nat :
               /\ n + 1 = Len(eventQ) /\ n = Len(eventQ')
               /\ \A i \in 1 .. n : eventQ'[i] = eventQ[i + 1]
               /\ \A i \in 2 .. n + 1 : i - 1 \in 1 .. n /\ eventQ'[i - 1] = eventQ[i]
               /\ eventQ[1] = Head(eventQ)
               /\ UNCHANGED <<nextId, deq, inQ, arriving, reading, unswept>>
               /\ Accepted' = Accepted
               /\ UnderWay' = UnderWay
    BY TakenFacts DEF HandleClientDisconnected
  <1>2. /\ eventQ[1] = Disconnected(c)
        /\ validated' = validated \ {c} /\ pongs' = pongs \ {c} /\ players' = players \ {c}
        /\ garbage' = Append(garbage, c)
        /\ alive' = alive
    BY <1>1 DEF HandleClientDisconnected
  <1>3. /\ c \in Accepted /\ c \notin deq /\ c \notin Departed /\ c \notin reading
        /\ \A i \in 1 .. n + 1 : eventQ[i] = Disconnected(c) => i = 1
    BY <1>1, <1>2 DEF IInv, DisconnectsQueued, Lifecycle
  <1>4. /\ Departed' = Departed \cup {c}
        /\ \A i, j \in 1 .. Len(garbage') : garbage'[i] = garbage'[j] => i = j
    <2>1. PICK g \in Nat : g = Len(garbage)
      BY DEF IInv, TypeOK
    <2>2. /\ Len(garbage') = g + 1
          /\ \A i \in 1 .. g : garbage'[i] = garbage[i]
          /\ garbage'[g + 1] = c
      BY <1>2, <2>1, AppendFacts DEF IInv, TypeOK
    <2>3. Departed' = Departed \cup {c}
      BY <2>1, <2>2 DEF Departed
    <2>4. \A i \in 1 .. g : garbage[i] # c
      BY <1>3, <2>1 DEF Departed
    <2>5. \A i, j \in 1 .. g : garbage[i] = garbage[j] => i = j
      BY <2>1 DEF IInv, Lifecycle
    <2> QED  BY <2>2, <2>3, <2>4, <2>5
  <1>5. \A d \in Client, i \in 1 .. n + 1 :
            /\ eventQ[i] = Validated(d) => i \in 2 .. n + 1
            /\ eventQ[i] = Disconnected(d) /\ d # c => i \in 2 .. n + 1
    BY <1>2, EventFacts
  <1>6. Lifecycle'
    BY <1>1, <1>2, <1>3, <1>4 DEF IInv, Lifecycle
  <1>7. DisconnectsQueued'
    <2>1. ASSUME NEW j \in 1 .. n, NEW d \in Client, eventQ'[j] = Disconnected(d)
          PROVE  /\ d \in Accepted' \ (deq' \cup Departed')
                 /\ \A i \in 1 .. n : eventQ'[i] = Disconnected(d) => i = j
      <3>1. d # c
        BY <1>1, <1>3, <2>1
      <3>2. /\ j + 1 \in 1 .. n + 1 /\ eventQ[j + 1] = Disconnected(d)
            /\ \A i \in 1 .. n : i + 1 \in 1 .. n + 1 /\ (i + 1 = j + 1 => i = j)
        BY <1>1, <2>1
      <3>3. /\ d \in Accepted \ (deq \cup Departed)
            /\ \A i \in 1 .. n + 1 : eventQ[i] = Disconnected(d) => i = j + 1
        BY <1>1, <3>2 DEF IInv, DisconnectsQueued
      <3> QED  BY <1>1, <1>4, <3>1, <3>2, <3>3
    <2> QED  BY <1>1, <2>1 DEF DisconnectsQueued
  <1>8. ValidationsQueued'
    <2> SUFFICES ASSUME NEW j \in 1 .. n, NEW d \in Client, eventQ'[j] = Validated(d)
                 PROVE  /\ d \in Accepted' \ (validated' \cup Departed')
                        /\ \A i \in 1 .. n : eventQ'[i] = Validated(d) => i = j
                        /\ \/ d \in reading'
                           \/ \E k \in j + 1 .. n : eventQ'[k] = Disconnected(d)
      BY <1>1 DEF ValidationsQueued
    <2>1. /\ d \in Accepted \ (validated \cup Departed)
          /\ \A i \in 1 .. n + 1 : eventQ[i] = Validated(d) => i = j + 1
          /\ \/ d \in reading
             \/ \E k \in j + 2 .. n + 1 : eventQ[k] = Disconnected(d)
      BY <1>1 DEF IInv, ValidationsQueued
    <2>2. ASSUME NEW k \in j + 2 .. n + 1, eventQ[k] = Disconnected(d)
          PROVE  k - 1 \in j + 1 .. n /\ eventQ'[k - 1] = Disconnected(d)
      BY <1>1, <2>2
    <2>3. d # c
      <3>1. \A k \in j + 2 .. n + 1 : k \in 1 .. n + 1 /\ k # 1
        OBVIOUS
      <3> QED  BY <1>3, <2>1, <3>1
    <2> QED  BY <1>1, <1>2, <1>4, <2>1, <2>2, <2>3
  <1>9. /\ \A d \in Client : Introduced(d) => Introduced(d)'
        /\ \A d \in Client, j \in 1 .. n : IntroducedBefore(d, j + 1) => IntroducedBefore(d, j)'
    <2>1. ASSUME NEW d \in Client, Introduced(d)
          PROVE  Introduced(d)'
      <3>1. CASE d = c
        BY <1>1, <1>3, <3>1 DEF Introduced
      <3>2. CASE d # c
        BY <1>1, <1>2, <1>5, <2>1, <3>2 DEF Introduced
      <3> QED  BY <3>1, <3>2
    <2>2. ASSUME NEW d \in Client, NEW j \in 1 .. n, IntroducedBefore(d, j + 1)
          PROVE  IntroducedBefore(d, j)'
      <3>1. CASE d = c
        BY <1>1, <1>3, <3>1 DEF IntroducedBefore
      <3>2. CASE d # c
        <4>1. ASSUME NEW i \in 1 .. j, eventQ[i] = Validated(d)
              PROVE  i - 1 \in 1 .. j - 1 /\ eventQ'[i - 1] = Validated(d)
          <5>1. i \in 1 .. n + 1 /\ j \in Nat
            BY <1>1
          <5>2. i \in 2 .. n + 1
            BY <1>5, <4>1, <5>1
          <5>3. i - 1 \in 1 .. j - 1
            BY <5>1, <5>2
          <5> QED  BY <1>1, <4>1, <5>2, <5>3
        <4> QED  BY <1>1, <1>2, <2>2, <3>2, <4>1 DEF IntroducedBefore
      <3> QED  BY <3>1, <3>2
    <2> QED  BY <2>1, <2>2
  <1>10. MessagesIntroduced'
    <2>1. UnderWay' \subseteq Accepted' /\ \A d \in UnderWay' : Introduced(d)'
      <3>1. Accepted \subseteq Client
        BY MaxConnsAssumption DEF Accepted, IInv, TypeOK, Client
      <3> QED  BY <1>1, <1>9, <3>1 DEF IInv, MessagesIntroduced
    <2>2. \A j \in 1 .. n, in \in Incoming :
              eventQ'[j] = Received(in) => /\ in.from \in Accepted'
                                           /\ IntroducedBefore(in.from, j)'
      BY <1>1, <1>9, ReceivedFacts DEF IInv, MessagesIntroduced
    <2> QED  BY <1>1, <2>1, <2>2 DEF MessagesIntroduced
  <1>11. Tables'
    <2>1. \A d \in Client \ {c} : DisconnectQueued(d) => DisconnectQueued(d)'
      BY <1>1, <1>5 DEF DisconnectQueued
    <2> QED  BY <1>1, <1>2, <2>1 DEF IInv, TypeOK, Tables, LiveAreWatched
  <1> QED  BY <1>6, <1>7, <1>8, <1>10, <1>11 DEF IInv

(* A message that is handled while its connection is in the deque comes from   *)
(* a validated client.                                                       *)
LEMMA SenderIsValidated ==
    ASSUME IInv, NEW c \in Client, NEW m \in ClientMsg, TakeMessage(c, m)
    PROVE  /\ c \in validated
           /\ \A d \in Client : Head(eventQ) # Validated(d) /\ Head(eventQ) # Disconnected(d)
  <1> DEFINE in == [from |-> c, msg |-> m]
  <1>1. in \in Incoming /\ in.from = c
    BY DEF Incoming
  <1> HIDE DEF in
  <1>2. TakeEvent /\ c \in deq /\ Head(eventQ) = Received(in)
    BY DEF TakeMessage, in
  <1>3. eventQ[1] = Received(in) /\ 1 \in 1 .. Len(eventQ)
    BY <1>2, TakenFacts
  <1>4. IntroducedBefore(c, 1)
    BY <1>1, <1>3 DEF IInv, MessagesIntroduced
  <1>5. c \in validated
    BY <1>2, <1>4 DEF IntroducedBefore
  <1> QED  BY <1>1, <1>2, <1>5, EventFacts

LEMMA HandleEventKeeps == ASSUME IInv, HandleEvent, TypeOK' PROVE IInv'
  <1> USE DEF roomVars, pongVars
  <1>1. ASSUME HandleInvalidClient PROVE IInv'
    <2>1. \A d \in Client : Head(eventQ) # Validated(d) /\ Head(eventQ) # Disconnected(d)
      BY <1>1 DEF HandleInvalidClient, Validated, Disconnected
    <2> QED
      BY <1>1, <2>1, MessageHandledKeeps DEF HandleInvalidClient, LiveAreWatched, IInv, Tables
  <1>2. ASSUME NEW c \in Client, HandleClientValidated(c) PROVE IInv'
    BY <1>2, ValidatedHandledKeeps
  <1>3. ASSUME NEW c \in Client, HandleClientDisconnected(c) PROVE IInv'
    BY <1>3, DisconnectedHandledKeeps
  <1>4. ASSUME NEW c \in Client, NEW m \in ClientMsg, TakeMessage(c, m),
               UNCHANGED <<validated, garbage>>, alive' \subseteq alive,
               players' \subseteq players \cup {c},
               pongs \subseteq pongs', pongs' \subseteq pongs \cup {c}
        PROVE  IInv'
    <2>1. /\ TakeEvent /\ c \in validated
          /\ \A d \in Client : Head(eventQ) # Validated(d) /\ Head(eventQ) # Disconnected(d)
      BY <1>4, SenderIsValidated DEF TakeMessage
    <2>2. LiveAreWatched'
      BY <1>4 DEF LiveAreWatched, IInv, Tables
    <2> QED  BY <1>4, <2>1, <2>2, MessageHandledKeeps
  <1>5. ASSUME NEW c \in Client, RegisterWithServer(c) PROVE IInv'
    BY <1>4, <1>5 DEF RegisterWithServer, ClientMsg
  <1>6. ASSUME NEW c \in Client, UnregisterWithServer(c) PROVE IInv'
    BY <1>4, <1>6 DEF UnregisterWithServer, ClientMsg
  <1>7. ASSUME NEW c \in Client, Pong(c) PROVE IInv'
    BY <1>4, <1>7 DEF Pong, ClientMsg
  <1>8. ASSUME NEW c \in Client, RequestRoomJoin(c) PROVE IInv'
    BY <1>4, <1>8 DEF RequestRoomJoin, ClientMsg
  <1>9. ASSUME NEW c \in Client, PlayerDead(c) PROVE IInv'
    BY <1>4, <1>9 DEF PlayerDead, ClientMsg
  <1>10. ASSUME NEW c \in Client, RelayGameState(c) PROVE IInv'
    BY <1>4, <1>10 DEF RelayGameState, ClientMsg
  <1>11. ASSUME AllPlayersReady PROVE IInv'
    <2>1. Steady /\ LiveAreWatched' /\ UnderWay' = UnderWay
      BY <1>11 DEF AllPlayersReady, netVars, Steady, LiveAreWatched, IInv, Tables, UnderWay
    <2>2. UNCHANGED <<alive, unswept, players, pongs>>
      BY <1>11 DEF AllPlayersReady, netVars, mainVars
    <2> QED  BY <2>1, <2>2, SteadyStep DEF IInv, Lifecycle
  <1> QED
    BY <1>1, <1>2, <1>3, <1>5, <1>6, <1>7, <1>8, <1>9, <1>10, <1>11 DEF HandleEvent

-----------------------------------------------------------------------------
LEMMA InitIInv == Init => IInv
  <1> SUFFICES ASSUME Init PROVE IInv
    OBVIOUS
  <1>1. Departed = {} /\ UnderWay = {} /\ Len(eventQ) = 0
    BY DEF Init, Departed, UnderWay
  <1> QED
    BY <1>1, TypeInit DEF Init, IInv, Lifecycle, DisconnectsQueued, ValidationsQueued,
       MessagesIntroduced, Tables, LiveAreWatched

LEMMA NextKeepsIInv == IInv /\ [Next]_vars => IInv'
  <1> SUFFICES ASSUME IInv, [Next]_vars PROVE IInv'
    OBVIOUS
  <1> USE DEF netVars, mainVars, roomVars, pongVars
  <1>0. TypeOK'
    BY TypeCorrect DEF IInv
  <1>1. ASSUME Steady, UNCHANGED <<players, pongs, inQ, arriving>>,
               alive' \subseteq alive, unswept' \subseteq deq
        PROVE  IInv'
    <2>1. LiveAreWatched' /\ UnderWay' = UnderWay
      BY <1>1 DEF Steady, LiveAreWatched, IInv, Tables, UnderWay
    <2> QED  BY <1>0, <1>1, <2>1, SteadyStep
  <1>2. CASE UNCHANGED vars
    BY <1>1, <1>2 DEF vars, Steady, IInv, Lifecycle
  <1>3. CASE Accept
    BY <1>0, <1>3, AcceptKeeps
  <1>4. ASSUME NEW c \in Client, ClientIsValidated(c) PROVE IInv'
    BY <1>0, <1>4, ClientIsValidatedKeeps
  <1>5. ASSUME NEW c \in Client, NEW m \in ClientMsg, ReadMessage(c, m) PROVE IInv'
    <2>1. UnderWay' \subseteq UnderWay
      BY <1>5 DEF ReadMessage, UnderWay
    <2>2. Steady /\ LiveAreWatched'
      BY <1>5 DEF ReadMessage, Steady, LiveAreWatched, IInv, Tables
    <2> QED  BY <1>0, <1>5, <2>1, <2>2, SteadyStep DEF ReadMessage, IInv, Lifecycle
  <1>6. CASE PushMessage
    <2>1. UnderWay' \subseteq UnderWay
      <3>1. \A j \in 1 .. Len(inQ') :
                \/ j \in 1 .. Len(inQ) /\ inQ'[j] = inQ[j]
                \/ inQ'[j] = arriving /\ arriving # Idle
        <4>1. arriving \in Incoming /\ inQ \in Seq(Incoming)
          BY <1>6 DEF PushMessage, IInv, TypeOK
        <4> QED  BY <1>6, <4>1, AppendFacts DEF PushMessage
      <3> QED  BY <1>6, <3>1 DEF PushMessage, UnderWay
    <2>2. Steady /\ LiveAreWatched'
      BY <1>6 DEF PushMessage, Steady, LiveAreWatched, IInv, Tables
    <2> QED  BY <1>0, <1>6, <2>1, <2>2, SteadyStep DEF PushMessage, IInv, Lifecycle
  <1>7. ASSUME NEW c \in Client, ConnectionFails(c) PROVE IInv'
    BY <1>1, <1>7 DEF ConnectionFails, Steady, IInv, Lifecycle
  <1>8. ASSUME NEW c \in Client, PongAges(c) PROVE IInv'
    BY <1>1, <1>8 DEF PongAges, Steady, IInv, Lifecycle
  <1>9. CASE DrainOne
    BY <1>0, <1>9, DrainOneKeeps
  <1>10. CASE DrainDone
    BY <1>1, <1>10 DEF DrainDone, Steady
  <1>11. ASSUME NEW c \in Client, SweepOne(c) PROVE IInv'
    <2>1. CASE c \in alive
      BY <1>1, <1>11, <2>1 DEF SweepOne, Steady, IInv, Lifecycle
    <2>2. CASE c \notin alive
      BY <1>0, <1>11, <2>2, SweepOneKeeps
    <2> QED  BY <2>1, <2>2
  <1>12. CASE SweepDone
    BY <1>1, <1>12 DEF SweepDone, Steady, IInv, Lifecycle
  <1>13. CASE EraseSlots \/ SwapEvents \/ BatchDone
    BY <1>1, <1>13 DEF EraseSlots, SwapEvents, BatchDone, Steady, IInv, Lifecycle
  <1>14. CASE HandleEvent
    BY <1>0, <1>14, HandleEventKeeps
  <1>15. CASE PingAllClients
    BY <1>1, <1>15 DEF PingAllClients, Steady, IInv, Lifecycle
  <1>16. CASE CheckTimeouts
    <2>1. Steady /\ UnderWay' = UnderWay
      BY <1>16 DEF CheckTimeouts, Steady, UnderWay
    <2>2. LiveAreWatched'
      BY <1>16 DEF CheckTimeouts, LiveAreWatched, IInv, Tables, Lifecycle
    <2> QED  BY <1>0, <1>16, <2>1, <2>2, SteadyStep DEF CheckTimeouts, IInv, Lifecycle
  <1> QED
    BY <1>2, <1>3, <1>4, <1>5, <1>6, <1>7, <1>8, <1>9, <1>10, <1>11, <1>12, <1>13,
       <1>14, <1>15, <1>16
    DEF Next, AsioThread, MainThread

THEOREM Inductive == Spec => []IInv
  BY InitIInv, NextKeepsIInv, PTL DEF Spec

(* The four safety properties the runs check, for every number of connections. *)

(* No player, validated client or watched pong outlives its connection beyond  *)
(* the ClientDisconnected event that removes it.                             *)
THEOREM NoGhostsHold == Spec => []NoGhosts
  <1>1. IInv => NoGhosts
    BY DEF IInv, Tables, Lifecycle, NoGhosts
  <1> QED  BY Inductive, <1>1, PTL

(* Nobody is registered as a player before its ClientValidated was handled.    *)
THEOREM PlayersAreValidatedHolds == Spec => []PlayersAreValidated
  <1>1. IInv => PlayersAreValidated
    BY DEF IInv, Tables, PlayersAreValidated
  <1> QED  BY Inductive, <1>1, PTL

(* The pong timeout watches every validated client that is alive.              *)
THEOREM LiveAreWatchedHolds == Spec => []LiveAreWatched
  <1>1. IInv => LiveAreWatched
    BY DEF IInv, Tables
  <1> QED  BY Inductive, <1>1, PTL

(* A connection's disconnect is handled at most once, after it left the deque. *)
THEOREM DepartOnceHolds == Spec => []DepartOnce
  <1>1. IInv => DepartOnce
    BY DEF IInv, Lifecycle, DepartOnce
  <1> QED  BY Inductive, <1>1, PTL

-----------------------------------------------------------------------------
(* The refinement of GameRoom.                                               *)

LEMMA ServeStep ==
    ASSUME IInv, UNCHANGED roomVars,
           \/ posts' = <<>>
           \/ \E to \in SUBSET deq, t \in {"Client_Accepted", "Server_Ping"} :
                  posts' = <<Room!Post(to, Room!Signal(t))>>
    PROVE  Room!Serve
  <1> USE DEF roomVars
  <1>1. SUBSET deq \subseteq Room!Audience
    BY DEF Room!Audience, IInv, Lifecycle, TypeOK
  <1> QED  BY <1>1 DEF Room!Serve, Departed

LEMMA SamePlayers == Room!TwoPlayers <=> Cardinality(players) = 2
  BY DEF Room!TwoPlayers, Cardinality, Room!Cardinality

LEMMA VerdictStep ==
    ASSUME IInv, NEW c \in Client, Verdict(c)
    PROVE  Room!Verdict(c)
  <1>1. Listeners \in Room!Audience
    BY DEF Listeners, Room!Audience, IInv, Lifecycle, TypeOK
  <1>2. CASE Cardinality(players) = 2
    <2>1. PICK w \in players \ {c} :
                 posts' = <<Room!Post(Listeners, Room!GameOver(w, c))>>
      BY <1>2 DEF Verdict, MessageAllClients
    <2> QED  BY <1>1, <1>2, <2>1, SamePlayers DEF Room!Verdict
  <1>3. CASE Cardinality(players) # 2
    BY <1>3, SamePlayers DEF Verdict, Room!Verdict
  <1> QED  BY <1>2, <1>3

LEMMA HandlerStep == ASSUME IInv, HandleEvent PROVE Room!Next
  <1> USE DEF roomVars, pongVars
  <1>0. /\ \A c \in Client : {c} \cap Listeners \in SUBSET {c}
        /\ Listeners \in Room!Audience
        /\ \A c \in Client : Listeners \ {c} \in Room!Audience
    BY DEF Listeners, Room!Audience, IInv, Lifecycle, TypeOK
  <1>1. ASSUME HandleInvalidClient PROVE Room!Next
    BY <1>1, ServeStep DEF HandleInvalidClient, Room!Next
  <1>2. ASSUME NEW c \in Client, HandleClientValidated(c) PROVE Room!Next
    <2>1. eventQ[1] = Validated(c) /\ 1 \in 1 .. Len(eventQ)
      BY <1>2, TakenFacts DEF HandleClientValidated
    <2>2. c \notin validated \cup Departed
      BY <2>1 DEF IInv, ValidationsQueued
    <2>3. Room!Admit(c)
      BY <1>2, <2>2 DEF Room!Admit, HandleClientValidated, TakeEvent, Departed
    <2> QED  BY <2>3 DEF Room!Next
  <1>3. ASSUME NEW c \in Client, HandleClientDisconnected(c) PROVE Room!Next
    <2>1. eventQ[1] = Disconnected(c) /\ 1 \in 1 .. Len(eventQ)
      BY <1>3, TakenFacts DEF HandleClientDisconnected
    <2>2. c \notin Departed
      BY <2>1 DEF IInv, DisconnectsQueued
    <2>3. Departed' = Departed \cup {c}
      <3>1. PICK g \in Nat : g = Len(garbage)
        BY DEF IInv, TypeOK
      <3>2. /\ Len(garbage') = g + 1
            /\ \A i \in 1 .. g : garbage'[i] = garbage[i]
            /\ garbage'[g + 1] = c
        BY <1>3, <3>1, AppendFacts DEF HandleClientDisconnected, IInv, TypeOK
      <3> QED  BY <3>1, <3>2 DEF Departed
    <2>4. Room!Depart(c)
      BY <1>3, <2>2, <2>3, VerdictStep DEF Room!Depart, HandleClientDisconnected, TakeEvent
    <2> QED  BY <2>4 DEF Room!Next
  <1>4. ASSUME NEW c \in Client, RegisterWithServer(c) PROVE Room!Next
    <2>1. c \in validated
      BY <1>4, SenderIsValidated DEF RegisterWithServer, ClientMsg
    <2>2. Room!Register(c)
      BY <1>0, <1>4, <2>1 DEF RegisterWithServer, TakeMessage, TakeEvent,
         Room!Register, MessageClient, Departed
    <2> QED  BY <2>2 DEF Room!Next
  <1>5. ASSUME NEW c \in Client, UnregisterWithServer(c) PROVE Room!Next
    BY <1>5, ServeStep DEF UnregisterWithServer, Room!Next
  <1>6. ASSUME NEW c \in Client, Pong(c) PROVE Room!Next
    BY <1>6, ServeStep DEF Pong, Room!Next
  <1>7. ASSUME NEW c \in Client, RequestRoomJoin(c) PROVE Room!Next
    <2>1. c \in validated
      BY <1>7, SenderIsValidated DEF RequestRoomJoin, ClientMsg
    <2> DEFINE accepted == Room!Post({c} \cap Listeners, Room!Signal("Server_RoomJoinAccepted"))
               seeded(s) == Room!Post(Listeners, Room!BagSeed(s))
    <2>2. \E s \in Seed : posts' = IF Room!TwoPlayers
                                  THEN <<accepted, seeded(s)>>
                                  ELSE <<accepted>>
      BY <1>7, SamePlayers DEF RequestRoomJoin, MessageClient, MessageAllClients
    <2>3. UNCHANGED <<validated, players, Departed>> /\ starting' = Room!TwoPlayers
      BY <1>7, SamePlayers DEF RequestRoomJoin, Departed
    <2>5. ~starting
      BY <1>7 DEF RequestRoomJoin, TakeMessage, TakeEvent
    <2>4. Room!RequestRoomJoin(c)
      BY <1>0, <2>1, <2>2, <2>3, <2>5 DEF Room!RequestRoomJoin
    <2> QED  BY <2>4 DEF Room!Next
  <1>8. ASSUME NEW c \in Client, PlayerDead(c) PROVE Room!Next
    <2>1. c \in validated
      BY <1>8, SenderIsValidated DEF PlayerDead, ClientMsg
    <2>2. Room!PlayerDead(c)
      BY <1>8, <2>1, VerdictStep DEF PlayerDead, TakeMessage, TakeEvent, Room!PlayerDead,
         Departed
    <2> QED  BY <2>2 DEF Room!Next
  <1>9. ASSUME NEW c \in Client, RelayGameState(c) PROVE Room!Next
    <2>1. c \in validated
      BY <1>9, SenderIsValidated DEF RelayGameState, ClientMsg
    <2>2. Room!Relay(c)
      BY <1>0, <1>9, <2>1 DEF RelayGameState, TakeMessage, TakeEvent, Room!Relay, Departed
    <2> QED  BY <2>2 DEF Room!Next
  <1>10. ASSUME AllPlayersReady PROVE Room!Next
    <2>1. Room!AllPlayersReady
      BY <1>0, <1>10 DEF AllPlayersReady, Room!AllPlayersReady, MessageAllClients, Departed
    <2> QED  BY <2>1 DEF Room!Next
  <1> QED
    BY <1>1, <1>2, <1>3, <1>4, <1>5, <1>6, <1>7, <1>8, <1>9, <1>10 DEF HandleEvent

LEMMA NextRefines == IInv /\ [Next]_vars => [Room!Next]_(Room!vars)
  <1> SUFFICES ASSUME IInv, [Next]_vars PROVE [Room!Next]_(Room!vars)
    OBVIOUS
  <1> USE DEF netVars, mainVars, roomVars, pongVars
  <1>1. CASE UNCHANGED vars
    BY <1>1 DEF vars, Room!vars, Departed
  <1>2. CASE HandleEvent
    BY <1>2, HandlerStep
  <1>3. ASSUME UNCHANGED roomVars,
               \/ posts' = <<>>
               \/ \E to \in SUBSET deq, t \in {"Client_Accepted", "Server_Ping"} :
                      posts' = <<Room!Post(to, Room!Signal(t))>>
        PROVE  Room!Next
    BY <1>3, ServeStep DEF Room!Next
  <1>4. ASSUME NEW c \in Client, ClientIsValidated(c) PROVE Room!Next
    <2>1. {c} \in SUBSET deq
      BY <1>4 DEF ClientIsValidated
    <2>2. posts' = <<Room!Post({c}, Room!Signal("Client_Accepted"))>>
      BY <1>4 DEF ClientIsValidated
    <2>3. UNCHANGED roomVars
      BY <1>4 DEF ClientIsValidated
    <2> QED  BY <1>3, <2>1, <2>2, <2>3
  <1>5. CASE PingAllClients
    <2>1. Listeners \cap validated \in SUBSET deq
      BY DEF Listeners
    <2>2. \/ posts' = <<>>
          \/ posts' = <<Room!Post(Listeners \cap validated, Room!Signal("Server_Ping"))>>
      BY <1>5 DEF PingAllClients
    <2>3. UNCHANGED roomVars
      BY <1>5 DEF PingAllClients
    <2> QED  BY <1>3, <2>1, <2>2, <2>3
  <1>6. CASE Accept
    BY <1>3, <1>6 DEF Accept
  <1>7. CASE PushMessage
    BY <1>3, <1>7 DEF PushMessage
  <1>8. ASSUME NEW c \in Client,
               \/ ConnectionFails(c)
               \/ \E m \in ClientMsg : ReadMessage(c, m)
               \/ PongAges(c)
               \/ SweepOne(c)
        PROVE  Room!Next
    BY <1>3, <1>8 DEF ConnectionFails, ReadMessage, PongAges, SweepOne
  <1>9. CASE DrainOne \/ DrainDone \/ SweepDone \/ EraseSlots
    BY <1>3, <1>9 DEF DrainOne, DrainDone, SweepDone, EraseSlots
  <1>10. CASE SwapEvents \/ BatchDone \/ CheckTimeouts
    BY <1>3, <1>10 DEF SwapEvents, BatchDone, CheckTimeouts
  <1> QED
    BY <1>1, <1>2, <1>4, <1>5, <1>6, <1>7, <1>8, <1>9, <1>10
    DEF Next, AsioThread, MainThread

(* The server with its two threads and two queues implements the atomic room   *)
(* of GameRoom: connections are admitted once, only members register, every  *)
(* departure is handled once, and nothing is posted to the departed.         *)
THEOREM Refinement == Spec => ImplementsGameRoom
  <1>1. Init => Room!Init
    BY DEF Init, Room!Init, Departed
  <1> QED
    BY <1>1, Inductive, NextRefines, PTL DEF Spec, ImplementsGameRoom, Room!Spec
=============================================================================
